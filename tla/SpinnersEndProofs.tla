------------------------- MODULE SpinnersEndProofs --------------------------
(***************************************************************************)
(* The invariant of SpinnersProofs for the shell, the host dashboard, the  *)
(* inbox and the library, and what follows for all pages.                  *)
(***************************************************************************)
EXTENDS SpinnersPagesProofs

-----------------------------------------------------------------------------
(* The shell of the site.                                                  *)

LEMMA ShellOps ==
  /\ \A n, op, arg : Shell!Add(n, op, arg) = Add(n, op, arg)
  /\ \A r, op, arg : Shell!Onward(r, op, arg) = Onward(r, op, arg)
  /\ \A r, ok, val : Shell!Reply(r, ok, val) = Reply(r, ok, val)
  /\ Shell!Orphaned = Orphaned
<1>1. \A n, op, arg : Shell!Add(n, op, arg) = Add(n, op, arg)
  BY DEF Shell!Add, Add
<1> QED
  BY <1>1 DEF Shell!Onward, Onward, Shell!Reply, Reply, Shell!Orphaned, Orphaned

SessionHolds == {<<"bypass", "bypass">>, <<"verify", "verify">>}

LEMMA SessionStep ==
  ASSUME FlagsHeld("session", SessionHolds), Shell!SessionNext
  PROVE  FlagsHeld("session", SessionHolds)'
<1> DEFINE Inv == FlagsHeld("session", SessionHolds)
<1>1. page = <<"session", "mounted">> /\ "busy" \in DOMAIN ui
  BY Mounted DEF Shell!SessionNext, Shell!On
<1>set. UNCHANGED <<page, net>> /\ (ui' = ui \/ Fewer) => Inv'
  BY SetHeld
<1>call. \A op, arg : net' = Shell!Add(net, op, arg) /\ UNCHANGED page
          /\ Covered(SessionHolds, op) => Inv'
  BY <1>1, CallHeld, ShellOps
<1>done. \A r \in net : net' = net \ {r} /\ UNCHANGED page /\ Ended(SessionHolds, r) => Inv'
  BY <1>1, DoneHeld
<1>drop. \A r \in net : net' = net \ {r} /\ UNCHANGED page /\ Dropped(SessionHolds, r) => Inv'
  BY <1>1, DropHeld
<1>swap. \A r \in net : \A op, arg :
          net' = Shell!Add(net \ {r}, op, arg) /\ UNCHANGED page
          /\ (Swapped(SessionHolds, r, op) \/ Passed(SessionHolds, r, op)) => Inv'
  BY <1>1, SwapHeld, ShellOps
<1>answer. \A r \in net : \A ok, val : net' = Shell!Reply(r, ok, val)
          /\ UNCHANGED <<page, ui, atom>> => Inv'
  BY ReplyHeld, ShellOps
<1> USE <1>1 DEF SessionHolds
<1>2. Shell!holdTicks => Inv'
  BY <1>set DEF Shell!holdTicks, Shell!Freed, Shell!Set, Shell!SetAtom, Fewer
<1>3. Shell!holdingPageTicks => Inv'
  BY <1>set
     DEF Shell!holdingPageTicks, Shell!onCleared, Shell!Freed, Shell!Set, Shell!SetAtom, Fewer
<1>4. Shell!handleTotpSubmit => Inv'
  BY <1>call DEF Shell!handleTotpSubmit, Shell!Call, Covered, Shell!Busy
<1>5. Shell!validateSession => Inv'
  BY <1>call DEF Shell!validateSession, Shell!Call, Covered
<1>6. Shell!loadRoles => Inv'
  BY <1>call DEF Shell!loadRoles, Shell!Call, Covered
<1>7. Shell!mfaVerify => Inv'
  BY <1>call DEF Shell!mfaVerify, Shell!Call, Covered, Shell!Busy
<1>8. Shell!mfaBack => Inv'
  BY <1>set DEF Shell!mfaBack, Shell!SignedOut, Shell!SetAtom, Fewer, Shell!Close
<1>9. Shell!toggleAccountMenu => Inv'
  BY <1>set DEF Shell!toggleAccountMenu, Shell!Set, Fewer, Shell!Open, Shell!Close, Shell!Toggle
<1>10. Shell!handleLogout => Inv'
  BY <1>call DEF Shell!handleLogout, Shell!Call, Covered, Shell!Close
<1>11. Shell!toggleLayoutMode => Inv'
  BY <1>set DEF Shell!toggleLayoutMode, Shell!Set, Fewer, Shell!Open, Shell!Close, Shell!Toggle
<1>12. Shell!userPushed => Inv'
  BY <1>set DEF Shell!userPushed, Shell!handleUserUpdate, Shell!SignedOut, Fewer, Shell!Open
<1>13. Shell!SessionChanges => Inv'
  BY <1>set DEF Shell!SessionChanges, Shell!Changes, Fewer
<1>14. \A r \in net : Shell!refreshed(r) => Inv'
  <2> SUFFICES ASSUME NEW r \in net, Shell!refreshed(r) PROVE Inv'
    OBVIOUS
  <2>1. r.op = "refresh" /\ r.rep # None
    BY DEF Shell!refreshed, Shell!Replied
  <2>2. ASSUME NEW s, NEW a, ui' = Shell!handleRateLimit(ui, s)
               /\ net' = Shell!Add(net \ {r}, "profile", a) /\ UNCHANGED page
        PROVE  Inv'
    BY <2>1, <2>2, <1>swap DEF Shell!handleRateLimit, Swapped, Passed
  <2>3. ASSUME NEW a, ui' = ui /\ net' = Shell!Add(net \ {r}, "profile", a) /\ UNCHANGED page
        PROVE  Inv'
    BY <2>1, <2>3, <1>swap DEF Swapped, Passed
  <2> QED
    BY <2>2, <2>3 DEF Shell!refreshed, Shell!Replied
<1>15. \A r \in net : Shell!gotProfile(r) => Inv'
  BY <1>done, <1>drop
     DEF Shell!gotProfile, Shell!Outcome, Shell!Held, Shell!SignedOut, Shell!handleRateLimit,
         Shell!DoneAtom, Shell!Reach, Ended, Dropped, Shell!Open, Shell!Replied
<1>16. \A r \in net : Shell!gotRoles(r) => Inv'
  BY <1>done
     DEF Shell!gotRoles, Shell!Outcome, Shell!Held, Shell!SignedOut, Shell!handleRateLimit,
         Shell!Done, Shell!Reach, Shell!DoneAtom, Ended, Dropped, Shell!Open, Shell!Replied
<1>17. \A r \in net : Shell!bypassed(r) => Inv'
  <2> SUFFICES ASSUME NEW r \in net, Shell!bypassed(r) PROVE Inv'
    OBVIOUS
  <2>1. r.op = "bypass"
    BY DEF Shell!bypassed, Shell!Outcome, Shell!Replied
  <2>2. ASSUME NEW a, Shell!DoneAtom(r, Shell!Idle(ui, "bypass"), a) PROVE Inv'
    BY <2>1, <2>2, <1>done DEF Shell!DoneAtom, Shell!Reach, Ended, Dropped, Shell!Idle
  <2>3. ASSUME NEW a, Shell!DoneAtom(r, Shell!Open(Shell!Idle(ui, "bypass"), "mfa"), a) PROVE Inv'
    BY <2>1, <2>3, <1>done DEF Shell!DoneAtom, Shell!Reach, Ended, Dropped, Shell!Idle, Shell!Open
  <2>4. ASSUME NEW s, NEW a, Shell!DoneAtom(r, Shell!handleRateLimit(Shell!Idle(ui, "bypass"), s),
               a)
        PROVE  Inv'
    BY <2>1, <2>4, <1>done
       DEF Shell!handleRateLimit, Shell!DoneAtom, Shell!Reach, Ended, Dropped, Shell!Idle
  <2>5. ASSUME NEW a, Shell!DoneAtom(r, Shell!Freed(Shell!Idle(ui, "bypass")), a) PROVE Inv'
    BY <2>1, <2>5, <1>done
       DEF Shell!Freed, Shell!DoneAtom, Shell!Reach, Ended, Dropped, Shell!Idle
  <2> QED
    BY <2>2, <2>3, <2>4, <2>5 DEF Shell!bypassed, Shell!Outcome, Shell!Replied
<1>18. \A r \in net : Shell!mfaVerified(r) => Inv'
  <2> SUFFICES ASSUME NEW r \in net, Shell!mfaVerified(r) PROVE Inv'
    OBVIOUS
  <2>1. r.op = "verify"
    BY DEF Shell!mfaVerified, Shell!Outcome, Shell!Replied
  <2>2. ASSUME NEW a, Shell!DoneAtom(r, Shell!Idle(ui, "verify"), a) PROVE Inv'
    BY <2>1, <2>2, <1>done DEF Shell!DoneAtom, Shell!Reach, Ended, Dropped, Shell!Idle
  <2>3. ASSUME NEW a, Shell!DoneAtom(r, Shell!Open(Shell!Idle(ui, "verify"), "mfa"), a) PROVE Inv'
    BY <2>1, <2>3, <1>done DEF Shell!DoneAtom, Shell!Reach, Ended, Dropped, Shell!Idle, Shell!Open
  <2>4. ASSUME NEW s, NEW a, Shell!DoneAtom(r, Shell!handleRateLimit(Shell!Idle(ui, "verify"), s),
               a)
        PROVE  Inv'
    BY <2>1, <2>4, <1>done
       DEF Shell!handleRateLimit, Shell!DoneAtom, Shell!Reach, Ended, Dropped, Shell!Idle
  <2>5. ASSUME Shell!Done(r, Shell!Close(Shell!Idle(ui, "verify"), "mfa")) PROVE Inv'
    BY <2>1, <2>5, <1>done DEF Shell!Done, Shell!Reach, Ended, Dropped, Shell!Idle, Shell!Close
  <2> QED
    BY <2>2, <2>3, <2>4, <2>5 DEF Shell!mfaVerified, Shell!Outcome, Shell!Replied
<1>19. \A r \in net : Shell!loggedOut(r) => Inv'
  BY <1>done
     DEF Shell!loggedOut, Shell!SignedOut, Shell!DoneAtom, Shell!Reach, Ended, Dropped,
         Shell!Replied
<1>20. \A r \in net : Shell!SessionServer(r) => Inv'
  BY <1>answer DEF Shell!SessionServer, Shell!Answer, Shell!AnswerPush, Shell!Read
<1> QED
  BY <1>2, <1>3, <1>4, <1>5, <1>6, <1>7, <1>8, <1>9, <1>10, <1>11, <1>12, <1>13, <1>14, <1>15,
         <1>16, <1>17, <1>18, <1>19, <1>20
     DEF Shell!SessionNext

SigninHolds == {<<"login", "submit">>, <<"register", "submit">>, <<"loginTOTP", "submit">>}

LEMMA SigninStep ==
  ASSUME FlagsHeld("signin", SigninHolds), Shell!SigninNext
  PROVE  FlagsHeld("signin", SigninHolds)'
<1> DEFINE Inv == FlagsHeld("signin", SigninHolds)
<1>1. page = <<"signin", "mounted">> /\ "busy" \in DOMAIN ui
  BY Mounted DEF Shell!SigninNext, Shell!On
<1>set. UNCHANGED <<page, net>> /\ (ui' = ui \/ Fewer) => Inv'
  BY SetHeld
<1>call. \A op, arg : net' = Shell!Add(net, op, arg) /\ UNCHANGED page
          /\ Covered(SigninHolds, op) => Inv'
  BY <1>1, CallHeld, ShellOps
<1>done. \A r \in net : net' = net \ {r} /\ UNCHANGED page /\ Ended(SigninHolds, r) => Inv'
  BY <1>1, DoneHeld
<1>answer. \A r \in net : \A ok, val : net' = Shell!Reply(r, ok, val)
          /\ UNCHANGED <<page, ui, atom>> => Inv'
  BY ReplyHeld, ShellOps
<1>away. page' = <<"signin", "away">> /\ (net' = {} \/ net' = Shell!Orphaned) => Inv'
  BY AwayHeld, ShellOps
<1> USE <1>1 DEF SigninHolds
<1>2. Shell!setIsLogin => Inv'
  BY <1>set DEF Shell!setIsLogin, Shell!Set, Fewer, Shell!Open, Shell!Close, Shell!Toggle
<1>3. Shell!handleSubmit => Inv'
  BY <1>call DEF Shell!handleSubmit, Shell!Call, Covered, Shell!Busy
<1>4. Shell!handleVerify => Inv'
  BY <1>call DEF Shell!handleVerify, Shell!Call, Covered, Shell!Busy
<1>5. Shell!useBackupCode => Inv'
  BY <1>set DEF Shell!useBackupCode, Shell!Set, Fewer, Shell!Open, Shell!Close, Shell!Toggle
<1>6. Shell!totpBack => Inv'
  BY <1>set DEF Shell!totpBack, Shell!Set, Fewer, Shell!Close
<1>7. Shell!leaveSignin => Inv'
  BY <1>away DEF Shell!leaveSignin, Shell!Quit
<1>8. \A r \in net : Shell!submitted(r) => Inv'
  <2> SUFFICES ASSUME NEW r \in net, Shell!submitted(r) PROVE Inv'
    OBVIOUS
  <2>1. r.op \in {"login", "register", "loginTOTP"}
    BY DEF Shell!submitted, Shell!Replied
  <2>2. ASSUME NEW e, Shell!Done(r, [Shell!Idle(ui, "submit") EXCEPT !.error = e]) PROVE Inv'
    BY <2>1, <2>2, <1>done DEF Shell!Done, Shell!Reach, Ended, Dropped, Shell!Idle
  <2>3. ASSUME Shell!Done(r, Shell!Open(Shell!Idle(ui, "submit"), "success")) PROVE Inv'
    BY <2>1, <2>3, <1>done DEF Shell!Done, Shell!Reach, Ended, Dropped, Shell!Idle, Shell!Open
  <2>4. ASSUME Shell!Done(r, [Shell!Open(Shell!Open(Shell!Idle(ui, "submit"), "login"),
               "success") EXCEPT !.at = TRUE])
        PROVE  Inv'
    BY <2>1, <2>4, <1>done DEF Shell!Done, Shell!Reach, Ended, Dropped, Shell!Idle, Shell!Open
  <2>5. ASSUME Shell!Done(r, [Shell!Idle(ui, "submit") EXCEPT !.totp = TRUE]) PROVE Inv'
    BY <2>1, <2>5, <1>done DEF Shell!Done, Shell!Reach, Ended, Dropped, Shell!Idle
  <2>6. ASSUME Shell!completeLogin(r) PROVE Inv'
    BY <2>1, <2>6, <1>away DEF Shell!completeLogin
  <2> QED
    BY <2>2, <2>3, <2>4, <2>5, <2>6 DEF Shell!submitted, Shell!Replied
<1>9. \A r \in net : Shell!SigninServer(r) => Inv'
  BY <1>answer DEF Shell!SigninServer, Shell!Read, Shell!Answer, Shell!AnswerPush
<1> QED
  BY <1>2, <1>3, <1>4, <1>5, <1>6, <1>7, <1>8, <1>9 DEF Shell!SigninNext

RecoveryHolds == {<<"list", "requests">>, <<"forgot", "submit">>}

LEMMA RecoveryStep ==
  ASSUME FlagsHeld("recovery", RecoveryHolds), Shell!RecoveryNext
  PROVE  FlagsHeld("recovery", RecoveryHolds)'
<1> DEFINE Inv == FlagsHeld("recovery", RecoveryHolds)
<1>1. page = <<"recovery", "mounted">> /\ "busy" \in DOMAIN ui
  BY Mounted DEF Shell!RecoveryNext, Shell!On
<1>set. UNCHANGED <<page, net>> /\ (ui' = ui \/ Fewer) => Inv'
  BY SetHeld
<1>call. \A op, arg : net' = Shell!Add(net, op, arg) /\ UNCHANGED page
          /\ Covered(RecoveryHolds, op) => Inv'
  BY <1>1, CallHeld, ShellOps
<1>done. \A r \in net : net' = net \ {r} /\ UNCHANGED page /\ Ended(RecoveryHolds, r) => Inv'
  BY <1>1, DoneHeld
<1>drop. \A r \in net : net' = net \ {r} /\ UNCHANGED page /\ Dropped(RecoveryHolds, r) => Inv'
  BY <1>1, DropHeld
<1>goes. \A r \in net : \A op, arg :
          net' = Shell!Onward(r, op, arg) /\ UNCHANGED page /\ r.rep # None
          /\ Passed(RecoveryHolds, r, op) => Inv'
  BY <1>1, GoesHeld, ShellOps
<1>swap. \A r \in net : \A op, arg :
          net' = Shell!Add(net \ {r}, op, arg) /\ UNCHANGED page
          /\ (Swapped(RecoveryHolds, r, op) \/ Passed(RecoveryHolds, r, op)) => Inv'
  BY <1>1, SwapHeld, ShellOps
<1>answer. \A r \in net : \A ok, val : net' = Shell!Reply(r, ok, val)
          /\ UNCHANGED <<page, ui, atom>> => Inv'
  BY ReplyHeld, ShellOps
<1>away. page' = <<"recovery", "away">> /\ (net' = {} \/ net' = Shell!Orphaned) => Inv'
  BY AwayHeld, ShellOps
<1> USE <1>1 DEF RecoveryHolds
<1>2. Shell!requestRecovery => Inv'
  BY <1>call DEF Shell!requestRecovery, Shell!Call, Covered, Shell!Busy
<1>3. Shell!handleRecoveryUpdate => Inv'
  <2> SUFFICES ASSUME Shell!handleRecoveryUpdate PROVE Inv'
    OBVIOUS
  <2>1. ASSUME page' = <<"recovery", "away">> /\ net' = {} PROVE Inv'
    BY <2>1, <1>away
  <2>2. ASSUME NEW v, ui' = [Shell!Busy(ui, "requests") EXCEPT !.own = v]
               /\ net' = Shell!Add(net, "list", None) /\ UNCHANGED page
        PROVE  Inv'
    BY <2>2, <1>call DEF Covered, Shell!Busy
  <2>3. ASSUME NEW v, ui' = [ui EXCEPT !.own = v] /\ UNCHANGED <<page, net>> PROVE Inv'
    BY <2>3, <1>set DEF Fewer
  <2>4. ASSUME UNCHANGED <<page, ui, net>> PROVE Inv'
    BY <2>4, <1>set DEF Fewer
  <2>5. CASE Head(push).kind = "accepted" /\ Head(push).id \in atom.pending
    BY <2>1, <2>5 DEF Shell!handleRecoveryUpdate
  <2>6. CASE ~(Head(push).kind = "accepted" /\ Head(push).id \in atom.pending)
    <3>1. CASE Head(push).kind # "update"
      BY <2>4, <2>6, <3>1 DEF Shell!handleRecoveryUpdate
    <3>2. CASE Head(push).kind = "update" /\ ui.may
      <4>1. Shell!Refetching(ui) = Shell!Busy(ui, "requests")
              /\ Shell!fetchRequests(ui, net) = Shell!Add(net, "list", None)
        BY <3>2 DEF Shell!Refetching, Shell!fetchRequests
      <4>2. UNCHANGED page /\ net' = Shell!Add(net, "list", None)
            /\ \E v : ui' = [Shell!Busy(ui, "requests") EXCEPT !.own = v]
        BY <2>6, <3>2, <4>1 DEF Shell!handleRecoveryUpdate
      <4> QED
        BY <2>2, <4>2
    <3>3. CASE Head(push).kind = "update" /\ ~ui.may
      <4>1. Shell!Refetching(ui) = ui /\ Shell!fetchRequests(ui, net) = net
        BY <3>3 DEF Shell!Refetching, Shell!fetchRequests
      <4>2. UNCHANGED page /\ net' = net /\ \E v : ui' = [ui EXCEPT !.own = v]
        BY <2>6, <3>3, <4>1 DEF Shell!handleRecoveryUpdate
      <4> QED
        BY <2>3, <4>2
    <3> QED
      BY <3>1, <3>2, <3>3
  <2> QED
    BY <2>5, <2>6
<1>4. Shell!RecoveryChanges => Inv'
  BY <1>set DEF Shell!RecoveryChanges, Shell!Changes, Fewer
<1>5. \A q : Shell!acceptRequest(q) => Inv'
  BY <1>call DEF Shell!acceptRequest, Shell!Call, Covered
<1>6. \A q : Shell!rejectRequest(q) => Inv'
  BY <1>call DEF Shell!rejectRequest, Shell!Call, Covered
<1>7. \A q : Shell!requestExpires(q) => Inv'
  BY <1>set DEF Shell!requestExpires, Shell!Set, Fewer
<1>8. \A r \in net : Shell!gotRequests(r) => Inv'
  BY <1>done
     DEF Shell!gotRequests, Shell!Done, Shell!Reach, Ended, Dropped, Shell!Idle, Shell!Replied
<1>9. \A r \in net : Shell!recoveryAsked(r) => Inv'
  <2> SUFFICES ASSUME NEW r \in net, Shell!recoveryAsked(r) PROVE Inv'
    OBVIOUS
  <2>1. r.op = "forgot" /\ r.rep # None
    BY DEF Shell!recoveryAsked, Shell!Refetching, Shell!Replied
  <2>2. ASSUME Shell!Done(r, Shell!Idle(ui, "submit")) PROVE Inv'
    BY <2>1, <2>2, <1>done DEF Shell!Done, Shell!Reach, Ended, Dropped, Shell!Idle
  <2>3. ASSUME ui' = Shell!Open(Shell!Idle([Shell!Busy(ui, "requests") EXCEPT !.own = "q1"],
               "submit"), "sent") /\ net' = Shell!Add(net \ {r}, "list", None) /\ UNCHANGED page
        PROVE  Inv'
    BY <2>1, <2>3, <1>swap DEF Swapped, Passed, Shell!Busy, Shell!Idle, Shell!Open
  <2>4. ASSUME ui' = Shell!Open(Shell!Idle([ui EXCEPT !.own = "q1"], "submit"), "sent")
               /\ net' = net \ {r} /\ UNCHANGED page
        PROVE  Inv'
    BY <2>1, <2>4, <1>drop DEF Dropped, Shell!Idle, Shell!Open
  <2>5. CASE ~r.rep.ok
    BY <2>2, <2>5 DEF Shell!recoveryAsked
  <2>6. CASE r.rep.ok /\ ui.may
    <3>1. Shell!Refetching(ui) = Shell!Busy(ui, "requests")
          /\ Shell!fetchRequests(ui, net \ {r}) = Shell!Add(net \ {r}, "list", None)
      BY <2>6 DEF Shell!Refetching, Shell!fetchRequests
    <3> QED
      BY <2>3, <2>6, <3>1 DEF Shell!recoveryAsked
  <2>7. CASE r.rep.ok /\ ~ui.may
    <3>1. Shell!Refetching(ui) = ui /\ Shell!fetchRequests(ui, net \ {r}) = net \ {r}
      BY <2>7 DEF Shell!Refetching, Shell!fetchRequests
    <3> QED
      BY <2>4, <2>7, <3>1 DEF Shell!recoveryAsked
  <2> QED
    BY <2>5, <2>6, <2>7
<1>10. \A r \in net : Shell!requestActed(r) => Inv'
  BY ZenonT(30), <1>done, <1>goes
     DEF Shell!requestActed, Shell!Refetching, Shell!Done, Shell!Reach, Shell!Goes, Ended,
         Dropped, Passed, Swapped, Shell!Busy, Shell!Replied
<1>11. \A r \in net : Shell!RecoveryServer(r) => Inv'
  <2> SUFFICES ASSUME NEW r \in net, Shell!RecoveryServer(r) PROVE Inv'
    OBVIOUS
  <2>1. ASSUME NEW d, NEW v, NEW ps, Shell!AnswerPush(r, d, v, ps) PROVE Inv'
    BY <1>answer, <2>1 DEF Shell!AnswerPush
  <2> QED
    BY <2>1 DEF Shell!RecoveryServer, Shell!Read, Shell!Answer
<1> QED
  BY <1>2, <1>3, <1>4, <1>5, <1>6, <1>7, <1>8, <1>9, <1>10, <1>11 DEF Shell!RecoveryNext

RecoveryActing == <<"field", {<<"accept", "acting">>, <<"reject", "acting">>}, "acting", None>>

LEMMA RecoveryActingRule ==
  /\ Shown(RecoveryActing) = (IF ui.acting = None THEN {} ELSE {"acting"})
  /\ Shown(RecoveryActing)' = (IF ui'.acting = None THEN {} ELSE {"acting"})
  /\ (Whole(RecoveryActing) <=> "busy" \in DOMAIN ui /\ "acting" \in DOMAIN ui)
  /\ (Whole(RecoveryActing)' <=> "busy" \in DOMAIN ui' /\ "acting" \in DOMAIN ui')
  /\ \A op, arg, f : Holds(RecoveryActing, op, arg, f)
        <=> (op = "accept" /\ f = "acting") \/ (op = "reject" /\ f = "acting")
<1>1. Shown(RecoveryActing) = (IF ui.acting = None THEN {} ELSE {"acting"})
        /\ Shown(RecoveryActing)' = (IF ui'.acting = None THEN {} ELSE {"acting"})
  BY DEF Shown, FlagsOf, RecoveryActing
<1>2. (Whole(RecoveryActing) <=> "busy" \in DOMAIN ui /\ "acting" \in DOMAIN ui)
        /\ (Whole(RecoveryActing)' <=> "busy" \in DOMAIN ui' /\ "acting" \in DOMAIN ui')
  BY DEF Whole, FieldsOf, RecoveryActing
<1>3. \A op, arg, f : Holds(RecoveryActing, op, arg, f)
        <=> (op = "accept" /\ f = "acting") \/ (op = "reject" /\ f = "acting")
  BY DEF Holds, RecoveryActing
<1> QED
  BY <1>1, <1>2, <1>3

LEMMA RecoveryActingStep ==
  ASSUME Steady("recovery", RecoveryActing), Shell!RecoveryNext
  PROVE  Steady("recovery", RecoveryActing)'
<1> DEFINE Inv == Steady("recovery", RecoveryActing)
<1>1. page = <<"recovery", "mounted">> /\ Whole(RecoveryActing)
  BY DEF Steady, Shell!RecoveryNext, Shell!On
<1>set. UNCHANGED <<page, net>> /\ Fades(RecoveryActing) => Inv'
  BY <1>1, SetSteady
<1>call. \A op, arg : net' = Shell!Add(net, op, arg) /\ UNCHANGED page
          /\ Begun(RecoveryActing, op, arg) => Inv'
  BY <1>1, CallSteady, ShellOps
<1>done. \A r \in net : net' = net \ {r} /\ UNCHANGED page /\ Closed(RecoveryActing, r) => Inv'
  BY <1>1, DoneSteady
<1>drop. \A r \in net : net' = net \ {r} /\ UNCHANGED page /\ Closed(RecoveryActing, r) => Inv'
  BY <1>1, DoneSteady
<1>goes. \A r \in net : \A op, arg :
          net' = Shell!Onward(r, op, arg) /\ UNCHANGED page /\ r.rep # None
          /\ Handed(RecoveryActing, r, op, arg) => Inv'
  BY <1>1, GoesSteady, ShellOps
<1>swap. \A r \in net : \A op, arg :
          net' = Shell!Add(net \ {r}, op, arg) /\ UNCHANGED page
          /\ Renewed(RecoveryActing, r, op, arg) => Inv'
  BY <1>1, SwapSteady, ShellOps
<1>answer. \A r \in net : \A ok, val : net' = Shell!Reply(r, ok, val)
          /\ UNCHANGED <<page, ui, atom>> => Inv'
  BY ReplySteady, ShellOps
<1>away. page' = <<"recovery", "away">> /\ (net' = {} \/ net' = Shell!Orphaned) => Inv'
  BY AwaySteady, GoneRequests, ShellOps DEF Steady
<1> USE <1>1, RecoveryActingRule
<1>2. Shell!requestRecovery => Inv'
  BY <1>call DEF Shell!requestRecovery, Shell!Call, Begun, Shell!Busy
<1>3. Shell!handleRecoveryUpdate => Inv'
  <2> SUFFICES ASSUME Shell!handleRecoveryUpdate PROVE Inv'
    OBVIOUS
  <2>1. ASSUME page' = <<"recovery", "away">> /\ net' = {} PROVE Inv'
    BY <2>1, <1>away
  <2>2. ASSUME NEW v, ui' = [Shell!Busy(ui, "requests") EXCEPT !.own = v]
               /\ net' = Shell!Add(net, "list", None) /\ UNCHANGED page
        PROVE  Inv'
    BY <2>2, <1>call DEF Begun, Shell!Busy
  <2>3. ASSUME NEW v, ui' = [ui EXCEPT !.own = v] /\ UNCHANGED <<page, net>> PROVE Inv'
    BY <2>3, <1>set DEF Fades
  <2>4. ASSUME UNCHANGED <<page, ui, net>> PROVE Inv'
    BY <2>4, <1>set DEF Fades
  <2>5. CASE Head(push).kind = "accepted" /\ Head(push).id \in atom.pending
    BY <2>1, <2>5 DEF Shell!handleRecoveryUpdate
  <2>6. CASE ~(Head(push).kind = "accepted" /\ Head(push).id \in atom.pending)
    <3>1. CASE Head(push).kind # "update"
      BY <2>4, <2>6, <3>1 DEF Shell!handleRecoveryUpdate
    <3>2. CASE Head(push).kind = "update" /\ ui.may
      <4>1. Shell!Refetching(ui) = Shell!Busy(ui, "requests")
              /\ Shell!fetchRequests(ui, net) = Shell!Add(net, "list", None)
        BY <3>2 DEF Shell!Refetching, Shell!fetchRequests
      <4>2. UNCHANGED page /\ net' = Shell!Add(net, "list", None)
            /\ \E v : ui' = [Shell!Busy(ui, "requests") EXCEPT !.own = v]
        BY <2>6, <3>2, <4>1 DEF Shell!handleRecoveryUpdate
      <4> QED
        BY <2>2, <4>2
    <3>3. CASE Head(push).kind = "update" /\ ~ui.may
      <4>1. Shell!Refetching(ui) = ui /\ Shell!fetchRequests(ui, net) = net
        BY <3>3 DEF Shell!Refetching, Shell!fetchRequests
      <4>2. UNCHANGED page /\ net' = net /\ \E v : ui' = [ui EXCEPT !.own = v]
        BY <2>6, <3>3, <4>1 DEF Shell!handleRecoveryUpdate
      <4> QED
        BY <2>3, <4>2
    <3> QED
      BY <3>1, <3>2, <3>3
  <2> QED
    BY <2>5, <2>6
<1>4. Shell!RecoveryChanges => Inv'
  BY <1>set DEF Shell!RecoveryChanges, Shell!Changes, Fades
<1>5. \A q : Shell!acceptRequest(q) => Inv'
  BY <1>call DEF Shell!acceptRequest, Shell!Call, Begun
<1>6. \A q : Shell!rejectRequest(q) => Inv'
  BY <1>call DEF Shell!rejectRequest, Shell!Call, Begun
<1>7. \A q : Shell!requestExpires(q) => Inv'
  BY <1>set DEF Shell!requestExpires, Shell!Set, Fades
<1>8. \A r \in net : Shell!gotRequests(r) => Inv'
  BY <1>done
     DEF Shell!gotRequests, Shell!Done, Shell!Reach, Closed, Spent, Shell!Idle, Shell!Replied
<1>9. \A r \in net : Shell!recoveryAsked(r) => Inv'
  <2> SUFFICES ASSUME NEW r \in net, Shell!recoveryAsked(r) PROVE Inv'
    OBVIOUS
  <2>1. r.op = "forgot" /\ r.rep # None
    BY DEF Shell!recoveryAsked, Shell!Refetching, Shell!Replied
  <2>2. ASSUME Shell!Done(r, Shell!Idle(ui, "submit")) PROVE Inv'
    BY <2>1, <2>2, <1>done DEF Shell!Done, Shell!Reach, Closed, Spent, Shell!Idle
  <2>3. ASSUME ui' = Shell!Open(Shell!Idle([Shell!Busy(ui, "requests") EXCEPT !.own = "q1"],
               "submit"), "sent") /\ net' = Shell!Add(net \ {r}, "list", None) /\ UNCHANGED page
        PROVE  Inv'
    BY <2>1, <2>3, <1>swap DEF Renewed, Spent, Shell!Busy, Shell!Idle, Shell!Open
  <2>4. ASSUME ui' = Shell!Open(Shell!Idle([ui EXCEPT !.own = "q1"], "submit"), "sent")
               /\ net' = net \ {r} /\ UNCHANGED page
        PROVE  Inv'
    BY <2>1, <2>4, <1>drop DEF Closed, Spent, Shell!Idle, Shell!Open
  <2>5. CASE ~r.rep.ok
    BY <2>2, <2>5 DEF Shell!recoveryAsked
  <2>6. CASE r.rep.ok /\ ui.may
    <3>1. Shell!Refetching(ui) = Shell!Busy(ui, "requests")
          /\ Shell!fetchRequests(ui, net \ {r}) = Shell!Add(net \ {r}, "list", None)
      BY <2>6 DEF Shell!Refetching, Shell!fetchRequests
    <3> QED
      BY <2>3, <2>6, <3>1 DEF Shell!recoveryAsked
  <2>7. CASE r.rep.ok /\ ~ui.may
    <3>1. Shell!Refetching(ui) = ui /\ Shell!fetchRequests(ui, net \ {r}) = net \ {r}
      BY <2>7 DEF Shell!Refetching, Shell!fetchRequests
    <3> QED
      BY <2>4, <2>7, <3>1 DEF Shell!recoveryAsked
  <2> QED
    BY <2>5, <2>6, <2>7
<1>10. \A r \in net : Shell!requestActed(r) => Inv'
  BY <1>done, <1>goes
     DEF Shell!requestActed, Shell!Refetching, Shell!Done, Shell!Reach, Shell!Goes, Closed, Spent,
         Handed, Shell!Busy, Shell!Replied
<1>11. \A r \in net : Shell!RecoveryServer(r) => Inv'
  <2> SUFFICES ASSUME NEW r \in net, Shell!RecoveryServer(r) PROVE Inv'
    OBVIOUS
  <2>1. ASSUME NEW d, NEW v, NEW ps, Shell!AnswerPush(r, d, v, ps) PROVE Inv'
    BY <1>answer, <2>1 DEF Shell!AnswerPush
  <2> QED
    BY <2>1 DEF Shell!RecoveryServer, Shell!Read, Shell!Answer
<1> QED
  BY <1>2, <1>3, <1>4, <1>5, <1>6, <1>7, <1>8, <1>9, <1>10, <1>11 DEF Shell!RecoveryNext

BellMore == <<"later", {<<"page", "more">>}>>

LEMMA BellMoreRule ==
  /\ Shown(BellMore) = ui.busy
  /\ Shown(BellMore)' = ui'.busy
  /\ (Whole(BellMore) <=> "busy" \in DOMAIN ui)
  /\ (Whole(BellMore)' <=> "busy" \in DOMAIN ui')
  /\ \A op, arg, f : Holds(BellMore, op, arg, f) <=> op = "page" /\ arg > 0 /\ f = "more"
<1>1. Shown(BellMore) = ui.busy /\ Shown(BellMore)' = ui'.busy
  BY DEF Shown, FlagsOf, BellMore
<1>2. (Whole(BellMore) <=> "busy" \in DOMAIN ui) /\ (Whole(BellMore)' <=> "busy" \in DOMAIN ui')
  BY DEF Whole, FieldsOf, BellMore
<1>3. \A op, arg, f : Holds(BellMore, op, arg, f) <=> op = "page" /\ arg > 0 /\ f = "more"
  BY DEF Holds, BellMore
<1> QED
  BY <1>1, <1>2, <1>3

LEMMA BellMoreStep ==
  ASSUME Steady("bell", BellMore), Shell!BellNext
  PROVE  Steady("bell", BellMore)'
<1> DEFINE Inv == Steady("bell", BellMore)
<1>1. page = <<"bell", "mounted">> /\ Whole(BellMore)
  BY DEF Steady, Shell!BellNext, Shell!On
<1>set. UNCHANGED <<page, net>> /\ Fades(BellMore) => Inv'
  BY <1>1, SetSteady
<1>call. \A op, arg : net' = Shell!Add(net, op, arg) /\ UNCHANGED page
          /\ Begun(BellMore, op, arg) => Inv'
  BY <1>1, CallSteady, ShellOps
<1>done. \A r \in net : net' = net \ {r} /\ UNCHANGED page /\ Closed(BellMore, r) => Inv'
  BY <1>1, DoneSteady
<1>answer. \A r \in net : \A ok, val : net' = Shell!Reply(r, ok, val)
          /\ UNCHANGED <<page, ui, atom>> => Inv'
  BY ReplySteady, ShellOps
<1> USE <1>1, BellMoreRule
<1>2. Shell!loadMore => Inv'
  BY <1>call DEF Shell!loadMore, Shell!Call, Begun, Shell!Busy
<1>3. Shell!toggleBell => Inv'
  BY <1>set DEF Shell!toggleBell, Shell!Set, Fades, Shell!Open, Shell!Close, Shell!Toggle
<1>4. Shell!markAllRead => Inv'
  BY <1>call DEF Shell!markAllRead, Shell!Write, Shell!Call, Begun
<1>5. Shell!clearAll => Inv'
  BY <1>call DEF Shell!clearAll, Shell!Write, Shell!Call, Begun
<1>6. Shell!bellPushed => Inv'
  BY <1>set DEF Shell!bellPushed, Shell!notificationReducer, Shell!MarkedRead, Shell!Takes, Fades
<1>7. Shell!BellChanges => Inv'
  BY <1>set DEF Shell!BellChanges, Shell!MarkedRead, Shell!Changes, Fades
<1>8. \A i : Shell!markRead(i) => Inv'
  BY <1>call DEF Shell!markRead, Shell!Write, Shell!Call, Begun
<1>9. \A i : Shell!deleteNotif(i) => Inv'
  BY <1>call DEF Shell!deleteNotif, Shell!Write, Shell!Call, Begun
<1>10. \A r \in net : Shell!loadedFirst(r) => Inv'
  BY <1>done
     DEF Shell!loadedFirst, Shell!Done, Shell!Reach, Shell!DoneAtom, Closed, Spent, Shell!Replied
<1>11. \A r \in net : Shell!loadedMore(r) => Inv'
  <2> SUFFICES ASSUME NEW r \in net, Shell!loadedMore(r) PROVE Inv'
    OBVIOUS
  <2>1. r.op = "page" /\ r.arg > 0
    BY DEF Shell!loadedMore, Shell!Replied
  <2>2. ASSUME Shell!Done(r, Shell!Idle(ui, "more")) PROVE Inv'
    BY <2>1, <2>2, <1>done DEF Shell!Done, Shell!Reach, Closed, Spent, Shell!Idle
  <2>3. ASSUME NEW v, NEW a, Shell!DoneAtom(r, [Shell!Idle(ui, "more") EXCEPT !.more = v], a)
        PROVE  Inv'
    BY <2>1, <2>3, <1>done DEF Shell!DoneAtom, Shell!Reach, Closed, Spent, Shell!Idle
  <2> QED
    BY <2>2, <2>3 DEF Shell!loadedMore, Shell!Replied
<1>12. \A r \in net : Shell!bellDone(r) => Inv'
  BY <1>done
     DEF Shell!bellDone, Shell!MarkedRead, Shell!Done, Shell!Reach, Shell!DoneAtom, Closed, Spent,
         Shell!Replied
<1>13. \A r \in net : Shell!BellServer(r) => Inv'
  <2> SUFFICES ASSUME NEW r \in net, Shell!BellServer(r) PROVE Inv'
    OBVIOUS
  <2>1. ASSUME NEW d, NEW v, NEW ps, Shell!AnswerPush(r, d, v, ps) PROVE Inv'
    BY <1>answer, <2>1 DEF Shell!AnswerPush
  <2> QED
    BY <2>1 DEF Shell!BellServer, Shell!Read, Shell!Answer
<1> QED
  BY <1>2, <1>3, <1>4, <1>5, <1>6, <1>7, <1>8, <1>9, <1>10, <1>11, <1>12, <1>13 DEF Shell!BellNext

ShellSteady ==
    \/ Quiet("uploader")
    \/ FlagsHeld("session", SessionHolds)
    \/ FlagsHeld("signin", SigninHolds)
    \/ FlagsHeld("recovery", RecoveryHolds) /\ Steady("recovery", RecoveryActing)
    \/ Steady("bell", BellMore)
    \/ Quiet("drawer")

LEMMA ShellBegins ==
  ASSUME Shell!UploaderInit \/ Shell!SessionInit \/ Shell!SigninInit \/ Shell!RecoveryInit
         \/ Shell!BellInit \/ Shell!DrawerInit
  PROVE  ShellSteady
<1>1. CASE Shell!UploaderInit
  <2>1. Quiet("uploader")
    BY <1>1 DEF Shell!UploaderInit, Shell!Begins, Quiet
  <2> QED
    BY <2>1 DEF ShellSteady
<1>2. CASE Shell!SessionInit
  <2>1. /\ page = <<"session", "mounted">>
        /\ \E x : ui = [busy |-> {}, on |-> {}, hold |-> x, left |-> x, challenge |-> FALSE,
                        roles |-> FALSE, route |-> "web"]
        /\ net = {} \/ \E arg : net = Shell!Add({}, "refresh", arg)
    BY <1>2, Zenon DEF Shell!SessionInit, Shell!Begins
  <2>2. page = <<"session", "mounted">> /\ "busy" \in DOMAIN ui /\ ui.busy = {}
    BY <2>1
  <2>3. FlagsHeld("session", SessionHolds)
    BY <2>1, <2>2, BornHeld, ShellOps
  <2> QED
    BY <2>3 DEF ShellSteady
<1>3. CASE Shell!SigninInit
  <2>1. FlagsHeld("signin", SigninHolds)
    BY <1>3, BornHeld, ShellOps DEF Shell!SigninInit, Shell!Begins, SigninHolds
  <2> QED
    BY <2>1 DEF ShellSteady
<1>4. CASE Shell!RecoveryInit
  <2>1. FlagsHeld("recovery", RecoveryHolds)
    BY <1>4, BornHeld, ShellOps DEF Shell!RecoveryInit, Shell!Begins, RecoveryHolds
  <2>2. Steady("recovery", RecoveryActing)
    BY <1>4, BornSteady, RecoveryActingRule, ShellOps DEF Shell!RecoveryInit, Shell!Begins
  <2> QED
    BY <2>1, <2>2 DEF ShellSteady
<1>5. CASE Shell!BellInit
  <2>1. Steady("bell", BellMore)
    BY <1>5, BornSteady, BellMoreRule, ShellOps DEF Shell!BellInit, Shell!Begins
  <2> QED
    BY <2>1 DEF ShellSteady
<1>6. CASE Shell!DrawerInit
  <2>1. Quiet("drawer")
    BY <1>6 DEF Shell!DrawerInit, Shell!Begins, Quiet
  <2> QED
    BY <2>1 DEF ShellSteady
<1> QED
  BY <1>1, <1>2, <1>3, <1>4, <1>5, <1>6

LEMMA ShellTurns ==
  ASSUME Next
  PROVE  /\ page[1] = "uploader" => Shell!UploaderNext \/ Fails
         /\ page[1] = "session" => Shell!SessionNext \/ Fails
         /\ page[1] = "signin" => Shell!SigninNext \/ Fails
         /\ page[1] = "recovery" => Shell!RecoveryNext \/ Fails
         /\ page[1] = "bell" => Shell!BellNext \/ Fails
         /\ page[1] = "drawer" => Shell!DrawerNext \/ Fails
<1>1. Shell!UploaderNext => page[1] = "uploader"
  BY DEF Shell!UploaderNext, Shell!On
<1>2. Shell!SessionNext => page[1] = "session"
  BY DEF Shell!SessionNext, Shell!On
<1>3. Shell!SigninNext => page[1] = "signin"
  BY DEF Shell!SigninNext, Shell!On
<1>4. Shell!RecoveryNext => page[1] = "recovery"
  BY DEF Shell!RecoveryNext, Shell!On
<1>5. Shell!BellNext => page[1] = "bell"
  BY DEF Shell!BellNext, Shell!On
<1>6. Shell!DrawerNext => page[1] = "drawer"
  BY DEF Shell!DrawerNext, Shell!On
<1> QED
  BY <1>1, <1>2, <1>3, <1>4, <1>5, <1>6 DEF Next

LEMMA ShellKept ==
  ASSUME ShellSteady, [Next]_spaVars PROVE ShellSteady'
<1>1. CASE Quiet("uploader")
  <2>1. page[1] = "uploader"
    BY <1>1 DEF Quiet
  <2>2. CASE Shell!UploaderNext
    BY <1>1, <2>2, UploaderStep DEF ShellSteady
  <2>3. CASE Fails \/ UNCHANGED spaVars
    BY <1>1, <2>3, QuietStays DEF ShellSteady
  <2> QED
    BY <2>1, <2>2, <2>3, ShellTurns
<1>2. CASE FlagsHeld("session", SessionHolds)
  <2>1. page[1] = "session"
    BY <1>2 DEF FlagsHeld, Steady
  <2>2. CASE Shell!SessionNext
    BY <1>2, <2>2, SessionStep DEF ShellSteady
  <2>3. CASE Fails \/ UNCHANGED spaVars
    BY <1>2, <2>3, FailsSteady DEF FlagsHeld, ShellSteady
  <2> QED
    BY <2>1, <2>2, <2>3, ShellTurns
<1>3. CASE FlagsHeld("signin", SigninHolds)
  <2>1. page[1] = "signin"
    BY <1>3 DEF FlagsHeld, Steady
  <2>2. CASE Shell!SigninNext
    BY <1>3, <2>2, SigninStep DEF ShellSteady
  <2>3. CASE Fails \/ UNCHANGED spaVars
    BY <1>3, <2>3, FailsSteady DEF FlagsHeld, ShellSteady
  <2> QED
    BY <2>1, <2>2, <2>3, ShellTurns
<1>4. CASE FlagsHeld("recovery", RecoveryHolds) /\ Steady("recovery", RecoveryActing)
  <2>1. page[1] = "recovery"
    BY <1>4 DEF FlagsHeld, Steady
  <2>2. CASE Shell!RecoveryNext
    BY <1>4, <2>2, RecoveryStep, RecoveryActingStep DEF ShellSteady
  <2>3. CASE Fails \/ UNCHANGED spaVars
    BY <1>4, <2>3, FailsSteady DEF FlagsHeld, ShellSteady
  <2> QED
    BY <2>1, <2>2, <2>3, ShellTurns
<1>5. CASE Steady("bell", BellMore)
  <2>1. page[1] = "bell"
    BY <1>5 DEF Steady
  <2>2. CASE Shell!BellNext
    BY <1>5, <2>2, BellMoreStep DEF ShellSteady
  <2>3. CASE Fails \/ UNCHANGED spaVars
    BY <1>5, <2>3, FailsSteady DEF ShellSteady
  <2> QED
    BY <2>1, <2>2, <2>3, ShellTurns
<1>6. CASE Quiet("drawer")
  <2>1. page[1] = "drawer"
    BY <1>6 DEF Quiet
  <2>2. CASE Shell!DrawerNext
    BY <1>6, <2>2, DrawerStep DEF ShellSteady
  <2>3. CASE Fails \/ UNCHANGED spaVars
    BY <1>6, <2>3, QuietStays DEF ShellSteady
  <2> QED
    BY <2>1, <2>2, <2>3, ShellTurns
<1> QED
  BY <1>1, <1>2, <1>3, <1>4, <1>5, <1>6 DEF ShellSteady

LEMMA ShellEnds == ShellSteady => SpinnersEnd
<1>1. ASSUME Quiet("uploader") PROVE SpinnersEnd
  BY <1>1 DEF Quiet, SpinnersEnd, RowBusy
<1>2. ASSUME FlagsHeld("session", SessionHolds) PROVE SpinnersEnd
  BY <1>2, HeldEnds
<1>3. ASSUME FlagsHeld("signin", SigninHolds) PROVE SpinnersEnd
  BY <1>3, HeldEnds
<1>4. ASSUME FlagsHeld("recovery", RecoveryHolds),
             Steady("recovery", RecoveryActing)
      PROVE  SpinnersEnd
  BY <1>4, NothingShown, PlainRule, RecoveryActingRule
     DEF FlagsHeld, SpinnersEnd, RowBusy, AwaitsElse
<1>5. ASSUME Steady("bell", BellMore) PROVE SpinnersEnd
  BY <1>5, NothingShown, BellMoreRule DEF SpinnersEnd, RowBusy, AwaitsElse
<1>6. ASSUME Quiet("drawer") PROVE SpinnersEnd
  BY <1>6 DEF Quiet, SpinnersEnd, RowBusy
<1> QED
  BY <1>1, <1>2, <1>3, <1>4, <1>5, <1>6 DEF ShellSteady

-----------------------------------------------------------------------------
(* The grengo dashboard.                                                   *)

LEMMA GrengoOps ==
  /\ \A n, op, arg : Grengo!Add(n, op, arg) = Add(n, op, arg)
  /\ \A r, op, arg : Grengo!Onward(r, op, arg) = Onward(r, op, arg)
  /\ \A r, ok, val : Grengo!Reply(r, ok, val) = Reply(r, ok, val)
  /\ Grengo!Orphaned = Orphaned
<1>1. \A n, op, arg : Grengo!Add(n, op, arg) = Add(n, op, arg)
  BY DEF Grengo!Add, Add
<1> QED
  BY <1>1 DEF Grengo!Onward, Onward, Grengo!Reply, Reply, Grengo!Orphaned, Orphaned

GrengoFlags == <<"waits">>
Waits == {"kind", "id", "seen"}
GrengoInv ==
    /\ Steady("grengo", GrengoFlags)
    /\ page = <<"grengo", "mounted">> => \A w \in ui.waits : DOMAIN w = Waits

\* The flags of u that no promise will clear.
Owed(u) == u.busy \ {Grengo!FlagOf(w.kind) : w \in u.waits}

LEMMA GrengoRule ==
  /\ Shown(GrengoFlags) = Owed(ui) /\ Shown(GrengoFlags)' = Owed(ui')
  /\ Whole(GrengoFlags) = ("busy" \in DOMAIN ui /\ "waits" \in DOMAIN ui)
  /\ Whole(GrengoFlags)' = ("busy" \in DOMAIN ui' /\ "waits" \in DOMAIN ui')
  /\ \A op, arg, f : Holds(GrengoFlags, op, arg, f)
                       <=> op = "sites" /\ f = IF arg = None THEN "load" ELSE Grengo!FlagOf(arg)
<1>1. \A u, a : FlagsOf(GrengoFlags, u, a) = Owed(u)
  BY DEF FlagsOf, GrengoFlags, Owed
<1>2. FieldsOf(GrengoFlags) = {"busy", "waits"}
  BY DEF FieldsOf, GrengoFlags
<1>3. \A op, arg, f : Holds(GrengoFlags, op, arg, f)
                        <=> op = "sites" /\ f = IF arg = None THEN "load" ELSE Grengo!FlagOf(arg)
  BY DEF Holds, GrengoFlags
<1> QED
  BY <1>1, <1>2, <1>3 DEF Shown, Whole

\* A promise is settled: its flag is cleared, or a refresh that will clear it is asked for.
LEMMA GrengoSettled ==
  ASSUME NEW u, "busy" \in DOMAIN u, "waits" \in DOMAIN u, NEW n, NEW w, NEW ok,
         NEW s, s = Grengo!Settled(u, n, w, ok)
  PROVE  /\ "busy" \in DOMAIN s.u /\ "waits" \in DOMAIN s.u /\ s.u.waits = u.waits \ {w}
         /\ \/ s.n = n /\ \A f \in Owed(s.u) : f \in Owed(u)
            \/ /\ s.n = Grengo!Add(n, "sites", w.kind) /\ w.kind \in {"site", "export"}
               /\ \A f \in Owed(s.u) : f \in Owed(u) \/ f = Grengo!FlagOf(w.kind)
<1> DEFINE v == [u EXCEPT !.waits = u.waits \ {w}]
<1>1. DOMAIN v = DOMAIN u /\ v.waits = u.waits \ {w} /\ v.busy = u.busy
  OBVIOUS
<1>2. s = [u |-> IF ok /\ w.kind \in {"site", "export"} THEN v
        ELSE Grengo!Idle(v, Grengo!FlagOf(w.kind)),
           n |-> IF ok /\ w.kind \in {"site", "export"} THEN Grengo!Add(n, "sites", w.kind)
             ELSE n]
  BY DEF Grengo!Settled
<1> HIDE DEF v
<1>3. CASE ok /\ w.kind \in {"site", "export"}
  <2>1. s.u = v /\ s.n = Grengo!Add(n, "sites", w.kind)
    BY <1>2, <1>3
  <2>2. \A f \in Owed(v) : f \in Owed(u) \/ f = Grengo!FlagOf(w.kind)
    BY <1>1 DEF Owed
  <2> QED
    BY <1>1, <1>3, <2>1, <2>2
<1>4. CASE ~(ok /\ w.kind \in {"site", "export"})
  <2> DEFINE x == Grengo!Idle(v, Grengo!FlagOf(w.kind))
  <2>1. s.u = x /\ s.n = n
    BY <1>2, <1>4
  <2>2. DOMAIN x = DOMAIN v /\ x.waits = v.waits /\ x.busy = v.busy \ {Grengo!FlagOf(w.kind)}
    BY <1>1 DEF Grengo!Idle
  <2> HIDE DEF x
  <2>3. \A f \in Owed(x) : f \in Owed(u)
    BY <1>1, <2>2 DEF Owed
  <2> QED
    BY <1>1, <2>1, <2>2, <2>3
<1> QED
  BY <1>3, <1>4

\* A step of the mounted page that takes away k, requests that hold nothing, and may ask
\* for a refresh.
LEMMA GrengoMoves ==
  ASSUME GrengoInv, page = <<"grengo", "mounted">>, UNCHANGED page, NEW n, n \subseteq net,
         \A q \in net \ n : q.op # "sites",
         "busy" \in DOMAIN ui', "waits" \in DOMAIN ui', \A w \in ui'.waits : DOMAIN w = Waits,
         \/ net' = n /\ \A f \in Owed(ui') : f \in Owed(ui)
         \/ \E op, arg : /\ net' = Grengo!Add(n, op, arg)
                         /\ \A f \in Owed(ui') : f \in Owed(ui) \/ Holds(GrengoFlags, op, arg, f)
  PROVE  GrengoInv'
<1>1. \A q \in net \ n : \A f : ~Holds(GrengoFlags, q.op, q.arg, f)
  BY GrengoRule
<1>2. CASE net' = n /\ \A f \in Owed(ui') : f \in Owed(ui)
  <2>1. Spared(GrengoFlags, n)
    BY <1>1, <1>2, GrengoRule DEF Spared
  <2> QED
    BY <1>2, <2>1, SubSteady DEF GrengoInv
<1>3. ASSUME NEW op, NEW arg, net' = Grengo!Add(n, op, arg),
             \A f \in Owed(ui') : f \in Owed(ui) \/ Holds(GrengoFlags, op, arg, f)
      PROVE  GrengoInv'
  <2>1. Carried(GrengoFlags, n, op, arg)
    BY <1>1, <1>3, GrengoRule DEF Carried
  <2>2. net' = Add(n, op, arg)
    BY <1>3, GrengoOps
  <2> QED
    BY <2>1, <2>2, AddSteady DEF GrengoInv
<1> QED
  BY <1>2, <1>3

LEMMA GrengoQuits ==
  ASSUME GrengoInv, Grengo!Quit("grengo")
  PROVE  GrengoInv'
<1>1. page' = <<"grengo", "away">> /\ Requests(net')
  BY GoneRequests DEF Grengo!Quit, GrengoInv, Steady
<1>2. <<"grengo", "away">> # <<"grengo", "mounted">>
  OBVIOUS
<1> QED
  BY <1>1, <1>2, AwaySteady DEF GrengoInv

LEMMA GrengoStep ==
  ASSUME GrengoInv, Grengo!GrengoNext
  PROVE  GrengoInv'
<1>1. CASE Grengo!EndSession
  BY <1>1, GrengoQuits DEF Grengo!EndSession
<1>2. CASE page = <<"grengo", "mounted">>
  <2>1. /\ "busy" \in DOMAIN ui /\ "waits" \in DOMAIN ui /\ \A w \in ui.waits : DOMAIN w = Waits
        /\ Requests(net)
    BY <1>2, GrengoRule DEF GrengoInv, Steady
  <2>2. net \subseteq net /\ (\A q \in net \ net : q.op # "sites")
        /\ \A r \in net : net \ {r} \subseteq net /\ \A q \in net \ (net \ {r}) : q = r
    OBVIOUS
  <2>serve. ASSUME NEW r \in net, NEW ok, NEW val, net' = Grengo!Reply(r, ok, val),
                   UNCHANGED <<page, ui, atom>>
            PROVE  GrengoInv'
    <3>1. net' = Reply(r, ok, val)
      BY <2>serve, GrengoOps
    <3> QED
      BY <2>serve, <3>1, ReplySteady DEF GrengoInv
  <2>call. ASSUME NEW op, NEW arg, net' = Grengo!Add(net, op, arg), UNCHANGED page,
                  "busy" \in DOMAIN ui', "waits" \in DOMAIN ui',
                    \A w \in ui'.waits : DOMAIN w = Waits,
                  \A f \in Owed(ui') : f \in Owed(ui) \/ Holds(GrengoFlags, op, arg, f)
           PROVE  GrengoInv'
    BY <1>2, <2>2, <2>call, GrengoMoves
  <2>3. Grengo!KeepAlive => GrengoInv'
    BY <2>1, <2>call DEF Grengo!KeepAlive, Grengo!Call
  <2>4. Grengo!Refresh => GrengoInv'
    <3> SUFFICES ASSUME Grengo!Refresh PROVE GrengoInv'
      OBVIOUS
    <3>1. /\ net' = Grengo!Add(net, "sites", None) /\ UNCHANGED page
          /\ "busy" \in DOMAIN ui' /\ "waits" \in DOMAIN ui' /\ ui'.waits = ui.waits
                /\ ui'.busy = ui.busy \cup {"load"}
      BY <2>1 DEF Grengo!Refresh, Grengo!Call, Grengo!Busy
    <3>2. \A f \in Owed(ui') : f \in Owed(ui) \/ Holds(GrengoFlags, "sites", None, f)
      BY <3>1, GrengoRule DEF Owed
    <3> QED
      BY <2>1, <2>call, <3>1, <3>2
  <2>start. ASSUME NEW k, NEW op, Grengo!StartJob(k, op) PROVE GrengoInv'
    <3> DEFINE w == [kind |-> k, id |-> 0, seen |-> {}]
    <3>1. DOMAIN w = Waits /\ w.kind = k
      BY DEF Waits
    <3>2. net' = Grengo!Add(net, op, k) /\ UNCHANGED page
          /\ ui' = [Grengo!Busy(ui, Grengo!FlagOf(k)) EXCEPT !.waits = @ \cup {w}]
      BY <2>start DEF Grengo!StartJob, Grengo!Call
    <3> HIDE DEF w
    <3>3. /\ "busy" \in DOMAIN ui' /\ "waits" \in DOMAIN ui'
          /\ ui'.busy = ui.busy \cup {Grengo!FlagOf(k)} /\ ui'.waits = ui.waits \cup {w}
      BY <2>1, <3>2 DEF Grengo!Busy
    <3>4. \A f \in Owed(ui') : f \in Owed(ui)
      BY <3>1, <3>3 DEF Owed
    <3> QED
      BY <2>1, <2>call, <3>1, <3>2, <3>3, <3>4
  <2>5. Grengo!siteAction \/ Grengo!handleExport \/ Grengo!runCommand \/ Grengo!CreateSite
          \/ Grengo!handleImport
          => GrengoInv'
    BY <2>start DEF Grengo!siteAction, Grengo!handleExport, Grengo!runCommand, Grengo!CreateSite,
       Grengo!handleImport
  <2>6. Grengo!handleJobUpdate => GrengoInv'
    <3> SUFFICES ASSUME Grengo!handleJobUpdate PROVE GrengoInv'
      OBVIOUS
    <3> DEFINE e == Head(push)
               u == Grengo!Buffered(e)
               mine == {w \in u.waits : Grengo!Ends(w, e)}
               keep(w) == IF w.id = 0
                 THEN [w EXCEPT !.seen = IF e.st = "running" THEN @ ELSE @ \cup {e}] ELSE w
    <3>1. /\ "busy" \in DOMAIN u /\ "waits" \in DOMAIN u /\ u.busy = ui.busy
          /\ u.waits = {keep(w) : w \in ui.waits}
      BY <2>1 DEF Grengo!Buffered
    <3>2. \A w \in ui.waits : DOMAIN keep(w) = Waits /\ keep(w).kind = w.kind
      BY <2>1 DEF Waits
    <3>3. /\ UNCHANGED page
          /\ IF mine = {} THEN ui' = u /\ UNCHANGED net
             ELSE \E w \in mine : \E ok : /\ ui' = Grengo!Settled(u, net, w, ok).u
                                          /\ net' = Grengo!Settled(u, net, w, ok).n
      <4>1. mine # {} => (CHOOSE w \in mine : TRUE) \in mine
        OBVIOUS
      <4> HIDE DEF mine, u
      <4> QED
        BY <4>1 DEF Grengo!handleJobUpdate, mine, u
    <3> HIDE DEF u, keep
    <3>4. (\A w \in u.waits : DOMAIN w = Waits) /\ \A f \in Owed(u) : f \in Owed(ui)
      BY <3>1, <3>2 DEF Owed
    <3>5. CASE mine = {}
      <4>1. ui' = u /\ net' = net /\ UNCHANGED page
        BY <3>3, <3>5
      <4> QED
        BY <1>2, <2>2, <3>1, <3>4, <4>1, GrengoMoves
    <3>6. CASE mine # {}
      <4>1. PICK w, ok : /\ w \in mine /\ ui' = Grengo!Settled(u, net, w, ok).u
                         /\ net' = Grengo!Settled(u, net, w, ok).n
        BY <3>3, <3>6
      <4> DEFINE s == Grengo!Settled(u, net, w, ok)
      <4>2. ui' = s.u /\ net' = s.n
        BY <4>1
      <4>3. s = Grengo!Settled(u, net, w, ok)
        OBVIOUS
      <4> HIDE DEF s
      <4>4. /\ "busy" \in DOMAIN s.u /\ "waits" \in DOMAIN s.u /\ s.u.waits = u.waits \ {w}
            /\ \/ s.n = net /\ \A f \in Owed(s.u) : f \in Owed(u)
               \/ /\ s.n = Grengo!Add(net, "sites", w.kind) /\ w.kind \in {"site", "export"}
                  /\ \A f \in Owed(s.u) : f \in Owed(u) \/ f = Grengo!FlagOf(w.kind)
        BY <3>1, <4>3, GrengoSettled
      <4>5. w.kind \in {"site", "export"} => w.kind # None
        BY PagesAssumption DEF Grengo!Kinds
      <4>6. CASE s.n = net /\ \A f \in Owed(s.u) : f \in Owed(u)
        BY <1>2, <2>2, <3>3, <3>4, <4>2, <4>4, <4>6, GrengoMoves
      <4>7. CASE /\ s.n = Grengo!Add(net, "sites", w.kind) /\ w.kind \in {"site", "export"}
                 /\ \A f \in Owed(s.u) : f \in Owed(u) \/ f = Grengo!FlagOf(w.kind)
        <5>1. \A f \in Owed(ui') : f \in Owed(ui) \/ Holds(GrengoFlags, "sites", w.kind, f)
          BY <3>4, <4>2, <4>5, <4>7, GrengoRule
        <5> QED
          BY <2>call, <3>3, <3>4, <4>2, <4>4, <4>7, <5>1
      <4> QED
        BY <4>4, <4>6, <4>7
    <3> QED
      BY <3>5, <3>6
  <2>7. Grengo!JobEnds => GrengoInv'
    BY <1>2, <2>1, <2>2, GrengoMoves DEF Grengo!JobEnds
  <2>8. \A r \in net : Grengo!GrengoServes(r) => GrengoInv'
    <3> SUFFICES ASSUME NEW r \in net, Grengo!GrengoServes(r) PROVE GrengoInv'
      OBVIOUS
    <3>1. ASSUME NEW d, NEW v, NEW ps, Grengo!AnswerPush(r, d, v, ps) PROVE GrengoInv'
      BY <2>serve, <3>1 DEF Grengo!AnswerPush
    <3> QED
      BY <3>1 DEF Grengo!GrengoServes, Grengo!Read, Grengo!Answer
  <2>9. \A r \in net : Grengo!AckTimeout(r) => GrengoInv'
    BY <2>serve DEF Grengo!AckTimeout
  <2>10. \A r \in net : Grengo!validateSession(r) => GrengoInv'
    <3> SUFFICES ASSUME NEW r \in net, Grengo!validateSession(r) PROVE GrengoInv'
      OBVIOUS
    <3> DEFINE n == net \ {r}
    <3>1. r.op = "validate"
      BY DEF Grengo!validateSession, Grengo!Replied
    <3>2. n \subseteq net /\ \A q \in net \ n : q.op # "sites"
      BY <3>1
    <3>3. \/ Grengo!Quit("grengo")
          \/ ui.valid = "yes" /\ net' = n /\ UNCHANGED page
                /\ ui' = [ui EXCEPT !.valid = "yes", !.busy = ui.busy]
          \/ net' = Grengo!Add(n, "sites", None) /\ UNCHANGED page
                /\ ui' = [ui EXCEPT !.valid = "yes", !.busy = ui.busy \cup {"load"}]
      BY DEF Grengo!validateSession
    <3> HIDE DEF n
    <3>4. CASE Grengo!Quit("grengo")
      BY <3>4, GrengoQuits
    <3>5. CASE net' = n /\ UNCHANGED page /\ ui' = [ui EXCEPT !.valid = "yes", !.busy = ui.busy]
      <4>1. "busy" \in DOMAIN ui' /\ "waits" \in DOMAIN ui' /\ ui'.waits = ui.waits
              /\ ui'.busy = ui.busy
        BY <2>1, <3>5
      <4>2. \A f \in Owed(ui') : f \in Owed(ui)
        BY <4>1 DEF Owed
      <4> QED
        BY <1>2, <2>1, <3>2, <3>5, <4>1, <4>2, GrengoMoves
    <3>6. CASE net' = Grengo!Add(n, "sites", None) /\ UNCHANGED page
               /\ ui' = [ui EXCEPT !.valid = "yes", !.busy = ui.busy \cup {"load"}]
      <4>1. "busy" \in DOMAIN ui' /\ "waits" \in DOMAIN ui' /\ ui'.waits = ui.waits
              /\ ui'.busy = ui.busy \cup {"load"}
        BY <2>1, <3>6
      <4>2. \A f \in Owed(ui') : f \in Owed(ui) \/ Holds(GrengoFlags, "sites", None, f)
        BY <4>1, GrengoRule DEF Owed
      <4> QED
        BY <1>2, <2>1, <3>2, <3>6, <4>1, <4>2, GrengoMoves
    <3> QED
      BY <3>3, <3>4, <3>5, <3>6
  <2>11. \A r \in net : Grengo!SitesFetched(r) => GrengoInv'
    <3> SUFFICES ASSUME NEW r \in net, Grengo!SitesFetched(r) PROVE GrengoInv'
      OBVIOUS
    <3> DEFINE F == IF r.arg = None THEN "load" ELSE Grengo!FlagOf(r.arg)
    <3>1. /\ r.op = "sites" /\ net' = net \ {r} /\ UNCHANGED page
          /\ ui' = IF r.live THEN Grengo!Idle(ui, F) ELSE ui
      BY DEF Grengo!SitesFetched, Grengo!Replied, Grengo!Done, Grengo!Reach
    <3>2. \A f : Holds(GrengoFlags, r.op, r.arg, f) <=> f = F
      BY <3>1, GrengoRule
    <3> HIDE DEF F
    <3>3. /\ "busy" \in DOMAIN ui' /\ "waits" \in DOMAIN ui' /\ ui'.waits = ui.waits
          /\ ui'.busy \subseteq ui.busy /\ (r.live => F \notin ui'.busy)
      BY <2>1, <3>1 DEF Grengo!Idle
    <3>4. \A f \in Owed(ui') : f \in Owed(ui) /\ (r.live => f # F)
      BY <3>3 DEF Owed
    <3>5. Closed(GrengoFlags, r)
      BY <3>2, <3>3, <3>4, GrengoRule DEF Closed, Spent
    <3> QED
      BY <1>2, <2>1, <3>1, <3>3, <3>5, DoneSteady DEF GrengoInv
  <2>12. \A r \in net : Grengo!ArchiveUploaded(r) => GrengoInv'
    <3> SUFFICES ASSUME NEW r \in net, Grengo!ArchiveUploaded(r) PROVE GrengoInv'
      OBVIOUS
    <3>1. r.op = "upload" /\ r.rep # None /\ net' = Onward(r, "job", r.arg) /\ UNCHANGED page
            /\ ui' = ui
      BY GrengoOps DEF Grengo!ArchiveUploaded, Grengo!Replied, Grengo!Goes, Grengo!Reach
    <3>2. Handed(GrengoFlags, r, "job", r.arg)
      BY <2>1, <3>1, GrengoRule DEF Handed, Spent
    <3> QED
      BY <1>2, <2>1, <3>1, <3>2, GoesSteady DEF GrengoInv
  <2>13. \A r \in net : Grengo!JobIdKnown(r) => GrengoInv'
    <3> SUFFICES ASSUME NEW r \in net, Grengo!JobIdKnown(r) PROVE GrengoInv'
      OBVIOUS
    <3> DEFINE n == net \ {r}
    <3>1. r.op \in {"job", "upload"}
      BY DEF Grengo!JobIdKnown, Grengo!Replied
    <3>2. n \subseteq net /\ \A q \in net \ n : q.op # "sites"
      BY <3>1
    <3>3. PICK w \in ui.waits :
            LET v == [w EXCEPT !.id = r.rep.val]
                u == [ui EXCEPT !.waits = (ui.waits \ {w}) \cup {v}]
                past == {e \in w.seen : r.rep.ok /\ Grengo!Ends(v, e)}
                s == IF ~r.rep.ok THEN Grengo!Settled(ui, n, w, FALSE)
                     ELSE IF past = {} THEN [u |-> u, n |-> n]
                     ELSE Grengo!Settled(u, n, v, \E e \in past : e.st = "completed")
            IN  ui' = s.u /\ net' = s.n /\ UNCHANGED page
      BY DEF Grengo!JobIdKnown
    <3> DEFINE v == [w EXCEPT !.id = r.rep.val]
               u == [ui EXCEPT !.waits = (ui.waits \ {w}) \cup {v}]
    <3>4. /\ UNCHANGED page
          /\ \/ \E ok : ui' = Grengo!Settled(ui, n, w, ok).u
                   /\ net' = Grengo!Settled(ui, n, w, ok).n
             \/ ui' = u /\ net' = n
             \/ \E ok : ui' = Grengo!Settled(u, n, v, ok).u
                   /\ net' = Grengo!Settled(u, n, v, ok).n
      BY <3>3
    <3>5. DOMAIN w = Waits /\ DOMAIN v = Waits /\ v.kind = w.kind
      BY <2>1 DEF Waits
    <3> HIDE DEF v
    <3>6. /\ "busy" \in DOMAIN u /\ "waits" \in DOMAIN u
          /\ u.busy = ui.busy /\ u.waits = (ui.waits \ {w}) \cup {v}
      BY <2>1
    <3> HIDE DEF u, n
    <3>7. (\A x \in u.waits : DOMAIN x = Waits) /\ \A f \in Owed(u) : f \in Owed(ui)
      BY <2>1, <3>5, <3>6 DEF Owed
    <3>8. ASSUME NEW x, NEW y, NEW ok,
                 "busy" \in DOMAIN x, "waits" \in DOMAIN x, \A z \in x.waits : DOMAIN z = Waits,
                 \A f \in Owed(x) : f \in Owed(ui),
                 ui' = Grengo!Settled(x, n, y, ok).u, net' = Grengo!Settled(x, n, y, ok).n
          PROVE  GrengoInv'
      <4> DEFINE s == Grengo!Settled(x, n, y, ok)
      <4>1. ui' = s.u /\ net' = s.n /\ s = Grengo!Settled(x, n, y, ok)
        BY <3>8
      <4> HIDE DEF s
      <4>2. /\ "busy" \in DOMAIN s.u /\ "waits" \in DOMAIN s.u /\ s.u.waits = x.waits \ {y}
            /\ \/ s.n = n /\ \A f \in Owed(s.u) : f \in Owed(x)
               \/ /\ s.n = Grengo!Add(n, "sites", y.kind) /\ y.kind \in {"site", "export"}
                  /\ \A f \in Owed(s.u) : f \in Owed(x) \/ f = Grengo!FlagOf(y.kind)
        BY <3>8, <4>1, GrengoSettled
      <4>3. y.kind \in {"site", "export"} => y.kind # None
        BY PagesAssumption DEF Grengo!Kinds
      <4>4. \/ net' = n /\ \A f \in Owed(ui') : f \in Owed(ui)
            \/ \E op, arg : /\ net' = Grengo!Add(n, op, arg)
                            /\ \A f \in Owed(ui') : f \in Owed(ui)
                                  \/ Holds(GrengoFlags, op, arg, f)
        <5>1. CASE s.n = n /\ \A f \in Owed(s.u) : f \in Owed(x)
          BY <3>8, <4>1, <5>1
        <5>2. CASE /\ s.n = Grengo!Add(n, "sites", y.kind) /\ y.kind \in {"site", "export"}
                   /\ \A f \in Owed(s.u) : f \in Owed(x) \/ f = Grengo!FlagOf(y.kind)
          <6>1. \A f \in Owed(ui') : f \in Owed(ui) \/ Holds(GrengoFlags, "sites", y.kind, f)
            BY <3>8, <4>1, <4>3, <5>2, GrengoRule
          <6> QED
            BY <4>1, <5>2, <6>1
        <5> QED
          BY <4>2, <5>1, <5>2
      <4>5. "busy" \in DOMAIN ui' /\ "waits" \in DOMAIN ui'
              /\ \A z \in ui'.waits : DOMAIN z = Waits
        BY <3>8, <4>1, <4>2
      <4> QED
        BY <1>2, <3>2, <3>4, <4>4, <4>5, GrengoMoves
    <3>9. CASE \E ok : ui' = Grengo!Settled(ui, n, w, ok).u
               /\ net' = Grengo!Settled(ui, n, w, ok).n
      BY <2>1, <3>8, <3>9
    <3>10. CASE ui' = u /\ net' = n
      BY <1>2, <3>2, <3>4, <3>6, <3>7, <3>10, GrengoMoves
    <3>11. CASE \E ok : ui' = Grengo!Settled(u, n, v, ok).u
                /\ net' = Grengo!Settled(u, n, v, ok).n
      BY <3>6, <3>7, <3>8, <3>11
    <3> QED
      BY <3>4, <3>9, <3>10, <3>11
  <2> QED
    BY <1>2, <2>3, <2>4, <2>5, <2>6, <2>7, <2>8, <2>9, <2>10, <2>11, <2>12, <2>13, <1>1
       DEF Grengo!GrengoNext, Grengo!GrengoReplies
<1>3. Grengo!GrengoNext => Grengo!EndSession \/ page = <<"grengo", "mounted">>
  BY DEF Grengo!GrengoNext, Grengo!KeepAlive, Grengo!Refresh, Grengo!siteAction,
         Grengo!handleExport,
         Grengo!runCommand, Grengo!CreateSite, Grengo!handleImport, Grengo!handleJobUpdate,
           Grengo!JobEnds,
         Grengo!Ready, Grengo!On
<1> QED
  BY <1>1, <1>2, <1>3

EnvHolds == {<<"env", "envLoading">>, <<"saveEnv", "envSaving">>}

LEMMA EnvStep ==
  ASSUME FlagsHeld("env", EnvHolds), Grengo!EnvNext
  PROVE  FlagsHeld("env", EnvHolds)'
<1> DEFINE Inv == FlagsHeld("env", EnvHolds)
<1>1. page = <<"env", "mounted">> /\ "busy" \in DOMAIN ui
  BY Mounted
     DEF Grengo!EnvNext, Grengo!openEnvEditor, Grengo!closeEnvEditor, Grengo!DraftChange,
         Grengo!saveEnv, Grengo!EnvLoaded, Grengo!EnvSaved, Grengo!On
<1>set. UNCHANGED <<page, net>> /\ (ui' = ui \/ Fewer) => Inv'
  BY SetHeld
<1>call. \A op, arg : net' = Grengo!Add(net, op, arg) /\ UNCHANGED page
          /\ Covered(EnvHolds, op) => Inv'
  BY <1>1, CallHeld, GrengoOps
<1>done. \A r \in net : net' = net \ {r} /\ UNCHANGED page /\ Ended(EnvHolds, r) => Inv'
  BY <1>1, DoneHeld
<1>answer. \A r \in net : \A ok, val : net' = Grengo!Reply(r, ok, val)
          /\ UNCHANGED <<page, ui, atom>> => Inv'
  BY ReplyHeld, GrengoOps
<1> USE <1>1 DEF EnvHolds
<1>2. \A s : Grengo!openEnvEditor(s) => Inv'
  BY <1>call DEF Grengo!openEnvEditor, Grengo!Call, Covered, Grengo!Busy
<1>3. Grengo!closeEnvEditor => Inv'
  BY <1>set DEF Grengo!closeEnvEditor, Grengo!Set, Fewer
<1>4. Grengo!DraftChange => Inv'
  BY <1>set DEF Grengo!DraftChange, Grengo!Set, Fewer
<1>5. Grengo!saveEnv => Inv'
  BY <1>call DEF Grengo!saveEnv, Grengo!Call, Covered, Grengo!Busy
<1>6. \A r \in net : Grengo!EnvServes(r) => Inv'
  BY <1>answer DEF Grengo!EnvServes, Grengo!Answer, Grengo!AnswerPush, Grengo!Read
<1>7. \A r \in net : Grengo!EnvLoaded(r) => Inv'
  BY <1>done
     DEF Grengo!EnvLoaded, Grengo!Done, Grengo!Reach, Ended, Dropped, Grengo!Idle, Grengo!Replied
<1>8. \A r \in net : Grengo!EnvSaved(r) => Inv'
  BY <1>done
     DEF Grengo!EnvSaved, Grengo!Done, Grengo!Reach, Ended, Dropped, Grengo!Idle, Grengo!Replied
<1> QED
  BY <1>2, <1>3, <1>4, <1>5, <1>6, <1>7, <1>8 DEF Grengo!EnvNext

GrengoSteady ==
    \/ GrengoInv
    \/ FlagsHeld("env", EnvHolds)

LEMMA GrengoBegins ==
  ASSUME Grengo!GrengoInit \/ Grengo!EnvInit
  PROVE  GrengoSteady
<1>1. CASE Grengo!GrengoInit
  <2>1. GrengoInv
    BY <1>1, BornSteady, GrengoRule, GrengoOps
       DEF Grengo!GrengoInit, Grengo!Begins, Grengo!GrengoMounted, GrengoInv, Owed
  <2> QED
    BY <2>1 DEF GrengoSteady
<1>2. CASE Grengo!EnvInit
  <2>1. FlagsHeld("env", EnvHolds)
    BY <1>2, BornHeld, GrengoOps DEF Grengo!EnvInit, Grengo!Begins, EnvHolds
  <2> QED
    BY <2>1 DEF GrengoSteady
<1> QED
  BY <1>1, <1>2

LEMMA GrengoTurns ==
  ASSUME Next
  PROVE  /\ page[1] = "grengo" => Grengo!GrengoNext \/ Fails
         /\ page[1] = "env" => Grengo!EnvNext \/ Fails
<1>1. Grengo!GrengoNext => page = <<"grengo", "mounted">>
  BY Zenon
     DEF Grengo!GrengoNext, Grengo!CreateSite, Grengo!EndSession, Grengo!JobEnds,
         Grengo!KeepAlive, Grengo!On, Grengo!Refresh, Grengo!handleExport, Grengo!handleImport,
         Grengo!handleJobUpdate, Grengo!runCommand, Grengo!siteAction, Grengo!Ready, Grengo!Quit
<1>2. Grengo!EnvNext => page = <<"env", "mounted">>
  BY Zenon
     DEF Grengo!EnvNext, Grengo!openEnvEditor, Grengo!On, Grengo!closeEnvEditor,
         Grengo!DraftChange, Grengo!saveEnv, Grengo!EnvLoaded, Grengo!EnvSaved
<1> QED
  BY <1>1, <1>2 DEF Next

LEMMA GrengoKept ==
  ASSUME GrengoSteady, [Next]_spaVars PROVE GrengoSteady'
<1>1. CASE GrengoInv
  <2>1. page[1] = "grengo"
    BY <1>1 DEF GrengoInv, Steady
  <2>2. CASE Grengo!GrengoNext
    BY <1>1, <2>2, GrengoStep DEF GrengoSteady
  <2>3. CASE Fails \/ UNCHANGED spaVars
    <3>1. UNCHANGED <<page, ui>>
      BY <2>3 DEF Fails, Fail, spaVars
    <3>2. Steady("grengo", GrengoFlags)'
      BY <1>1, <2>3, FailsSteady DEF GrengoInv
    <3> QED
      BY <1>1, <3>1, <3>2 DEF GrengoInv, GrengoSteady
  <2> QED
    BY <2>1, <2>2, <2>3, GrengoTurns
<1>2. CASE FlagsHeld("env", EnvHolds)
  <2>1. page[1] = "env"
    BY <1>2 DEF FlagsHeld, Steady
  <2>2. CASE Grengo!EnvNext
    BY <1>2, <2>2, EnvStep DEF GrengoSteady
  <2>3. CASE Fails \/ UNCHANGED spaVars
    BY <1>2, <2>3, FailsSteady DEF FlagsHeld, GrengoSteady
  <2> QED
    BY <2>1, <2>2, <2>3, GrengoTurns
<1> QED
  BY <1>1, <1>2 DEF GrengoSteady

LEMMA GrengoEnds == GrengoSteady => SpinnersEnd
<1>1. ASSUME GrengoInv PROVE SpinnersEnd
  BY <1>1, NothingShown, GrengoRule DEF GrengoInv, Owed, SpinnersEnd, RowBusy, AwaitsElse
<1>2. ASSUME FlagsHeld("env", EnvHolds) PROVE SpinnersEnd
  BY <1>2, HeldEnds
<1> QED
  BY <1>1, <1>2 DEF GrengoSteady

-----------------------------------------------------------------------------
(* The inbox.                                                              *)

LEMMA InboxOps ==
  /\ \A n, op, arg : Inbox!Add(n, op, arg) = Add(n, op, arg)
  /\ \A r, op, arg : Inbox!Onward(r, op, arg) = Onward(r, op, arg)
  /\ \A r, ok, val : Inbox!Reply(r, ok, val) = Reply(r, ok, val)
  /\ Inbox!Orphaned = Orphaned
<1>1. \A n, op, arg : Inbox!Add(n, op, arg) = Add(n, op, arg)
  BY DEF Inbox!Add, Add
<1> QED
  BY <1>1 DEF Inbox!Onward, Onward, Inbox!Reply, Reply, Inbox!Orphaned, Orphaned

InboxFlags == <<"active", {<<"convs", "convs">>, <<"with", "convs">>, <<"messages", "msgs">>}>>
InboxInv == Steady("inbox", InboxFlags) /\ "active" \in DOMAIN atom

LEMMA InboxRule ==
  /\ \A u, a : FlagsOf(InboxFlags, u, a) = IF a.active = None THEN u.busy \ {"msgs"} ELSE u.busy
  /\ Shown(InboxFlags) = FlagsOf(InboxFlags, ui, atom)
  /\ Shown(InboxFlags)' = FlagsOf(InboxFlags, ui', atom')
  /\ Whole(InboxFlags) = ("busy" \in DOMAIN ui) /\ Whole(InboxFlags)' = ("busy" \in DOMAIN ui')
  /\ \A op, arg, f : Holds(InboxFlags, op, arg, f)
                       <=> (op \in {"convs", "with"} /\ f = "convs")
                         \/ (op = "messages" /\ f = "msgs")
<1>1. \A u, a : FlagsOf(InboxFlags, u, a) = IF a.active = None THEN u.busy \ {"msgs"} ELSE u.busy
  BY DEF FlagsOf, InboxFlags
<1>2. FieldsOf(InboxFlags) = {"busy"}
  BY DEF FieldsOf, InboxFlags
<1>3. \A op, arg, f : Holds(InboxFlags, op, arg, f)
                        <=> (op \in {"convs", "with"} /\ f = "convs")
                          \/ (op = "messages" /\ f = "msgs")
  BY DEF Holds, InboxFlags
<1> QED
  BY <1>1, <1>2, <1>3 DEF Shown, Whole

\* The effects of a new list or selection: what u shows is held in n, and the load of
\* the conversation left is the only one that is cancelled.
LEMMA InboxEffects ==
  ASSUME page = <<"inbox", "mounted">>, NEW n, Requests(n), NEW u, "busy" \in DOMAIN u,
         HeldBy(InboxFlags, FlagsOf(InboxFlags, u, atom), n),
         NEW a, "active" \in DOMAIN a, NEW c, Inbox!Effects(n, u, a, c)
  PROVE  InboxInv'
<1> DEFINE old == atom.active
           m == Inbox!Cancelled(n, old)
<1>1. UNCHANGED page /\ "active" \in DOMAIN atom' /\ atom'.active = c
  BY DEF Inbox!Effects
<1>2. /\ "busy" \in DOMAIN ui'
      /\ ui'.busy = IF old # c /\ c # None THEN u.busy \cup {"msgs"} ELSE u.busy
  BY DEF Inbox!Effects
<1>3. Requests(m)
  <2>1. \A r \in n : DOMAIN [r EXCEPT !.live = FALSE] = DOMAIN r
    OBVIOUS
  <2> QED
    BY <2>1 DEF Requests, Inbox!Cancelled
<1>4. \A r \in n : r.op # "messages" => r \in m
  BY DEF Inbox!Cancelled
<1> HIDE DEF m
<1>5. CASE old = c
  <2>1. net' = n
    BY <1>5 DEF Inbox!Effects
  <2>2. FlagsOf(InboxFlags, ui', atom') = FlagsOf(InboxFlags, u, atom)
    BY <1>1, <1>2, <1>5, InboxRule
  <2> QED
    BY <1>1, <1>2, <2>1, <2>2, InboxRule DEF InboxInv, Steady
<1>6. CASE old # c
  <2>1. net' = IF c # None THEN Inbox!Add(m, "messages", c) ELSE m
    BY <1>6 DEF Inbox!Effects, m
  <2>2. Requests(net') /\ m \subseteq net'
        /\ (c # None => \E r \in net' : r.live /\ r.op = "messages")
    BY <1>3, <2>1, Added, InboxOps
  <2>3. ASSUME NEW f \in FlagsOf(InboxFlags, ui', atom')
        PROVE  \E r \in net' : r.live /\ Holds(InboxFlags, r.op, r.arg, f)
    <3>1. CASE f = "msgs"
      <4>1. c # None
        BY <1>1, <2>3, <3>1, InboxRule
      <4> QED
        BY <2>2, <3>1, <4>1, InboxRule
    <3>2. CASE f # "msgs"
      <4>1. f \in FlagsOf(InboxFlags, u, atom)
        BY <1>1, <1>2, <2>3, <3>2, InboxRule
      <4>2. PICK r \in n : r.live /\ Holds(InboxFlags, r.op, r.arg, f)
        BY <4>1 DEF HeldBy
      <4>3. r \in m
        BY <1>4, <3>2, <4>2, InboxRule
      <4> QED
        BY <2>2, <4>2, <4>3
    <3> QED
      BY <3>1, <3>2
  <2>4. HeldBy(InboxFlags, FlagsOf(InboxFlags, ui', atom'), net')
    BY <2>3 DEF HeldBy
  <2> QED
    BY <1>1, <1>2, <2>2, <2>4, InboxRule DEF InboxInv, Steady
<1> QED
  BY <1>5, <1>6

\* A reply that may change the list or the selection.
LEMMA InboxApplies ==
  ASSUME InboxInv, NEW r \in net, NEW n, Requests(n), NEW u, NEW a, "active" \in DOMAIN a, NEW c,
         page = <<"inbox", "mounted">> =>
           "busy" \in DOMAIN u /\ HeldBy(InboxFlags,
             FlagsOf(InboxFlags, IF r.live THEN u ELSE ui, atom), n),
         Inbox!Applies(r, n, u, a, c)
  PROVE  InboxInv'
<1>1. CASE page = <<"inbox", "mounted">>
  <2> DEFINE v == IF r.live THEN u ELSE ui
  <2>1. "busy" \in DOMAIN v
    BY <1>1, InboxRule DEF InboxInv, Steady
  <2>2. Inbox!Effects(n, v, a, c) /\ HeldBy(InboxFlags, FlagsOf(InboxFlags, v, atom), n)
    BY <1>1 DEF Inbox!Applies, Inbox!On
  <2> HIDE DEF v
  <2> QED
    BY <1>1, <2>1, <2>2, InboxEffects
<1>2. CASE page # <<"inbox", "mounted">>
  <2>1. page = <<"inbox", "away">> /\ UNCHANGED page /\ net' = n /\ "active" \in DOMAIN atom'
    BY <1>2 DEF Inbox!Applies, Inbox!On, InboxInv, Steady
  <2> QED
    BY <2>1, StaysSteady DEF InboxInv
<1> QED
  BY <1>1, <1>2

\* The end of r leaves what it did not hold.
LEMMA InboxLess ==
  ASSUME InboxInv, page = <<"inbox", "mounted">>, NEW r \in net, NEW u, "busy" \in DOMAIN u,
         r.live => \A f \in u.busy : f \in ui.busy /\ ~Holds(InboxFlags, r.op, r.arg, f)
  PROVE  HeldBy(InboxFlags, FlagsOf(InboxFlags, IF r.live THEN u ELSE ui, atom), net \ {r})
<1> DEFINE v == IF r.live THEN u ELSE ui
<1>1. \A f \in FlagsOf(InboxFlags, v, atom) :
         f \in Shown(InboxFlags) /\ (r.live => ~Holds(InboxFlags, r.op, r.arg, f))
  BY InboxRule
<1> HIDE DEF v
<1>2. HeldBy(InboxFlags, FlagsOf(InboxFlags, v, atom), net \ {r})
  BY <1>1 DEF InboxInv, Steady, HeldBy
<1> QED
  BY <1>2 DEF v

\* The end of r without such effects.
LEMMA InboxOver ==
  ASSUME InboxInv, NEW r \in net, net' = net \ {r}, UNCHANGED page, NEW u,
         page = <<"inbox", "mounted">> => "busy" \in DOMAIN u,
         page = <<"inbox", "mounted">> /\ r.live =>
            \A f \in u.busy : f \in ui.busy /\ ~Holds(InboxFlags, r.op, r.arg, f),
         ui' = IF r.live THEN u ELSE ui, "active" \in DOMAIN atom', atom'.active = atom.active
  PROVE  InboxInv'
<1>1. Requests(net')
  BY DEF InboxInv, Steady, Requests
<1>2. CASE page = <<"inbox", "mounted">>
  <2>1. HeldBy(InboxFlags, FlagsOf(InboxFlags, ui', atom), net \ {r})
    BY <1>2, InboxLess
  <2>2. FlagsOf(InboxFlags, ui', atom') = FlagsOf(InboxFlags, ui', atom)
    BY InboxRule
  <2>3. "busy" \in DOMAIN ui'
    BY <1>2, InboxRule DEF InboxInv, Steady
  <2> QED
    BY <1>1, <1>2, <2>1, <2>2, <2>3, InboxRule DEF InboxInv, Steady
<1>3. CASE page # <<"inbox", "mounted">>
  BY <1>1, <1>3, StaysSteady DEF InboxInv, Steady
<1> QED
  BY <1>2, <1>3

LEMMA InboxStep ==
  ASSUME InboxInv, Inbox!InboxNext
  PROVE  InboxInv'
<1>1. /\ Requests(net) /\ "active" \in DOMAIN atom
      /\ page = <<"inbox", "mounted">> => "busy" \in DOMAIN ui
      /\ page = <<"inbox", "mounted">> => HeldBy(InboxFlags, FlagsOf(InboxFlags, ui, atom), net)
  BY InboxRule DEF InboxInv, Steady
<1>2. \A r \in net : Requests(net \ {r})
  BY <1>1 DEF Requests
<1>same. ASSUME UNCHANGED <<page, ui, net, atom>> PROVE InboxInv'
  BY <1>same, InboxRule DEF InboxInv, Steady
<1>call. ASSUME page = <<"inbox", "mounted">>, NEW op, NEW arg, Inbox!Call(ui, op, arg)
         PROVE InboxInv'
  <2>1. net' = Add(net, op, arg) /\ UNCHANGED <<page, ui, atom>>
    BY <1>call, InboxOps DEF Inbox!Call
  <2>2. Begun(InboxFlags, op, arg)
    BY <1>1, <1>call, <2>1, InboxRule DEF Begun
  <2> QED
    BY <1>call, <2>1, <2>2, CallSteady DEF InboxInv
<1>3. \A c : Inbox!Select(c) => InboxInv'
  BY <1>1, InboxEffects DEF Inbox!Select, Inbox!On
<1>4. Inbox!startConversation => InboxInv'
  BY <1>call DEF Inbox!startConversation, Inbox!On
<1>5. Inbox!MenuClick => InboxInv'
  BY <1>call DEF Inbox!MenuClick, Inbox!On
<1>6. Inbox!Compose \/ Inbox!Manage \/ Inbox!OthersChat => InboxInv'
  BY <1>same DEF Inbox!Compose, Inbox!Manage, Inbox!OthersChat, Inbox!Changes
<1>7. Inbox!LeaveInbox => InboxInv'
  <2> SUFFICES ASSUME Inbox!LeaveInbox PROVE InboxInv'
    OBVIOUS
  <2>1. page' = <<"inbox", "away">> /\ net' = Orphaned /\ "active" \in DOMAIN atom'
    BY <1>1, InboxOps DEF Inbox!LeaveInbox, Inbox!Leave
  <2> QED
    BY <1>1, <2>1, AwaySteady, GoneRequests DEF InboxInv
<1>8. Inbox!ReturnToInbox => InboxInv'
  <2> SUFFICES ASSUME NEW c, page' = <<"inbox", "mounted">>,
                      ui' = [Inbox!InboxMounted EXCEPT !.subbed = Inbox!Listed(atom),
                               !.busy = IF atom.active = None THEN @ ELSE @ \cup {"msgs"}],
                      atom' = [atom EXCEPT !.msgs = {}],
                      net' = IF atom.active = None THEN Inbox!Add(net, "convs", c)
                             ELSE Inbox!Add(Inbox!Add(net, "convs", c), "messages", atom.active)
               PROVE  InboxInv'
    BY DEF Inbox!ReturnToInbox
  <2>1. /\ "busy" \in DOMAIN ui' /\ "active" \in DOMAIN atom' /\ atom'.active = atom.active
        /\ ui'.busy = IF atom.active = None THEN {"convs"} ELSE {"convs", "msgs"}
    BY <1>1 DEF Inbox!InboxMounted
  <2> DEFINE n == Add(net, "convs", c)
  <2>2. Requests(n) /\ \E r \in n : r.live /\ r.op = "convs"
    BY <1>1, Added
  <2>3. net' = IF atom.active = None THEN n ELSE Add(n, "messages", atom.active)
    BY InboxOps
  <2> HIDE DEF n
  <2>4. /\ Requests(net') /\ \E r \in net' : r.live /\ r.op = "convs"
        /\ atom.active # None => \E r \in net' : r.live /\ r.op = "messages"
    BY <2>2, <2>3, Added
  <2>5. \A f \in FlagsOf(InboxFlags, ui', atom') : f = "convs"
          \/ (f = "msgs" /\ atom.active # None)
    <3>1. FlagsOf(InboxFlags, ui', atom')
            = IF atom.active = None THEN {"convs"} \ {"msgs"} ELSE {"convs", "msgs"}
      BY <2>1, InboxRule
    <3> QED
      BY <3>1
  <2>6. ASSUME NEW f \in FlagsOf(InboxFlags, ui', atom')
        PROVE  \E r \in net' : r.live /\ Holds(InboxFlags, r.op, r.arg, f)
    <3>1. CASE f = "convs"
      BY <2>4, <3>1, InboxRule
    <3>2. CASE f = "msgs" /\ atom.active # None
      BY <2>4, <3>2, InboxRule
    <3> QED
      BY <2>5, <2>6, <3>1, <3>2
  <2>7. HeldBy(InboxFlags, FlagsOf(InboxFlags, ui', atom'), net')
    BY <2>6 DEF HeldBy
  <2> QED
    BY <2>1, <2>4, <2>7, InboxRule DEF InboxInv, Steady
<1>9. Inbox!InboxPush => InboxInv'
  <2> SUFFICES ASSUME Inbox!InboxPush PROVE InboxInv'
    OBVIOUS
  <2>1. PICK a, c : /\ "active" \in DOMAIN a
                    /\ IF Inbox!On("inbox") THEN Inbox!Effects(net, ui, a, c)
                       ELSE Inbox!Takes([a EXCEPT !.active = c])
    BY <1>1 DEF Inbox!InboxPush, Inbox!OnMessageCreated, Inbox!OnRow
  <2>2. CASE Inbox!On("inbox")
    BY <1>1, <2>1, <2>2, InboxEffects DEF Inbox!On
  <2>3. CASE ~Inbox!On("inbox")
    <3>1. page = <<"inbox", "away">> /\ UNCHANGED <<page, net>> /\ "active" \in DOMAIN atom'
      BY <2>1, <2>3 DEF Inbox!On, Inbox!Takes, InboxInv, Steady
    <3> QED
      BY <1>1, <3>1, StaysSteady DEF InboxInv
  <2> QED
    BY <2>2, <2>3
<1>10. \A r \in net : Inbox!InboxServes(r) => InboxInv'
  <2> SUFFICES ASSUME NEW r \in net, Inbox!InboxServes(r) PROVE InboxInv'
    OBVIOUS
  <2>1. ASSUME NEW d, NEW v, NEW ps, Inbox!AnswerPush(r, d, v, ps) PROVE InboxInv'
    <3>1. net' = Reply(r, TRUE, v) /\ UNCHANGED <<page, ui, atom>>
      BY <2>1, InboxOps DEF Inbox!AnswerPush
    <3> QED
      BY <3>1, ReplySteady DEF InboxInv
  <2> QED
    BY <2>1 DEF Inbox!InboxServes, Inbox!Read, Inbox!Answer
<1>11. \A r \in net : Inbox!ConversationsLoaded(r) => InboxInv'
  <2> SUFFICES ASSUME NEW r \in net, Inbox!ConversationsLoaded(r) PROVE InboxInv'
    OBVIOUS
  <2>1. r.op = "convs"
    BY DEF Inbox!ConversationsLoaded, Inbox!Replied
  <2> DEFINE q == [r EXCEPT !.op = "with", !.rep = None]
             m == (net \ {r}) \cup {q}
  <2>2. PICK a, c : /\ "active" \in DOMAIN a
                    /\ \/ Inbox!Applies(r, m, ui, a, c)
                       \/ Inbox!Applies(r, net \ {r}, Inbox!Idle(ui, "convs"), a, c)
    BY <1>1 DEF Inbox!ConversationsLoaded
  <2>3. DOMAIN q = RequestFields /\ q.op = "with" /\ q.live = r.live
    BY <1>1 DEF Requests, RequestFields
  <2> HIDE DEF q
  <2>4. Requests(m)
    BY <1>1, <2>3 DEF Requests
  <2>5. page = <<"inbox", "mounted">> => HeldBy(InboxFlags, FlagsOf(InboxFlags, ui, atom), m)
    BY <1>1, <2>1, <2>3, InboxRule DEF HeldBy
  <2> HIDE DEF m
  <2>6. CASE Inbox!Applies(r, m, ui, a, c)
    <3>1. (IF r.live THEN ui ELSE ui) = ui
      OBVIOUS
    <3> QED
      BY <1>1, <2>2, <2>4, <2>5, <2>6, <3>1, InboxApplies
  <2>7. CASE Inbox!Applies(r, net \ {r}, Inbox!Idle(ui, "convs"), a, c)
    <3> DEFINE u == Inbox!Idle(ui, "convs")
               n == net \ {r}
    <3>1. page = <<"inbox", "mounted">> =>
            "busy" \in DOMAIN u /\ \A f \in u.busy : f \in ui.busy
              /\ ~Holds(InboxFlags, r.op, r.arg, f)
      BY <1>1, <2>1, InboxRule DEF Inbox!Idle
    <3>2. Inbox!Applies(r, n, u, a, c) /\ Requests(n)
      BY <1>2, <2>7
    <3> HIDE DEF u
    <3>3. page = <<"inbox", "mounted">> =>
            "busy" \in DOMAIN u /\ HeldBy(InboxFlags,
              FlagsOf(InboxFlags, IF r.live THEN u ELSE ui, atom), n)
      BY <3>1, InboxLess
    <3> HIDE DEF n
    <3> QED
      BY <2>2, <3>2, <3>3, InboxApplies
  <2> QED
    BY <2>2, <2>6, <2>7
<1>left. ASSUME NEW r \in net, NEW u, NEW a, "active" \in DOMAIN a, NEW c,
                page = <<"inbox", "mounted">> =>
                  "busy" \in DOMAIN u /\ \A f \in u.busy : f \in ui.busy
                    /\ ~Holds(InboxFlags, r.op, r.arg, f),
                Inbox!Applies(r, net \ {r}, u, a, c)
         PROVE  InboxInv'
  <2> DEFINE n == net \ {r}
  <2>1. page = <<"inbox", "mounted">> =>
          "busy" \in DOMAIN u /\ HeldBy(InboxFlags,
            FlagsOf(InboxFlags, IF r.live THEN u ELSE ui, atom), n)
    BY <1>left, InboxLess
  <2>2. Inbox!Applies(r, n, u, a, c) /\ Requests(n)
    BY <1>2, <1>left
  <2> HIDE DEF n
  <2> QED
    BY <1>left, <2>1, <2>2, InboxApplies
<1>12. \A r \in net : Inbox!StartReplied(r) => InboxInv'
  <2> SUFFICES ASSUME NEW r \in net, Inbox!StartReplied(r) PROVE InboxInv'
    OBVIOUS
  <2> DEFINE u == IF r.op = "with" THEN Inbox!Idle(ui, "convs") ELSE ui
  <2>1. r.op \in {"start", "with"}
    BY DEF Inbox!StartReplied, Inbox!Replied
  <2>2. page = <<"inbox", "mounted">> =>
          "busy" \in DOMAIN u /\ \A f \in u.busy : f \in ui.busy
            /\ ~Holds(InboxFlags, r.op, r.arg, f)
    BY <1>1, <2>1, InboxRule DEF Inbox!Idle
  <2>3. Inbox!Done(r, u) \/ \E a,
          c : "active" \in DOMAIN a /\ Inbox!Applies(r, net \ {r}, u, a, c)
    BY <1>1 DEF Inbox!StartReplied
  <2> HIDE DEF u
  <2>4. CASE Inbox!Done(r, u)
    <3>1. net' = net \ {r} /\ UNCHANGED <<page, atom>> /\ ui' = IF r.live THEN u ELSE ui
      BY <2>4 DEF Inbox!Done, Inbox!Reach
    <3> QED
      BY <1>1, <2>2, <3>1, InboxOver
  <2> QED
    BY <1>left, <2>2, <2>3, <2>4
<1>13. \A r \in net : Inbox!MessagesLoaded(r) => InboxInv'
  <2> SUFFICES ASSUME NEW r \in net, Inbox!MessagesLoaded(r) PROVE InboxInv'
    OBVIOUS
  <2> DEFINE u == IF r.live THEN Inbox!Idle(ui, "msgs") ELSE ui
  <2>1. r.op = "messages"
    BY DEF Inbox!MessagesLoaded, Inbox!Replied
  <2>2. page = <<"inbox", "mounted">> =>
          "busy" \in DOMAIN u
          /\ (r.live => \A f \in u.busy : f \in ui.busy /\ ~Holds(InboxFlags, r.op, r.arg, f))
    BY <1>1, <2>1, InboxRule DEF Inbox!Idle
  <2>3. /\ net' = net \ {r} /\ UNCHANGED page /\ ui' = IF r.live THEN u ELSE ui
        /\ "active" \in DOMAIN atom' /\ atom'.active = atom.active
    BY <1>1 DEF Inbox!MessagesLoaded, Inbox!Done, Inbox!DoneAtom, Inbox!Reach
  <2> HIDE DEF u
  <2> QED
    BY <2>2, <2>3, InboxOver
<1>14. \A r \in net : Inbox!handleBlockUser(r) => InboxInv'
  <2> SUFFICES ASSUME NEW r \in net, Inbox!handleBlockUser(r) PROVE InboxInv'
    OBVIOUS
  <2>1. r.op \in {"block", "unblock"}
    BY DEF Inbox!handleBlockUser, Inbox!Replied
  <2>2. page = <<"inbox", "mounted">> =>
          "busy" \in DOMAIN ui
          /\ (r.live => \A f \in ui.busy : f \in ui.busy /\ ~Holds(InboxFlags, r.op, r.arg, f))
    BY <1>1, <2>1, InboxRule
  <2>3. PICK a : Inbox!DoneAtom(r, ui, a) /\ "active" \in DOMAIN a /\ a.active = atom.active
    BY <1>1 DEF Inbox!handleBlockUser
  <2>4. /\ net' = net \ {r} /\ UNCHANGED page /\ ui' = IF r.live THEN ui ELSE ui
        /\ "active" \in DOMAIN atom' /\ atom'.active = atom.active
    BY <2>3 DEF Inbox!DoneAtom, Inbox!Reach
  <2> QED
    BY <2>2, <2>4, InboxOver
<1>15. \A r \in net : Inbox!handleDeleteConversation(r) \/ Inbox!handleLeave(r) => InboxInv'
  <2> SUFFICES ASSUME NEW r \in net, Inbox!handleDeleteConversation(r) \/ Inbox!handleLeave(r)
               PROVE InboxInv'
    OBVIOUS
  <2>1. r.op \in {"delete", "leave"}
    BY DEF Inbox!handleDeleteConversation, Inbox!handleLeave, Inbox!Replied
  <2>2. page = <<"inbox", "mounted">> =>
          "busy" \in DOMAIN ui /\ \A f \in ui.busy : f \in ui.busy
            /\ ~Holds(InboxFlags, r.op, r.arg, f)
    BY <1>1, <2>1, InboxRule
  <2>3. Inbox!Done(r, ui) \/ \E a,
          c : "active" \in DOMAIN a /\ Inbox!Applies(r, net \ {r}, ui, a, c)
    BY <1>1 DEF Inbox!handleDeleteConversation, Inbox!handleLeave
  <2>4. CASE Inbox!Done(r, ui)
    <3>1. net' = net \ {r} /\ UNCHANGED <<page, atom>> /\ ui' = IF r.live THEN ui ELSE ui
      BY <2>4 DEF Inbox!Done, Inbox!Reach
    <3> QED
      BY <1>1, <2>2, <3>1, InboxOver
  <2> QED
    BY <1>left, <2>2, <2>3, <2>4
<1> QED
  BY <1>3, <1>4, <1>5, <1>6, <1>7, <1>8, <1>9, <1>10, <1>11, <1>12, <1>13, <1>14, <1>15
     DEF Inbox!InboxNext, Inbox!InboxReplies

InboxSteady ==
    \/ InboxInv

LEMMA InboxBegins ==
  ASSUME Inbox!InboxInit
  PROVE  InboxSteady
<1>1. CASE Inbox!InboxInit
  <2>1. /\ page = <<"inbox", "mounted">> /\ net = Add({}, "convs", None)
        /\ "busy" \in DOMAIN ui /\ ui.busy = {"convs"} /\ "active" \in DOMAIN atom
    BY <1>1, InboxOps DEF Inbox!InboxInit, Inbox!Begins, Inbox!InboxMounted, Inbox!InboxAtoms
  <2>2. \A f \in Shown(InboxFlags) : Holds(InboxFlags, "convs", None, f)
    BY <2>1, InboxRule
  <2>3. Steady("inbox", InboxFlags)
    BY <2>1, <2>2, BornSteady, InboxRule
  <2> QED
    BY <2>1, <2>3 DEF InboxInv, InboxSteady
<1> QED
  BY <1>1

LEMMA InboxTurns ==
  ASSUME Next, page[1] = "inbox" PROVE Inbox!InboxNext \/ Fails
BY DEF Next

LEMMA InboxKept ==
  ASSUME InboxSteady, [Next]_spaVars PROVE InboxSteady'
<1>1. CASE InboxInv
  <2>1. page[1] = "inbox"
    BY <1>1 DEF InboxInv, Steady
  <2>2. CASE Inbox!InboxNext
    BY <1>1, <2>2, InboxStep DEF InboxSteady
  <2>3. CASE Fails \/ UNCHANGED spaVars
    <3>1. UNCHANGED atom
      BY <2>3 DEF Fails, Fail, spaVars
    <3>2. Steady("inbox", InboxFlags)'
      BY <1>1, <2>3, FailsSteady DEF InboxInv
    <3> QED
      BY <1>1, <3>1, <3>2 DEF InboxInv, InboxSteady
  <2> QED
    BY <2>1, <2>2, <2>3, InboxTurns
<1> QED
  BY <1>1 DEF InboxSteady

LEMMA InboxEnds == InboxSteady => SpinnersEnd
<1>1. ASSUME InboxInv PROVE SpinnersEnd
  BY <1>1, NothingShown, InboxRule DEF InboxInv, SpinnersEnd, RowBusy, AwaitsElse
<1> QED
  BY <1>1 DEF InboxSteady

-----------------------------------------------------------------------------
(* Documentation, trash, pickers and the password reset.                   *)

LEMMA LibraryOps ==
  /\ \A n, op, arg : Library!Add(n, op, arg) = Add(n, op, arg)
  /\ \A r, op, arg : Library!Onward(r, op, arg) = Onward(r, op, arg)
  /\ \A r, ok, val : Library!Reply(r, ok, val) = Reply(r, ok, val)
  /\ Library!Orphaned = Orphaned
<1>1. \A n, op, arg : Library!Add(n, op, arg) = Add(n, op, arg)
  BY DEF Library!Add, Add
<1> QED
  BY <1>1 DEF Library!Onward, Onward, Library!Reply, Reply, Library!Orphaned, Orphaned

TrashHolds == {<<"trash", "load">>, <<"restore", "restore">>, <<"more", "more">>}

LEMMA TrashStep ==
  ASSUME FlagsHeld("trash", TrashHolds), Library!TrashNext
  PROVE  FlagsHeld("trash", TrashHolds)'
<1> DEFINE Inv == FlagsHeld("trash", TrashHolds)
<1>1. page = <<"trash", "mounted">> /\ "busy" \in DOMAIN ui
  BY Mounted DEF Library!TrashNext, Library!On
<1>set. UNCHANGED <<page, net>> /\ (ui' = ui \/ Fewer) => Inv'
  BY SetHeld
<1>call. \A op, arg : net' = Library!Add(net, op, arg) /\ UNCHANGED page
          /\ Covered(TrashHolds, op) => Inv'
  BY <1>1, CallHeld, LibraryOps
<1>done. \A r \in net : net' = net \ {r} /\ UNCHANGED page /\ Ended(TrashHolds, r) => Inv'
  BY <1>1, DoneHeld
<1>answer. \A r \in net : \A ok, val : net' = Library!Reply(r, ok, val)
          /\ UNCHANGED <<page, ui, atom>> => Inv'
  BY ReplyHeld, LibraryOps
<1>away. page' = <<"trash", "away">> /\ (net' = {} \/ net' = Library!Orphaned) => Inv'
  BY AwayHeld, LibraryOps
<1> USE <1>1 DEF TrashHolds
<1>2. Library!trashUpdated => Inv'
  BY <1>call DEF Library!trashUpdated, Covered, Library!Busy
<1>3. Library!setTrashSearch => Inv'
  BY <1>set
     DEF Library!setTrashSearch, Library!Set, Fewer, Library!Open, Library!Close, Library!Toggle
<1>4. Library!refreshTrash => Inv'
  BY <1>call DEF Library!refreshTrash, Library!Call, Covered, Library!Busy
<1>5. Library!loadMoreTrash => Inv'
  BY <1>call DEF Library!loadMoreTrash, Library!Call, Covered, Library!Busy
<1>6. Library!trashChanges => Inv'
  BY <1>set DEF Library!trashChanges, Library!Changes, Fewer
<1>7. \A i : Library!askRestore(i) => Inv'
  BY <1>set DEF Library!askRestore, Library!Set, Fewer
<1>8. \A yes : Library!restore(yes) => Inv'
  BY <1>set, <1>call
     DEF Library!restore, Library!Set, Library!Write, Library!Call, Fewer, Covered, Library!Busy
<1>9. \A r \in net : Library!gotTrash(r) => Inv'
  BY <1>done
     DEF Library!gotTrash, Library!Done, Library!Reach, Ended, Dropped, Library!Idle,
         Library!Replied
<1>10. \A r \in net : Library!restored(r) => Inv'
  <2> SUFFICES ASSUME NEW r \in net, Library!restored(r) PROVE Inv'
    OBVIOUS
  <2>1. r.op = "restore"
    BY DEF Library!restored, Library!Replied
  <2>2. ASSUME NEW v, Library!Done(r, Library!Idle([ui EXCEPT !.items = v], "restore")) PROVE Inv'
    BY <2>1, <2>2, <1>done DEF Library!Done, Library!Reach, Ended, Dropped, Library!Idle
  <2>3. ASSUME Library!Done(r, Library!Idle(ui, "restore")) PROVE Inv'
    BY <2>1, <2>3, <1>done DEF Library!Done, Library!Reach, Ended, Dropped, Library!Idle
  <2> QED
    BY <2>2, <2>3 DEF Library!restored, Library!Replied
<1>11. \A r \in net : Library!gotMoreTrash(r) => Inv'
  BY <1>done
     DEF Library!gotMoreTrash, Library!Done, Library!Reach, Ended, Dropped, Library!Idle,
         Library!Replied
<1>12. \A r \in net : Library!TrashServer(r) => Inv'
  BY <1>answer DEF Library!TrashServer, Library!AnswerPush, Library!Read, Library!Answer
<1> QED
  BY <1>2, <1>3, <1>4, <1>5, <1>6, <1>7, <1>8, <1>9, <1>10, <1>11, <1>12, <1>away
     DEF Library!TrashNext, Library!Quit

SettingsHolds == {<<"load", "load">>, <<"save", "submit">>}

LEMMA SettingsStep ==
  ASSUME FlagsHeld("docSettings", SettingsHolds), Library!SettingsNext
  PROVE  FlagsHeld("docSettings", SettingsHolds)'
<1> DEFINE Inv == FlagsHeld("docSettings", SettingsHolds)
<1>1. page = <<"docSettings", "mounted">> /\ "busy" \in DOMAIN ui
  BY Mounted DEF Library!SettingsNext, Library!On
<1>set. UNCHANGED <<page, net>> /\ (ui' = ui \/ Fewer) => Inv'
  BY SetHeld
<1>call. \A op, arg : net' = Library!Add(net, op, arg) /\ UNCHANGED page
          /\ Covered(SettingsHolds, op) => Inv'
  BY <1>1, CallHeld, LibraryOps
<1>done. \A r \in net : net' = net \ {r} /\ UNCHANGED page /\ Ended(SettingsHolds, r) => Inv'
  BY <1>1, DoneHeld
<1>goes. \A r \in net : \A op, arg :
          net' = Library!Onward(r, op, arg) /\ UNCHANGED page /\ r.rep # None
          /\ Passed(SettingsHolds, r, op) => Inv'
  BY <1>1, GoesHeld, LibraryOps
<1>answer. \A r \in net : \A ok, val : net' = Library!Reply(r, ok, val)
          /\ UNCHANGED <<page, ui, atom>> => Inv'
  BY ReplyHeld, LibraryOps
<1>away. page' = <<"docSettings", "away">> /\ (net' = {} \/ net' = Library!Orphaned) => Inv'
  BY AwayHeld, LibraryOps
<1> USE <1>1 DEF SettingsHolds
<1>2. Library!saveSettings => Inv'
  BY <1>call DEF Library!saveSettings, Library!Write, Library!Call, Covered, Library!Busy
<1>3. Library!setSectionTitle => Inv'
  BY <1>set
     DEF Library!setSectionTitle, Library!Set, Fewer, Library!Open, Library!Close, Library!Toggle
<1>4. Library!addSection => Inv'
  BY <1>call DEF Library!addSection, Library!Write, Library!Call, Covered
<1>5. Library!removeDocumentation => Inv'
  BY <1>set DEF Library!removeDocumentation, Library!Set, Fewer
<1>6. \A t : Library!editSettings(t) => Inv'
  BY <1>set DEF Library!editSettings, Library!Set, Fewer
<1>7. \A yes : Library!confirmRemoval(yes) => Inv'
  BY <1>set, <1>call
     DEF Library!confirmRemoval, Library!Set, Library!Write, Library!Call, Fewer, Covered
<1>8. \A i : Library!setSectionTitles(i) => Inv'
  BY <1>set DEF Library!setSectionTitles, Library!Set, Fewer
<1>9. \A i : Library!updateSection(i) => Inv'
  BY <1>call DEF Library!updateSection, Library!Write, Library!Call, Covered
<1>10. \A i : Library!removeSection(i) => Inv'
  BY <1>set DEF Library!removeSection, Library!Set, Fewer
<1>11. \A i, j : Library!moveSection(i, j) => Inv'
  BY <1>call DEF Library!moveSection, Library!Write, Library!Call, Covered
<1>12. \A r \in net : Library!loadSettings(r) => Inv'
  BY ZenonT(30), <1>done, <1>away
     DEF Library!loadSettings, Library!Reinitialized, Library!Done, Library!Reach, Library!Quit,
         Ended, Dropped, Library!Idle, Library!Replied
<1>13. \A r \in net : Library!savedSettings(r) => Inv'
  BY <1>done, <1>away
     DEF Library!savedSettings, Library!Done, Library!Reach, Library!Quit, Ended, Dropped,
         Library!Idle, Library!Replied
<1>14. \A r \in net : Library!sectionChanged(r) => Inv'
  BY <1>done, <1>goes
     DEF Library!sectionChanged, Library!Done, Library!Reach, Library!Goes, Ended, Dropped,
         Passed, Swapped, Library!Close, Library!Replied
<1>15. \A r \in net : Library!documentationRemoved(r) => Inv'
  BY <1>done, <1>away
     DEF Library!documentationRemoved, Library!Done, Library!Reach, Library!Quit, Ended, Dropped,
         Library!Replied
<1>16. \A r \in net : Library!SettingsServer(r) => Inv'
  BY <1>answer
     DEF Library!SettingsServer, Library!Changed, Library!Revised, Library!Answer,
         Library!AnswerPush, Library!Read
<1> QED
  BY <1>2, <1>3, <1>4, <1>5, <1>6, <1>7, <1>8, <1>9, <1>10, <1>11, <1>12, <1>13, <1>14, <1>15,
         <1>16, <1>set, <1>away
     DEF Library!SettingsNext, Library!Changes, Library!Quit, Fewer

GuideHolds ==
    {<<"manifest", "load">>, <<"article", "load">>, <<"put", "submit">>,
      <<"post", "submit">>}

LEMMA GuideStep ==
  ASSUME FlagsHeld("guide", GuideHolds), Library!GuideNext
  PROVE  FlagsHeld("guide", GuideHolds)'
<1> DEFINE Inv == FlagsHeld("guide", GuideHolds)
<1>1. page = <<"guide", "mounted">> /\ "busy" \in DOMAIN ui
  BY Mounted DEF Library!GuideNext, Library!On
<1>set. UNCHANGED <<page, net>> /\ (ui' = ui \/ Fewer) => Inv'
  BY SetHeld
<1>call. \A op, arg : net' = Library!Add(net, op, arg) /\ UNCHANGED page
          /\ Covered(GuideHolds, op) => Inv'
  BY <1>1, CallHeld, LibraryOps
<1>done. \A r \in net : net' = net \ {r} /\ UNCHANGED page /\ Ended(GuideHolds, r) => Inv'
  BY <1>1, DoneHeld
<1>goes. \A r \in net : \A op, arg :
          net' = Library!Onward(r, op, arg) /\ UNCHANGED page /\ r.rep # None
          /\ Passed(GuideHolds, r, op) => Inv'
  BY <1>1, GoesHeld, LibraryOps
<1>answer. \A r \in net : \A ok, val : net' = Library!Reply(r, ok, val)
          /\ UNCHANGED <<page, ui, atom>> => Inv'
  BY ReplyHeld, LibraryOps
<1>away. page' = <<"guide", "away">> /\ (net' = {} \/ net' = Library!Orphaned) => Inv'
  BY AwayHeld, LibraryOps
<1> USE <1>1 DEF GuideHolds
<1>2. Library!openGuide => Inv'
  BY <1>call DEF Library!openGuide, Library!Call, Covered
<1>3. Library!saveGuide => Inv'
  BY <1>call DEF Library!saveGuide, Library!Write, Library!Call, Covered, Library!Busy
<1>4. Library!askRemoveGuide => Inv'
  BY <1>set DEF Library!askRemoveGuide, Library!Set, Fewer, Library!Open
<1>5. Library!followLink => Inv'
  BY <1>set, <1>away DEF Library!followLink, Library!Set, Library!Quit, Fewer, Library!Open
<1>6. \A t : Library!editGuide(t) => Inv'
  BY <1>set DEF Library!editGuide, Library!Set, Fewer, Library!Open
<1>7. \A yes : Library!removeGuide(yes) => Inv'
  BY <1>set, <1>call
     DEF Library!removeGuide, Library!Set, Library!Write, Library!Call, Fewer, Covered,
         Library!Close
<1>8. \A yes : Library!answerGuard(yes) => Inv'
  BY <1>set, <1>away DEF Library!answerGuard, Library!Set, Library!Quit, Fewer, Library!Close
<1>9. \A r \in net : Library!gotManifest(r) => Inv'
  BY <1>done, <1>goes, <1>away
     DEF Library!gotManifest, Library!Done, Library!Reach, Library!Goes, Library!Quit, Ended,
         Dropped, Passed, Swapped, Library!Idle, Library!Open, Library!Close, Library!Replied
<1>10. \A r \in net : Library!gotArticle(r) => Inv'
  BY <1>done
     DEF Library!gotArticle, Library!Reinitialized, Library!Done, Library!Reach, Ended, Dropped,
         Library!Idle, Library!Close, Library!Replied
<1>11. \A r \in net : Library!savedGuide(r) => Inv'
  BY <1>done, <1>away
     DEF Library!savedGuide, Library!Done, Library!Reach, Library!Quit, Ended, Dropped,
         Library!Idle, Library!Replied
<1>12. \A r \in net : Library!removedGuide(r) => Inv'
  BY <1>done, <1>away
     DEF Library!removedGuide, Library!Done, Library!Reach, Library!Quit, Ended, Dropped,
         Library!Replied
<1>13. \A r \in net : Library!GuideServer(r) => Inv'
  BY <1>answer DEF Library!GuideServer, Library!Answer, Library!AnswerPush, Library!Read
<1> QED
  BY <1>2, <1>3, <1>4, <1>5, <1>6, <1>7, <1>8, <1>9, <1>10, <1>11, <1>12, <1>13, <1>set
     DEF Library!GuideNext, Library!Changes, Fewer

SourceListHolds == {<<"list", "load">>}

LEMMA SourceListStep ==
  ASSUME FlagsHeld("sourceList", SourceListHolds), Library!SourceListNext
  PROVE  FlagsHeld("sourceList", SourceListHolds)'
<1> DEFINE Inv == FlagsHeld("sourceList", SourceListHolds)
<1>1. page = <<"sourceList", "mounted">> /\ "busy" \in DOMAIN ui
  BY Mounted DEF Library!SourceListNext, Library!On
<1>set. UNCHANGED <<page, net>> /\ (ui' = ui \/ Fewer) => Inv'
  BY SetHeld
<1>call. \A op, arg : net' = Library!Add(net, op, arg) /\ UNCHANGED page
          /\ Covered(SourceListHolds, op) => Inv'
  BY <1>1, CallHeld, LibraryOps
<1>done. \A r \in net : net' = net \ {r} /\ UNCHANGED page /\ Ended(SourceListHolds, r) => Inv'
  BY <1>1, DoneHeld
<1>goes. \A r \in net : \A op, arg :
          net' = Library!Onward(r, op, arg) /\ UNCHANGED page /\ r.rep # None
          /\ Passed(SourceListHolds, r, op) => Inv'
  BY <1>1, GoesHeld, LibraryOps
<1>answer. \A r \in net : \A ok, val : net' = Library!Reply(r, ok, val)
          /\ UNCHANGED <<page, ui, atom>> => Inv'
  BY ReplyHeld, LibraryOps
<1>away. page' = <<"sourceList", "away">> /\ (net' = {} \/ net' = Library!Orphaned) => Inv'
  BY AwayHeld, LibraryOps
<1> USE <1>1 DEF SourceListHolds
<1>2. Library!setSourceSearch => Inv'
  BY <1>set
     DEF Library!setSourceSearch, Library!Set, Fewer, Library!Open, Library!Close, Library!Toggle
<1>3. Library!toggleView => Inv'
  BY <1>set
     DEF Library!toggleView, Library!Set, Fewer, Library!Open, Library!Close, Library!Toggle
<1>4. Library!openSource => Inv'
  BY <1>away DEF Library!openSource, Library!Quit
<1>5. \A i : Library!askDeleteSource(i) => Inv'
  BY <1>set DEF Library!askDeleteSource, Library!Set, Fewer
<1>6. \A yes : Library!deleteSource(yes) => Inv'
  BY <1>set, <1>call
     DEF Library!deleteSource, Library!Set, Library!Write, Library!Call, Fewer, Covered
<1>7. \A r \in net : Library!gotSourceList(r) => Inv'
  BY <1>done
     DEF Library!gotSourceList, Library!Done, Library!Reach, Ended, Dropped, Library!Idle,
         Library!Replied
<1>8. \A r \in net : Library!deletedSource(r) => Inv'
  BY <1>done, <1>goes
     DEF Library!deletedSource, Library!Done, Library!Reach, Library!Goes, Ended, Dropped, Passed,
         Swapped, Library!Replied
<1>9. \A r \in net : Library!SourceListServer(r) => Inv'
  BY <1>answer DEF Library!SourceListServer, Library!Answer, Library!AnswerPush, Library!Read
<1> QED
  BY <1>2, <1>3, <1>4, <1>5, <1>6, <1>7, <1>8, <1>9, <1>set
     DEF Library!SourceListNext, Library!Changes, Fewer

MetaHolds == {<<"upload", "submit">>, <<"put", "submit">>}

LEMMA MetaStep ==
  ASSUME FlagsHeld("meta", MetaHolds), Library!MetaNext
  PROVE  FlagsHeld("meta", MetaHolds)'
<1> DEFINE Inv == FlagsHeld("meta", MetaHolds)
<1>1. page = <<"meta", "mounted">> /\ "busy" \in DOMAIN ui
  BY Mounted DEF Library!MetaNext, Library!On
<1>set. UNCHANGED <<page, net>> /\ (ui' = ui \/ Fewer) => Inv'
  BY SetHeld
<1>call. \A op, arg : net' = Library!Add(net, op, arg) /\ UNCHANGED page
          /\ Covered(MetaHolds, op) => Inv'
  BY <1>1, CallHeld, LibraryOps
<1>done. \A r \in net : net' = net \ {r} /\ UNCHANGED page /\ Ended(MetaHolds, r) => Inv'
  BY <1>1, DoneHeld
<1>goes. \A r \in net : \A op, arg :
          net' = Library!Onward(r, op, arg) /\ UNCHANGED page /\ r.rep # None
          /\ Passed(MetaHolds, r, op) => Inv'
  BY <1>1, GoesHeld, LibraryOps
<1>answer. \A r \in net : \A ok, val : net' = Library!Reply(r, ok, val)
          /\ UNCHANGED <<page, ui, atom>> => Inv'
  BY ReplyHeld, LibraryOps
<1>away. page' = <<"meta", "away">> /\ (net' = {} \/ net' = Library!Orphaned) => Inv'
  BY AwayHeld, LibraryOps
<1> USE <1>1 DEF MetaHolds
<1>2. Library!editDescription => Inv'
  BY <1>set
     DEF Library!editDescription, Library!Set, Fewer, Library!Open, Library!Close, Library!Toggle
<1>3. Library!submitMeta => Inv'
  <2> SUFFICES ASSUME Library!submitMeta PROVE Inv'
    OBVIOUS
  <2>1. \A fs : Library!saveStep(fs) \in {"put", "upload"}
    BY DEF Library!saveStep
  <2>2. ASSUME NEW op \in {"put", "upload"}, NEW arg,
               Library!Write(Library!Busy(ui, "submit"), op, arg)
        PROVE  Inv'
    BY <2>1, <2>2, <1>call DEF Library!Write, Library!Call, Covered, Library!Busy
  <2> QED
    BY <2>1, <2>2 DEF Library!submitMeta
<1>4. \A m : Library!editMedia(m) => Inv'
  BY <1>set DEF Library!editMedia, Library!MediaFileField, Library!Set, Fewer
<1>5. \A t : Library!openMetaTab(t) => Inv'
  BY <1>set DEF Library!openMetaTab, Library!Set, Fewer
<1>6. \A r \in net : Library!metaUploaded(r) => Inv'
  <2> SUFFICES ASSUME NEW r \in net, Library!metaUploaded(r) PROVE Inv'
    OBVIOUS
  <2>1. \A fs : Library!saveStep(fs) \in {"put", "upload"}
    BY DEF Library!saveStep
  <2>2. r.op = "upload" /\ r.rep # None
    BY DEF Library!metaUploaded, Library!Replied
  <2>3. ASSUME Library!Done(r, Library!Idle(ui, "submit")) PROVE Inv'
    BY <2>1, <2>2, <2>3, <1>done DEF Library!Done, Library!Reach, Ended, Dropped, Library!Idle
  <2>4. ASSUME NEW op \in {"put", "upload"}, NEW arg, Library!Goes(r, ui, op, arg) PROVE Inv'
    BY <2>1, <2>2, <2>4, <1>goes DEF Library!Goes, Library!Reach, Passed, Swapped
  <2> QED
    BY <2>1, <2>3, <2>4 DEF Library!metaUploaded, Library!Replied
<1>7. \A r \in net : Library!metaSaved(r) => Inv'
  BY <1>done, <1>away
     DEF Library!metaSaved, Library!Done, Library!Reach, Library!Quit, Ended, Dropped,
         Library!Idle, Library!Replied
<1>8. \A r \in net : Library!MetaServer(r) => Inv'
  BY <1>answer DEF Library!MetaServer, Library!Answer, Library!AnswerPush, Library!Read
<1> QED
  BY <1>2, <1>3, <1>4, <1>5, <1>6, <1>7, <1>8 DEF Library!MetaNext

BadgeHolds == {<<"restart", "restart">>}

LEMMA BadgeStep ==
  ASSUME FlagsHeld("badge", BadgeHolds), Library!BadgeNext
  PROVE  FlagsHeld("badge", BadgeHolds)'
<1> DEFINE Inv == FlagsHeld("badge", BadgeHolds)
<1>1. page = <<"badge", "mounted">> /\ "busy" \in DOMAIN ui
  BY Mounted DEF Library!BadgeNext, Library!On
<1>set. UNCHANGED <<page, net>> /\ (ui' = ui \/ Fewer) => Inv'
  BY SetHeld
<1>call. \A op, arg : net' = Library!Add(net, op, arg) /\ UNCHANGED page
          /\ Covered(BadgeHolds, op) => Inv'
  BY <1>1, CallHeld, LibraryOps
<1>done. \A r \in net : net' = net \ {r} /\ UNCHANGED page /\ Ended(BadgeHolds, r) => Inv'
  BY <1>1, DoneHeld
<1>answer. \A r \in net : \A ok, val : net' = Library!Reply(r, ok, val)
          /\ UNCHANGED <<page, ui, atom>> => Inv'
  BY ReplyHeld, LibraryOps
<1> USE <1>1 DEF BadgeHolds
<1>2. Library!handleJobsUpdate => Inv'
  BY <1>set DEF Library!handleJobsUpdate, Fewer
<1>3. Library!handleRestart => Inv'
  BY <1>call DEF Library!handleRestart, Library!Write, Library!Call, Covered, Library!Busy
<1>4. \A r \in net : Library!gotJobs(r) => Inv'
  BY <1>done DEF Library!gotJobs, Library!Done, Library!Reach, Ended, Dropped, Library!Replied
<1>5. \A r \in net : Library!restarted(r) => Inv'
  BY <1>done
     DEF Library!restarted, Library!Done, Library!Reach, Ended, Dropped, Library!Idle,
         Library!Replied
<1>6. \A r \in net : Library!BadgeServer(r) => Inv'
  BY <1>answer DEF Library!BadgeServer, Library!AnswerPush, Library!Read, Library!Answer
<1> QED
  BY <1>2, <1>3, <1>4, <1>5, <1>6, <1>set DEF Library!BadgeNext, Library!Changes, Fewer

ResetHolds == {<<"reset", "submit">>}

LEMMA ResetStep ==
  ASSUME FlagsHeld("reset", ResetHolds), Library!ResetNext
  PROVE  FlagsHeld("reset", ResetHolds)'
<1> DEFINE Inv == FlagsHeld("reset", ResetHolds)
<1>1. page = <<"reset", "mounted">> /\ "busy" \in DOMAIN ui
  BY Mounted DEF Library!ResetNext, Library!On
<1>set. UNCHANGED <<page, net>> /\ (ui' = ui \/ Fewer) => Inv'
  BY SetHeld
<1>call. \A op, arg : net' = Library!Add(net, op, arg) /\ UNCHANGED page
          /\ Covered(ResetHolds, op) => Inv'
  BY <1>1, CallHeld, LibraryOps
<1>done. \A r \in net : net' = net \ {r} /\ UNCHANGED page /\ Ended(ResetHolds, r) => Inv'
  BY <1>1, DoneHeld
<1>answer. \A r \in net : \A ok, val : net' = Library!Reply(r, ok, val)
          /\ UNCHANGED <<page, ui, atom>> => Inv'
  BY ReplyHeld, LibraryOps
<1>away. page' = <<"reset", "away">> /\ (net' = {} \/ net' = Library!Orphaned) => Inv'
  BY AwayHeld, LibraryOps
<1> USE <1>1 DEF ResetHolds
<1>2. Library!editPassword => Inv'
  BY <1>set
     DEF Library!editPassword, Library!Set, Fewer, Library!Open, Library!Close, Library!Toggle
<1>3. Library!handleReset => Inv'
  BY <1>set, <1>call
     DEF Library!handleReset, Library!Set, Library!Call, Fewer, Covered, Library!Busy,
         Library!Open, Library!Close
<1>4. Library!toLogin => Inv'
  BY <1>away DEF Library!toLogin, Library!Quit
<1>5. \A r \in net : Library!passwordReset(r) => Inv'
  BY <1>done
     DEF Library!passwordReset, Library!Done, Library!Reach, Ended, Dropped, Library!Idle,
         Library!Open, Library!Replied
<1> QED
  BY <1>2, <1>3, <1>4, <1>5, <1>answer
     DEF Library!ResetNext, Library!Read, Library!Answer, Library!AnswerPush

PickerTimer == <<"timer", {<<"search", "load">>, <<"more", "more">>}, {"load"}>>

LEMMA PickerTimerRule ==
  /\ Shown(PickerTimer) = (IF "timer" \in ui.on THEN ui.busy \ {"load"} ELSE ui.busy)
  /\ Shown(PickerTimer)' = (IF "timer" \in ui'.on THEN ui'.busy \ {"load"} ELSE ui'.busy)
  /\ (Whole(PickerTimer) <=> "busy" \in DOMAIN ui /\ "on" \in DOMAIN ui)
  /\ (Whole(PickerTimer)' <=> "busy" \in DOMAIN ui' /\ "on" \in DOMAIN ui')
  /\ \A op, arg, f : Holds(PickerTimer, op, arg, f)
        <=> (op = "search" /\ f = "load") \/ (op = "more" /\ f = "more")
<1>1. Shown(PickerTimer) = (IF "timer" \in ui.on THEN ui.busy \ {"load"} ELSE ui.busy)
        /\ Shown(PickerTimer)' = (IF "timer" \in ui'.on THEN ui'.busy \ {"load"} ELSE ui'.busy)
  BY DEF Shown, FlagsOf, PickerTimer
<1>2. (Whole(PickerTimer) <=> "busy" \in DOMAIN ui /\ "on" \in DOMAIN ui)
        /\ (Whole(PickerTimer)' <=> "busy" \in DOMAIN ui' /\ "on" \in DOMAIN ui')
  BY DEF Whole, FieldsOf, PickerTimer
<1>3. \A op, arg, f : Holds(PickerTimer, op, arg, f)
        <=> (op = "search" /\ f = "load") \/ (op = "more" /\ f = "more")
  BY DEF Holds, PickerTimer
<1> QED
  BY <1>1, <1>2, <1>3

LEMMA PickerTimerStep ==
  ASSUME Steady("picker", PickerTimer), Library!PickerNext
  PROVE  Steady("picker", PickerTimer)'
<1> DEFINE Inv == Steady("picker", PickerTimer)
<1>1. page = <<"picker", "mounted">> /\ Whole(PickerTimer)
  BY DEF Steady, Library!PickerNext, Library!On
<1>set. UNCHANGED <<page, net>> /\ Fades(PickerTimer) => Inv'
  BY <1>1, SetSteady
<1>call. \A op, arg : net' = Library!Add(net, op, arg) /\ UNCHANGED page
          /\ Begun(PickerTimer, op, arg) => Inv'
  BY <1>1, CallSteady, LibraryOps
<1>done. \A r \in net : net' = net \ {r} /\ UNCHANGED page /\ Closed(PickerTimer, r) => Inv'
  BY <1>1, DoneSteady
<1>answer. \A r \in net : \A ok, val : net' = Library!Reply(r, ok, val)
          /\ UNCHANGED <<page, ui, atom>> => Inv'
  BY ReplySteady, LibraryOps
<1>away. page' = <<"picker", "away">> /\ (net' = {} \/ net' = Library!Orphaned) => Inv'
  BY AwaySteady, GoneRequests, LibraryOps DEF Steady
<1> USE <1>1, PickerTimerRule
<1>2. Library!setQuery => Inv'
  BY <1>set
     DEF Library!setQuery, Library!debouncedSearch, Library!Set, Fades, Library!Busy,
         Library!Idle, Library!Open, Library!Close
<1>3. Library!parentRenders => Inv'
  BY <1>set
     DEF Library!parentRenders, Library!debouncedSearch, Library!Set, Fades, Library!Busy,
         Library!Idle, Library!Open, Library!Close
<1>4. Library!searchDue => Inv'
  BY <1>call DEF Library!searchDue, Library!Call, Begun, Library!Close
<1>5. Library!loadMorePeople => Inv'
  BY <1>call DEF Library!loadMorePeople, Library!Call, Begun, Library!Busy
<1>6. \A p : Library!handleSelect(p) => Inv'
  BY <1>set
     DEF Library!handleSelect, Library!debouncedSearch, Library!Set, Fades, Library!Busy,
         Library!Idle, Library!Open, Library!Close
<1>7. Library!pickerFocus => Inv'
  BY <1>set DEF Library!pickerFocus, Library!Set, Fades, Library!Open, Library!Close
<1>8. Library!pickerBlur => Inv'
  BY <1>set DEF Library!pickerBlur, Library!Set, Fades, Library!Open
<1>9. Library!pickerBlurred => Inv'
  BY <1>set DEF Library!pickerBlurred, Library!Set, Fades
<1>10. Library!pickerEscape => Inv'
  BY <1>set, <1>away DEF Library!pickerEscape, Library!Set, Library!Quit, Fades, Library!Close
<1>11. \A r \in net : Library!gotPeople(r) => Inv'
  BY <1>done
     DEF Library!gotPeople, Library!Done, Library!Reach, Closed, Spent, Library!Idle,
         Library!Replied
<1>12. \A r \in net : Library!gotMorePeople(r) => Inv'
  BY <1>done
     DEF Library!gotMorePeople, Library!Done, Library!Reach, Closed, Spent, Library!Idle,
         Library!Replied
<1>13. \A r \in net : Library!PickerServer(r) => Inv'
  BY <1>answer DEF Library!PickerServer, Library!Read, Library!Answer, Library!AnswerPush
<1> QED
  BY <1>2, <1>3, <1>4, <1>5, <1>6, <1>7, <1>8, <1>9, <1>10, <1>11, <1>12, <1>13
     DEF Library!PickerNext

FilesPicker == <<"picker", {}, {"load"}>>

LEMMA FilesPickerRule ==
  /\ Shown(FilesPicker) = (IF "picker" \in ui.on THEN ui.busy \ {"load"} ELSE ui.busy)
  /\ Shown(FilesPicker)' = (IF "picker" \in ui'.on THEN ui'.busy \ {"load"} ELSE ui'.busy)
  /\ (Whole(FilesPicker) <=> "busy" \in DOMAIN ui /\ "on" \in DOMAIN ui)
  /\ (Whole(FilesPicker)' <=> "busy" \in DOMAIN ui' /\ "on" \in DOMAIN ui')
  /\ \A op, arg, f : Holds(FilesPicker, op, arg, f) <=> FALSE
<1>1. Shown(FilesPicker) = (IF "picker" \in ui.on THEN ui.busy \ {"load"} ELSE ui.busy)
        /\ Shown(FilesPicker)' = (IF "picker" \in ui'.on THEN ui'.busy \ {"load"} ELSE ui'.busy)
  BY DEF Shown, FlagsOf, FilesPicker
<1>2. (Whole(FilesPicker) <=> "busy" \in DOMAIN ui /\ "on" \in DOMAIN ui)
        /\ (Whole(FilesPicker)' <=> "busy" \in DOMAIN ui' /\ "on" \in DOMAIN ui')
  BY DEF Whole, FieldsOf, FilesPicker
<1>3. \A op, arg, f : Holds(FilesPicker, op, arg, f) <=> FALSE
  BY DEF Holds, FilesPicker
<1> QED
  BY <1>1, <1>2, <1>3

LEMMA FilesPickerStep ==
  ASSUME Steady("files", FilesPicker), Library!FilesNext
  PROVE  Steady("files", FilesPicker)'
<1> DEFINE Inv == Steady("files", FilesPicker)
<1>1. page = <<"files", "mounted">> /\ Whole(FilesPicker)
  BY DEF Steady, Library!FilesNext, Library!On
<1>set. UNCHANGED <<page, net>> /\ Fades(FilesPicker) => Inv'
  BY <1>1, SetSteady
<1>call. \A op, arg : net' = Library!Add(net, op, arg) /\ UNCHANGED page
          /\ Begun(FilesPicker, op, arg) => Inv'
  BY <1>1, CallSteady, LibraryOps
<1>done. \A r \in net : net' = net \ {r} /\ UNCHANGED page /\ Closed(FilesPicker, r) => Inv'
  BY <1>1, DoneSteady
<1>answer. \A r \in net : \A ok, val : net' = Library!Reply(r, ok, val)
          /\ UNCHANGED <<page, ui, atom>> => Inv'
  BY ReplySteady, LibraryOps
<1> USE <1>1, FilesPickerRule
<1>2. \A f : Library!chooseFile(f) => Inv'
  BY <1>set DEF Library!chooseFile, Library!Set, Fades
<1>3. Library!openUploads => Inv'
  <2> SUFFICES ASSUME Library!openUploads PROVE Inv'
    OBVIOUS
  <2>1. LET u == Library!FreshDialog(ui) IN DOMAIN u = DOMAIN ui /\ u.busy = ui.busy
          /\ "picker" \in u.on
    BY DEF Library!FreshDialog, Library!Open
  <2>2. ASSUME NEW u, u = Library!FreshDialog(ui)
               /\ Library!Call(Library!Busy(u, "load"), "uploads", ui.dialog + 1)
        PROVE  Inv'
    BY <2>1, <2>2, <1>call DEF Library!Call, Begun, Library!Busy, Library!Open
  <2>3. ASSUME NEW u, "picker" \notin ui.on /\ u = Library!FreshDialog(ui)
               /\ Library!Set(Library!Open(u, "error"))
        PROVE  Inv'
    BY <2>1, <2>3, <1>set DEF Library!Set, Fades, Library!Open
  <2> QED
    BY <2>1, <2>2, <2>3 DEF Library!openUploads
<1>4. Library!closeUploads(ui) => Inv'
  BY <1>set DEF Library!closeUploads, Library!Set, Fades, Library!Idle, Library!Close
<1>5. \A f : Library!selectFromLibrary(f) => Inv'
  BY <1>set
     DEF Library!selectFromLibrary, Library!closeUploads, Library!Set, Fades, Library!Idle,
         Library!Close
<1>6. \A r \in net : Library!gotUploads(r) => Inv'
  BY <1>done
     DEF Library!gotUploads, Library!Done, Library!Reach, Closed, Spent, Library!Idle,
         Library!Open, Library!Replied
<1> QED
  BY <1>2, <1>3, <1>4, <1>5, <1>6, <1>answer
     DEF Library!FilesNext, Library!Read, Library!Answer, Library!AnswerPush

FilesNow == <<"now", {"uploads"}, "load", "dialog", 0>>

LEMMA FilesNowRule ==
  /\ Shown(FilesNow) = (IF "load" \in ui.busy THEN {ui.dialog} ELSE {})
  /\ Shown(FilesNow)' = (IF "load" \in ui'.busy THEN {ui'.dialog} ELSE {})
  /\ (Whole(FilesNow) <=> "busy" \in DOMAIN ui /\ "dialog" \in DOMAIN ui)
  /\ (Whole(FilesNow)' <=> "busy" \in DOMAIN ui' /\ "dialog" \in DOMAIN ui')
  /\ \A op, arg, f : Holds(FilesNow, op, arg, f) <=> op = "uploads" /\ arg = f
<1>1. Shown(FilesNow) = (IF "load" \in ui.busy THEN {ui.dialog} ELSE {})
        /\ Shown(FilesNow)' = (IF "load" \in ui'.busy THEN {ui'.dialog} ELSE {})
  BY DEF Shown, FlagsOf, FilesNow
<1>2. (Whole(FilesNow) <=> "busy" \in DOMAIN ui /\ "dialog" \in DOMAIN ui)
        /\ (Whole(FilesNow)' <=> "busy" \in DOMAIN ui' /\ "dialog" \in DOMAIN ui')
  BY DEF Whole, FieldsOf, FilesNow
<1>3. \A op, arg, f : Holds(FilesNow, op, arg, f) <=> op = "uploads" /\ arg = f
  BY DEF Holds, FilesNow
<1> QED
  BY <1>1, <1>2, <1>3

LEMMA FilesNowStep ==
  ASSUME Steady("files", FilesNow), Library!FilesNext, Steady("files", FilesPicker)
  PROVE  Steady("files", FilesNow)'
<1> DEFINE Inv == Steady("files", FilesNow)
<1>1. page = <<"files", "mounted">> /\ Whole(FilesNow)
  BY DEF Steady, Library!FilesNext, Library!On
<1>set. UNCHANGED <<page, net>> /\ Fades(FilesNow) => Inv'
  BY <1>1, SetSteady
<1>call. \A op, arg : net' = Library!Add(net, op, arg) /\ UNCHANGED page
          /\ Begun(FilesNow, op, arg) => Inv'
  BY <1>1, CallSteady, LibraryOps
<1>done. \A r \in net : net' = net \ {r} /\ UNCHANGED page /\ Closed(FilesNow, r) => Inv'
  BY <1>1, DoneSteady
<1>answer. \A r \in net : \A ok, val : net' = Library!Reply(r, ok, val)
          /\ UNCHANGED <<page, ui, atom>> => Inv'
  BY ReplySteady, LibraryOps
<1>picker. "on" \in DOMAIN ui /\ ("load" \in ui.busy => "picker" \in ui.on)
  BY <1>1, FilesPickerRule DEF Steady, HeldBy
<1> USE <1>picker
<1> USE <1>1, FilesNowRule
<1>2. \A f : Library!chooseFile(f) => Inv'
  BY <1>set DEF Library!chooseFile, Library!Set, Fades
<1>3. Library!openUploads => Inv'
  <2> SUFFICES ASSUME Library!openUploads PROVE Inv'
    OBVIOUS
  <2>1. LET u == Library!FreshDialog(ui) IN DOMAIN u = DOMAIN ui /\ u.busy = ui.busy
          /\ u.dialog = ui.dialog + 1
    BY DEF Library!FreshDialog, Library!Open
  <2>2. ASSUME NEW u, u = Library!FreshDialog(ui)
               /\ Library!Call(Library!Busy(u, "load"), "uploads", ui.dialog + 1)
        PROVE  Inv'
    BY <2>1, <2>2, <1>call DEF Library!Call, Begun, Library!Busy, Library!Open
  <2>3. ASSUME NEW u, "picker" \notin ui.on /\ u = Library!FreshDialog(ui)
               /\ Library!Set(Library!Open(u, "error"))
        PROVE  Inv'
    BY <2>1, <2>3, <1>set DEF Library!Set, Fades, Library!Open
  <2> QED
    BY <2>1, <2>2, <2>3 DEF Library!openUploads
<1>4. Library!closeUploads(ui) => Inv'
  BY <1>set DEF Library!closeUploads, Library!Set, Fades, Library!Idle, Library!Close
<1>5. \A f : Library!selectFromLibrary(f) => Inv'
  BY <1>set
     DEF Library!selectFromLibrary, Library!closeUploads, Library!Set, Fades, Library!Idle,
         Library!Close
<1>6. \A r \in net : Library!gotUploads(r) => Inv'
  <2> SUFFICES ASSUME NEW r \in net, Library!gotUploads(r) PROVE Inv'
    OBVIOUS
  <2>1. r.op = "uploads"
    BY DEF Library!gotUploads, Library!Replied
  <2>2. ASSUME "picker" \notin ui.on /\ Library!Done(r, ui) PROVE Inv'
    BY <2>1, <2>2, <1>done DEF Library!Done, Library!Reach, Closed, Spent
  <2>3. ASSUME r.arg # ui.dialog /\ Library!Done(r, ui) PROVE Inv'
    BY <2>1, <2>3, <1>done DEF Library!Done, Library!Reach, Closed, Spent
  <2>4. ASSUME NEW v, r.arg = ui.dialog
               /\ Library!Done(r, Library!Idle([ui EXCEPT !.uploads = v], "load"))
        PROVE  Inv'
    BY <2>1, <2>4, <1>done DEF Library!Done, Library!Reach, Closed, Spent, Library!Idle
  <2>5. ASSUME r.arg = ui.dialog
               /\ Library!Done(r, Library!Idle(Library!Open(ui, "error"), "load"))
        PROVE  Inv'
    BY <2>1, <2>5, <1>done
       DEF Library!Done, Library!Reach, Closed, Spent, Library!Idle, Library!Open
  <2> QED
    BY <2>2, <2>3, <2>4, <2>5 DEF Library!gotUploads, Library!Replied
<1> QED
  BY <1>2, <1>3, <1>4, <1>5, <1>6, <1>answer
     DEF Library!FilesNext, Library!Read, Library!Answer, Library!AnswerPush

ManageLoad == <<"now", {"page"}, "load", "req", 1>>

LEMMA ManageLoadRule ==
  /\ Shown(ManageLoad) = (IF "load" \in ui.busy THEN {ui.req} ELSE {})
  /\ Shown(ManageLoad)' = (IF "load" \in ui'.busy THEN {ui'.req} ELSE {})
  /\ (Whole(ManageLoad) <=> "busy" \in DOMAIN ui /\ "req" \in DOMAIN ui)
  /\ (Whole(ManageLoad)' <=> "busy" \in DOMAIN ui' /\ "req" \in DOMAIN ui')
  /\ \A op, arg, f : Holds(ManageLoad, op, arg, f) <=> op = "page" /\ arg[1] = f
<1>1. Shown(ManageLoad) = (IF "load" \in ui.busy THEN {ui.req} ELSE {})
        /\ Shown(ManageLoad)' = (IF "load" \in ui'.busy THEN {ui'.req} ELSE {})
  BY DEF Shown, FlagsOf, ManageLoad
<1>2. (Whole(ManageLoad) <=> "busy" \in DOMAIN ui /\ "req" \in DOMAIN ui)
        /\ (Whole(ManageLoad)' <=> "busy" \in DOMAIN ui' /\ "req" \in DOMAIN ui')
  BY DEF Whole, FieldsOf, ManageLoad
<1>3. \A op, arg, f : Holds(ManageLoad, op, arg, f) <=> op = "page" /\ arg[1] = f
  BY DEF Holds, ManageLoad
<1> QED
  BY <1>1, <1>2, <1>3

LEMMA ManageLoadStep ==
  ASSUME Steady("manage", ManageLoad), Library!ManageNext
  PROVE  Steady("manage", ManageLoad)'
<1> DEFINE Inv == Steady("manage", ManageLoad)
<1>1. page = <<"manage", "mounted">> /\ Whole(ManageLoad)
  BY DEF Steady, Library!ManageNext, Library!On
<1>set. UNCHANGED <<page, net>> /\ Fades(ManageLoad) => Inv'
  BY <1>1, SetSteady
<1>call. \A op, arg : net' = Library!Add(net, op, arg) /\ UNCHANGED page
          /\ Begun(ManageLoad, op, arg) => Inv'
  BY <1>1, CallSteady, LibraryOps
<1>twice. \A o, x, op, arg : net' = Library!Add(Library!Add(net, o, x), op, arg) /\ UNCHANGED page
          /\ Begun(ManageLoad, op, arg) => Inv'
  BY <1>1, TwiceSteady, LibraryOps
<1>done. \A r \in net : net' = net \ {r} /\ UNCHANGED page /\ Closed(ManageLoad, r) => Inv'
  BY <1>1, DoneSteady
<1>goes. \A r \in net : \A op, arg :
          net' = Library!Onward(r, op, arg) /\ UNCHANGED page /\ r.rep # None
          /\ Handed(ManageLoad, r, op, arg) => Inv'
  BY <1>1, GoesSteady, LibraryOps
<1>answer. \A r \in net : \A ok, val : net' = Library!Reply(r, ok, val)
          /\ UNCHANGED <<page, ui, atom>> => Inv'
  BY ReplySteady, LibraryOps
<1>away. page' = <<"manage", "away">> /\ (net' = {} \/ net' = Library!Orphaned) => Inv'
  BY AwaySteady, GoneRequests, LibraryOps DEF Steady
<1> USE <1>1, ManageLoadRule
<1>2. Library!pageUpdated => Inv'
  BY <1>set DEF Library!pageUpdated, Library!FormOf, Fades
<1>3. \A t : Library!setTab(t) => Inv'
  BY <1>set DEF Library!setTab, Library!Set, Fades
<1>4. Library!editSEO => Inv'
  BY <1>set DEF Library!editSEO, Library!Set, Fades
<1>5. Library!editSEOImage => Inv'
  BY <1>set DEF Library!editSEOImage, Library!Imaged, Library!Set, Fades
<1>6. Library!clearSEOImage => Inv'
  BY <1>set DEF Library!clearSEOImage, Library!Imaged, Library!Set, Fades
<1>7. Library!selectUpload => Inv'
  BY <1>set DEF Library!selectUpload, Library!Imaged, Library!Set, Fades
<1>8. Library!automaticSEO => Inv'
  BY <1>set DEF Library!automaticSEO, Library!Set, Fades
<1>9. Library!submitSEO => Inv'
  <2> SUFFICES ASSUME Library!submitSEO PROVE Inv'
    OBVIOUS
  <2>1. ASSUME NEW op \in {"upload", "seo"},
               ui' = Library!Busy(ui, "submit")
                 /\ net' = Library!Add(net, op, <<ui.req, ui.text, ui.img>>) /\ UNCHANGED page
        PROVE  Inv'
    BY <2>1, <1>call DEF Begun, Library!Busy
  <2> QED
    BY <2>1 DEF Library!submitSEO, Library!submits, Library!Submission
<1>10. \A f : Library!chooseSEOFile(f) => Inv'
  BY <1>set DEF Library!chooseSEOFile, Library!Imaged, Library!Set, Fades
<1>11. Library!openOwnerPicker => Inv'
  <2> SUFFICES ASSUME Library!openOwnerPicker PROVE Inv'
    OBVIOUS
  <2>1. ASSUME NEW op \in {"upload", "seo"},
               ui' = Library!Busy(Library!Open(ui, "owner"), "submit")
                 /\ net' = Library!Add(net, op, <<ui.req, ui.text, ui.img>>) /\ UNCHANGED page
        PROVE  Inv'
    BY <2>1, <1>call DEF Begun, Library!Busy, Library!Open
  <2> QED
    BY <2>1 DEF Library!openOwnerPicker, Library!submits, Library!Submission
<1>12. Library!openEditorPicker => Inv'
  <2> SUFFICES ASSUME Library!openEditorPicker PROVE Inv'
    OBVIOUS
  <2>1. ASSUME NEW op \in {"upload", "seo"},
               ui' = Library!Busy(Library!Open(ui, "editors"), "submit")
                 /\ net' = Library!Add(net, op, <<ui.req, ui.text, ui.img>>) /\ UNCHANGED page
        PROVE  Inv'
    BY <2>1, <1>call DEF Begun, Library!Busy, Library!Open
  <2> QED
    BY <2>1 DEF Library!openEditorPicker, Library!submits, Library!Submission
<1>13. Library!handleClearOwner => Inv'
  <2> SUFFICES ASSUME Library!handleClearOwner PROVE Inv'
    OBVIOUS
  <2>1. ASSUME NEW op \in {"upload", "seo"},
               ui' = Library!Busy(ui, "submit")
                 /\ net' = Library!Add(Library!Add(net, "owner", << 0 >>), op,
                       <<ui.req, ui.text, ui.img>>) /\ UNCHANGED page
        PROVE  Inv'
    BY <2>1, <1>twice DEF Begun, Library!Busy
  <2> QED
    BY <2>1 DEF Library!handleClearOwner, Library!submits, Library!Submission
<1>14. \A f : Library!closePickers(f) => Inv'
  BY <1>set DEF Library!closePickers, Library!Set, Fades, Library!Close
<1>15. \A u : Library!handleSetOwner(u) => Inv'
  BY <1>call DEF Library!handleSetOwner, Library!Write, Library!Call, Begun
<1>16. \A u : Library!handleAddEditor(u) => Inv'
  BY <1>call DEF Library!handleAddEditor, Library!Write, Library!Call, Begun
<1>17. \A u : Library!handleRemoveEditor(u) => Inv'
  <2> SUFFICES ASSUME NEW u, Library!handleRemoveEditor(u) PROVE Inv'
    OBVIOUS
  <2>1. ASSUME NEW op \in {"upload", "seo"},
               ui' = Library!Busy(ui, "submit")
                 /\ net' = Library!Add(Library!Add(net, "remove", <<u>>), op,
                       <<ui.req, ui.text, ui.img>>) /\ UNCHANGED page
        PROVE  Inv'
    BY <2>1, <1>twice DEF Begun, Library!Busy
  <2> QED
    BY <2>1 DEF Library!handleRemoveEditor, Library!submits, Library!Submission
<1>18. \A r \in net : Library!gotPage(r) => Inv'
  <2> SUFFICES ASSUME NEW r \in net, Library!gotPage(r) PROVE Inv'
    OBVIOUS
  <2>1. r.op = "page"
    BY DEF Library!gotPage, Library!FormOf, Library!Replied
  <2>2. \A d : LET u == Library!Panel(ui, d) IN u.busy = ui.busy /\ u.req = ui.req
          /\ {"busy", "req"} \subseteq DOMAIN u
    BY DEF Library!Panel, Library!FormOf
  <2>3. ASSUME r.arg[1] # ui.req /\ Library!Done(r, ui) PROVE Inv'
    BY <2>1, <2>2, <2>3, <1>done DEF Library!Done, Library!Reach, Closed, Spent
  <2>4. ASSUME page' = <<"manage", "away">> /\ net' = {} PROVE Inv'
    BY <2>1, <2>2, <2>4, <1>away
  <2>5. ASSUME NEW d, r.arg[1] = ui.req
               /\ Library!Done(r, Library!Idle(Library!Panel(ui, d), "load"))
        PROVE  Inv'
    BY <2>1, <2>2, <2>5, <1>done DEF Library!Done, Library!Reach, Closed, Spent, Library!Idle
  <2>6. ASSUME r.arg[1] = ui.req
               /\ Library!Done(r, Library!Idle([ui EXCEPT !.doc = None], "load"))
        PROVE  Inv'
    BY <2>1, <2>2, <2>6, <1>done DEF Library!Done, Library!Reach, Closed, Spent, Library!Idle
  <2> QED
    BY <2>2, <2>3, <2>4, <2>5, <2>6
       DEF Library!gotPage, Library!FormOf, Library!Replied, Library!Quit
<1>19. \A r \in net : Library!seoUploaded(r) => Inv'
  BY <1>done, <1>goes
     DEF Library!seoUploaded, Library!seoFailed, Library!Done, Library!Reach, Library!Goes,
         Closed, Spent, Handed, Library!Idle, Library!Replied
<1>20. \A r \in net : Library!seoSaved(r) => Inv'
  BY <1>done, <1>away
     DEF Library!seoSaved, Library!seoFailed, Library!Done, Library!Reach, Library!Quit, Closed,
         Spent, Library!Idle, Library!Replied
<1>21. \A r \in net : Library!accessChanged(r) => Inv'
  <2> SUFFICES ASSUME NEW r \in net, Library!accessChanged(r) PROVE Inv'
    OBVIOUS
  <2>1. r.op \in {"owner", "add", "remove"} /\ r.rep # None
    BY DEF Library!accessChanged, Library!refreshed, Library!Replied
  <2>2. ASSUME Library!Done(r, ui) PROVE Inv'
    BY <2>1, <2>2, <1>done DEF Library!Done, Library!Reach, Closed, Spent
  <2>3. ASSUME Library!Goes(r, [ui EXCEPT !.busy = {"load"}, !.req = @ + 1], "page",
               <<ui.req + 1>>)
        PROVE  Inv'
    BY <2>1, <2>3, <1>goes DEF Library!Goes, Library!Reach, Handed, Spent
  <2> QED
    BY <2>2, <2>3 DEF Library!accessChanged, Library!refreshed, Library!Replied
<1>22. \A r \in net : Library!ManageServer(r) => Inv'
  <2> SUFFICES ASSUME NEW r \in net, Library!ManageServer(r) PROVE Inv'
    OBVIOUS
  <2>1. ASSUME NEW d, NEW v, NEW ps, Library!AnswerPush(r, d, v, ps) PROVE Inv'
    BY <1>answer, <2>1 DEF Library!AnswerPush
  <2> QED
    BY <2>1 DEF Library!ManageServer, Library!Read, Library!Answer
<1> QED
  BY <1>2, <1>3, <1>4, <1>5, <1>6, <1>7, <1>8, <1>9, <1>10, <1>11, <1>12, <1>13, <1>14, <1>15,
         <1>16, <1>17, <1>18, <1>19, <1>20, <1>21, <1>22, <1>set
     DEF Library!ManageNext, Library!Changes, Fades

ManageSubmit == <<"now", {"upload", "seo"}, "submit", "req", 1>>

LEMMA ManageSubmitRule ==
  /\ Shown(ManageSubmit) = (IF "submit" \in ui.busy THEN {ui.req} ELSE {})
  /\ Shown(ManageSubmit)' = (IF "submit" \in ui'.busy THEN {ui'.req} ELSE {})
  /\ (Whole(ManageSubmit) <=> "busy" \in DOMAIN ui /\ "req" \in DOMAIN ui)
  /\ (Whole(ManageSubmit)' <=> "busy" \in DOMAIN ui' /\ "req" \in DOMAIN ui')
  /\ \A op, arg, f : Holds(ManageSubmit, op, arg, f) <=> op \in {"upload", "seo"} /\ arg[1] = f
<1>1. Shown(ManageSubmit) = (IF "submit" \in ui.busy THEN {ui.req} ELSE {})
        /\ Shown(ManageSubmit)' = (IF "submit" \in ui'.busy THEN {ui'.req} ELSE {})
  BY DEF Shown, FlagsOf, ManageSubmit
<1>2. (Whole(ManageSubmit) <=> "busy" \in DOMAIN ui /\ "req" \in DOMAIN ui)
        /\ (Whole(ManageSubmit)' <=> "busy" \in DOMAIN ui' /\ "req" \in DOMAIN ui')
  BY DEF Whole, FieldsOf, ManageSubmit
<1>3. \A op, arg, f : Holds(ManageSubmit, op, arg, f) <=> op \in {"upload", "seo"} /\ arg[1] = f
  BY DEF Holds, ManageSubmit
<1> QED
  BY <1>1, <1>2, <1>3

LEMMA ManageSubmitStep ==
  ASSUME Steady("manage", ManageSubmit), Library!ManageNext
  PROVE  Steady("manage", ManageSubmit)'
<1> DEFINE Inv == Steady("manage", ManageSubmit)
<1>1. page = <<"manage", "mounted">> /\ Whole(ManageSubmit)
  BY DEF Steady, Library!ManageNext, Library!On
<1>set. UNCHANGED <<page, net>> /\ Fades(ManageSubmit) => Inv'
  BY <1>1, SetSteady
<1>call. \A op, arg : net' = Library!Add(net, op, arg) /\ UNCHANGED page
          /\ Begun(ManageSubmit, op, arg) => Inv'
  BY <1>1, CallSteady, LibraryOps
<1>twice. \A o, x, op, arg : net' = Library!Add(Library!Add(net, o, x), op, arg) /\ UNCHANGED page
          /\ Begun(ManageSubmit, op, arg) => Inv'
  BY <1>1, TwiceSteady, LibraryOps
<1>done. \A r \in net : net' = net \ {r} /\ UNCHANGED page /\ Closed(ManageSubmit, r) => Inv'
  BY <1>1, DoneSteady
<1>goes. \A r \in net : \A op, arg :
          net' = Library!Onward(r, op, arg) /\ UNCHANGED page /\ r.rep # None
          /\ Handed(ManageSubmit, r, op, arg) => Inv'
  BY <1>1, GoesSteady, LibraryOps
<1>answer. \A r \in net : \A ok, val : net' = Library!Reply(r, ok, val)
          /\ UNCHANGED <<page, ui, atom>> => Inv'
  BY ReplySteady, LibraryOps
<1>away. page' = <<"manage", "away">> /\ (net' = {} \/ net' = Library!Orphaned) => Inv'
  BY AwaySteady, GoneRequests, LibraryOps DEF Steady
<1> USE <1>1, ManageSubmitRule
<1>2. Library!pageUpdated => Inv'
  BY <1>set DEF Library!pageUpdated, Library!FormOf, Fades
<1>3. \A t : Library!setTab(t) => Inv'
  BY <1>set DEF Library!setTab, Library!Set, Fades
<1>4. Library!editSEO => Inv'
  BY <1>set DEF Library!editSEO, Library!Set, Fades
<1>5. Library!editSEOImage => Inv'
  BY <1>set DEF Library!editSEOImage, Library!Imaged, Library!Set, Fades
<1>6. Library!clearSEOImage => Inv'
  BY <1>set DEF Library!clearSEOImage, Library!Imaged, Library!Set, Fades
<1>7. Library!selectUpload => Inv'
  BY <1>set DEF Library!selectUpload, Library!Imaged, Library!Set, Fades
<1>8. Library!automaticSEO => Inv'
  BY <1>set DEF Library!automaticSEO, Library!Set, Fades
<1>9. Library!submitSEO => Inv'
  <2> SUFFICES ASSUME Library!submitSEO PROVE Inv'
    OBVIOUS
  <2>1. ASSUME NEW op \in {"upload", "seo"},
               ui' = Library!Busy(ui, "submit")
                 /\ net' = Library!Add(net, op, <<ui.req, ui.text, ui.img>>) /\ UNCHANGED page
        PROVE  Inv'
    BY <2>1, <1>call DEF Begun, Library!Busy
  <2> QED
    BY <2>1 DEF Library!submitSEO, Library!submits, Library!Submission
<1>10. \A f : Library!chooseSEOFile(f) => Inv'
  BY <1>set DEF Library!chooseSEOFile, Library!Imaged, Library!Set, Fades
<1>11. Library!openOwnerPicker => Inv'
  <2> SUFFICES ASSUME Library!openOwnerPicker PROVE Inv'
    OBVIOUS
  <2>1. ASSUME NEW op \in {"upload", "seo"},
               ui' = Library!Busy(Library!Open(ui, "owner"), "submit")
                 /\ net' = Library!Add(net, op, <<ui.req, ui.text, ui.img>>) /\ UNCHANGED page
        PROVE  Inv'
    BY <2>1, <1>call DEF Begun, Library!Busy, Library!Open
  <2> QED
    BY <2>1 DEF Library!openOwnerPicker, Library!submits, Library!Submission
<1>12. Library!openEditorPicker => Inv'
  <2> SUFFICES ASSUME Library!openEditorPicker PROVE Inv'
    OBVIOUS
  <2>1. ASSUME NEW op \in {"upload", "seo"},
               ui' = Library!Busy(Library!Open(ui, "editors"), "submit")
                 /\ net' = Library!Add(net, op, <<ui.req, ui.text, ui.img>>) /\ UNCHANGED page
        PROVE  Inv'
    BY <2>1, <1>call DEF Begun, Library!Busy, Library!Open
  <2> QED
    BY <2>1 DEF Library!openEditorPicker, Library!submits, Library!Submission
<1>13. Library!handleClearOwner => Inv'
  <2> SUFFICES ASSUME Library!handleClearOwner PROVE Inv'
    OBVIOUS
  <2>1. ASSUME NEW op \in {"upload", "seo"},
               ui' = Library!Busy(ui, "submit")
                 /\ net' = Library!Add(Library!Add(net, "owner", << 0 >>), op,
                       <<ui.req, ui.text, ui.img>>) /\ UNCHANGED page
        PROVE  Inv'
    BY <2>1, <1>twice DEF Begun, Library!Busy
  <2> QED
    BY <2>1 DEF Library!handleClearOwner, Library!submits, Library!Submission
<1>14. \A f : Library!closePickers(f) => Inv'
  BY <1>set DEF Library!closePickers, Library!Set, Fades, Library!Close
<1>15. \A u : Library!handleSetOwner(u) => Inv'
  BY <1>call DEF Library!handleSetOwner, Library!Write, Library!Call, Begun
<1>16. \A u : Library!handleAddEditor(u) => Inv'
  BY <1>call DEF Library!handleAddEditor, Library!Write, Library!Call, Begun
<1>17. \A u : Library!handleRemoveEditor(u) => Inv'
  <2> SUFFICES ASSUME NEW u, Library!handleRemoveEditor(u) PROVE Inv'
    OBVIOUS
  <2>1. ASSUME NEW op \in {"upload", "seo"},
               ui' = Library!Busy(ui, "submit")
                 /\ net' = Library!Add(Library!Add(net, "remove", <<u>>), op,
                       <<ui.req, ui.text, ui.img>>) /\ UNCHANGED page
        PROVE  Inv'
    BY <2>1, <1>twice DEF Begun, Library!Busy
  <2> QED
    BY <2>1 DEF Library!handleRemoveEditor, Library!submits, Library!Submission
<1>18. \A r \in net : Library!gotPage(r) => Inv'
  <2> SUFFICES ASSUME NEW r \in net, Library!gotPage(r) PROVE Inv'
    OBVIOUS
  <2>1. r.op = "page"
    BY DEF Library!gotPage, Library!FormOf, Library!Replied
  <2>2. \A d : LET u == Library!Panel(ui, d) IN u.busy = ui.busy /\ u.req = ui.req
          /\ {"busy", "req"} \subseteq DOMAIN u
    BY DEF Library!Panel, Library!FormOf
  <2>3. ASSUME Library!Done(r, ui) PROVE Inv'
    BY <2>1, <2>2, <2>3, <1>done DEF Library!Done, Library!Reach, Closed, Spent
  <2>4. ASSUME page' = <<"manage", "away">> /\ net' = {} PROVE Inv'
    BY <2>1, <2>2, <2>4, <1>away
  <2>5. ASSUME NEW d, Library!Done(r, Library!Idle(Library!Panel(ui, d), "load")) PROVE Inv'
    BY <2>1, <2>2, <2>5, <1>done DEF Library!Done, Library!Reach, Closed, Spent, Library!Idle
  <2>6. ASSUME Library!Done(r, Library!Idle([ui EXCEPT !.doc = None], "load")) PROVE Inv'
    BY <2>1, <2>2, <2>6, <1>done DEF Library!Done, Library!Reach, Closed, Spent, Library!Idle
  <2> QED
    BY <2>2, <2>3, <2>4, <2>5, <2>6
       DEF Library!gotPage, Library!FormOf, Library!Replied, Library!Quit
<1>19. \A r \in net : Library!seoUploaded(r) => Inv'
  BY <1>done, <1>goes
     DEF Library!seoUploaded, Library!seoFailed, Library!Done, Library!Reach, Library!Goes,
         Closed, Spent, Handed, Library!Idle, Library!Replied
<1>20. \A r \in net : Library!seoSaved(r) => Inv'
  BY <1>done, <1>away
     DEF Library!seoSaved, Library!seoFailed, Library!Done, Library!Reach, Library!Quit, Closed,
         Spent, Library!Idle, Library!Replied
<1>21. \A r \in net : Library!accessChanged(r) => Inv'
  <2> SUFFICES ASSUME NEW r \in net, Library!accessChanged(r) PROVE Inv'
    OBVIOUS
  <2>1. r.op \in {"owner", "add", "remove"} /\ r.rep # None
    BY DEF Library!accessChanged, Library!refreshed, Library!Replied
  <2>2. ASSUME Library!Done(r, ui) PROVE Inv'
    BY <2>1, <2>2, <1>done DEF Library!Done, Library!Reach, Closed, Spent
  <2>3. ASSUME Library!Goes(r, [ui EXCEPT !.busy = {"load"}, !.req = @ + 1], "page",
               <<ui.req + 1>>)
        PROVE  Inv'
    BY <2>1, <2>3, <1>goes DEF Library!Goes, Library!Reach, Handed, Spent
  <2> QED
    BY <2>2, <2>3 DEF Library!accessChanged, Library!refreshed, Library!Replied
<1>22. \A r \in net : Library!ManageServer(r) => Inv'
  <2> SUFFICES ASSUME NEW r \in net, Library!ManageServer(r) PROVE Inv'
    OBVIOUS
  <2>1. ASSUME NEW d, NEW v, NEW ps, Library!AnswerPush(r, d, v, ps) PROVE Inv'
    BY <1>answer, <2>1 DEF Library!AnswerPush
  <2> QED
    BY <2>1 DEF Library!ManageServer, Library!Read, Library!Answer
<1> QED
  BY <1>2, <1>3, <1>4, <1>5, <1>6, <1>7, <1>8, <1>9, <1>10, <1>11, <1>12, <1>13, <1>14, <1>15,
         <1>16, <1>17, <1>18, <1>19, <1>20, <1>21, <1>22, <1>set
     DEF Library!ManageNext, Library!Changes, Fades

ManageFlags == <<"none", {}, {"load", "submit"}>>

LEMMA ManageFlagsRule ==
  /\ Shown(ManageFlags) = ui.busy \ {"load", "submit"}
  /\ Shown(ManageFlags)' = ui'.busy \ {"load", "submit"}
  /\ (Whole(ManageFlags) <=> "busy" \in DOMAIN ui)
  /\ (Whole(ManageFlags)' <=> "busy" \in DOMAIN ui')
  /\ \A op, arg, f : Holds(ManageFlags, op, arg, f) <=> FALSE
<1>1. Shown(ManageFlags) = ui.busy \ {"load", "submit"}
        /\ Shown(ManageFlags)' = ui'.busy \ {"load", "submit"}
  BY DEF Shown, FlagsOf, ManageFlags
<1>2. (Whole(ManageFlags) <=> "busy" \in DOMAIN ui)
        /\ (Whole(ManageFlags)' <=> "busy" \in DOMAIN ui')
  BY DEF Whole, FieldsOf, ManageFlags
<1>3. \A op, arg, f : Holds(ManageFlags, op, arg, f) <=> FALSE
  BY DEF Holds, ManageFlags
<1> QED
  BY <1>1, <1>2, <1>3

LEMMA ManageFlagsStep ==
  ASSUME Steady("manage", ManageFlags), Library!ManageNext
  PROVE  Steady("manage", ManageFlags)'
<1> DEFINE Inv == Steady("manage", ManageFlags)
<1>1. page = <<"manage", "mounted">> /\ Whole(ManageFlags)
  BY DEF Steady, Library!ManageNext, Library!On
<1>set. UNCHANGED <<page, net>> /\ Fades(ManageFlags) => Inv'
  BY <1>1, SetSteady
<1>call. \A op, arg : net' = Library!Add(net, op, arg) /\ UNCHANGED page
          /\ Begun(ManageFlags, op, arg) => Inv'
  BY <1>1, CallSteady, LibraryOps
<1>twice. \A o, x, op, arg : net' = Library!Add(Library!Add(net, o, x), op, arg) /\ UNCHANGED page
          /\ Begun(ManageFlags, op, arg) => Inv'
  BY <1>1, TwiceSteady, LibraryOps
<1>done. \A r \in net : net' = net \ {r} /\ UNCHANGED page /\ Closed(ManageFlags, r) => Inv'
  BY <1>1, DoneSteady
<1>goes. \A r \in net : \A op, arg :
          net' = Library!Onward(r, op, arg) /\ UNCHANGED page /\ r.rep # None
          /\ Handed(ManageFlags, r, op, arg) => Inv'
  BY <1>1, GoesSteady, LibraryOps
<1>answer. \A r \in net : \A ok, val : net' = Library!Reply(r, ok, val)
          /\ UNCHANGED <<page, ui, atom>> => Inv'
  BY ReplySteady, LibraryOps
<1>away. page' = <<"manage", "away">> /\ (net' = {} \/ net' = Library!Orphaned) => Inv'
  BY AwaySteady, GoneRequests, LibraryOps DEF Steady
<1> USE <1>1, ManageFlagsRule
<1>2. Library!pageUpdated => Inv'
  BY <1>set DEF Library!pageUpdated, Library!FormOf, Fades
<1>3. \A t : Library!setTab(t) => Inv'
  BY <1>set DEF Library!setTab, Library!Set, Fades
<1>4. Library!editSEO => Inv'
  BY <1>set DEF Library!editSEO, Library!Set, Fades
<1>5. Library!editSEOImage => Inv'
  BY <1>set DEF Library!editSEOImage, Library!Imaged, Library!Set, Fades
<1>6. Library!clearSEOImage => Inv'
  BY <1>set DEF Library!clearSEOImage, Library!Imaged, Library!Set, Fades
<1>7. Library!selectUpload => Inv'
  BY <1>set DEF Library!selectUpload, Library!Imaged, Library!Set, Fades
<1>8. Library!automaticSEO => Inv'
  BY <1>set DEF Library!automaticSEO, Library!Set, Fades
<1>9. Library!submitSEO => Inv'
  <2> SUFFICES ASSUME Library!submitSEO PROVE Inv'
    OBVIOUS
  <2>1. ASSUME NEW op \in {"upload", "seo"},
               ui' = Library!Busy(ui, "submit")
                 /\ net' = Library!Add(net, op, <<ui.req, ui.text, ui.img>>) /\ UNCHANGED page
        PROVE  Inv'
    BY <2>1, <1>call DEF Begun, Library!Busy
  <2> QED
    BY <2>1 DEF Library!submitSEO, Library!submits, Library!Submission
<1>10. \A f : Library!chooseSEOFile(f) => Inv'
  BY <1>set DEF Library!chooseSEOFile, Library!Imaged, Library!Set, Fades
<1>11. Library!openOwnerPicker => Inv'
  <2> SUFFICES ASSUME Library!openOwnerPicker PROVE Inv'
    OBVIOUS
  <2>1. ASSUME NEW op \in {"upload", "seo"},
               ui' = Library!Busy(Library!Open(ui, "owner"), "submit")
                 /\ net' = Library!Add(net, op, <<ui.req, ui.text, ui.img>>) /\ UNCHANGED page
        PROVE  Inv'
    BY <2>1, <1>call DEF Begun, Library!Busy, Library!Open
  <2> QED
    BY <2>1 DEF Library!openOwnerPicker, Library!submits, Library!Submission
<1>12. Library!openEditorPicker => Inv'
  <2> SUFFICES ASSUME Library!openEditorPicker PROVE Inv'
    OBVIOUS
  <2>1. ASSUME NEW op \in {"upload", "seo"},
               ui' = Library!Busy(Library!Open(ui, "editors"), "submit")
                 /\ net' = Library!Add(net, op, <<ui.req, ui.text, ui.img>>) /\ UNCHANGED page
        PROVE  Inv'
    BY <2>1, <1>call DEF Begun, Library!Busy, Library!Open
  <2> QED
    BY <2>1 DEF Library!openEditorPicker, Library!submits, Library!Submission
<1>13. Library!handleClearOwner => Inv'
  <2> SUFFICES ASSUME Library!handleClearOwner PROVE Inv'
    OBVIOUS
  <2>1. ASSUME NEW op \in {"upload", "seo"},
               ui' = Library!Busy(ui, "submit")
                 /\ net' = Library!Add(Library!Add(net, "owner", << 0 >>), op,
                       <<ui.req, ui.text, ui.img>>) /\ UNCHANGED page
        PROVE  Inv'
    BY <2>1, <1>twice DEF Begun, Library!Busy
  <2> QED
    BY <2>1 DEF Library!handleClearOwner, Library!submits, Library!Submission
<1>14. \A f : Library!closePickers(f) => Inv'
  BY <1>set DEF Library!closePickers, Library!Set, Fades, Library!Close
<1>15. \A u : Library!handleSetOwner(u) => Inv'
  BY <1>call DEF Library!handleSetOwner, Library!Write, Library!Call, Begun
<1>16. \A u : Library!handleAddEditor(u) => Inv'
  BY <1>call DEF Library!handleAddEditor, Library!Write, Library!Call, Begun
<1>17. \A u : Library!handleRemoveEditor(u) => Inv'
  <2> SUFFICES ASSUME NEW u, Library!handleRemoveEditor(u) PROVE Inv'
    OBVIOUS
  <2>1. ASSUME NEW op \in {"upload", "seo"},
               ui' = Library!Busy(ui, "submit")
                 /\ net' = Library!Add(Library!Add(net, "remove", <<u>>), op,
                       <<ui.req, ui.text, ui.img>>) /\ UNCHANGED page
        PROVE  Inv'
    BY <2>1, <1>twice DEF Begun, Library!Busy
  <2> QED
    BY <2>1 DEF Library!handleRemoveEditor, Library!submits, Library!Submission
<1>18. \A r \in net : Library!gotPage(r) => Inv'
  <2> SUFFICES ASSUME NEW r \in net, Library!gotPage(r) PROVE Inv'
    OBVIOUS
  <2>1. r.op = "page"
    BY DEF Library!gotPage, Library!FormOf, Library!Replied
  <2>2. \A d : LET u == Library!Panel(ui, d) IN u.busy = ui.busy /\ "busy" \in DOMAIN u
    BY DEF Library!Panel, Library!FormOf
  <2>3. ASSUME Library!Done(r, ui) PROVE Inv'
    BY <2>1, <2>2, <2>3, <1>done DEF Library!Done, Library!Reach, Closed, Spent
  <2>4. ASSUME page' = <<"manage", "away">> /\ net' = {} PROVE Inv'
    BY <2>1, <2>2, <2>4, <1>away
  <2>5. ASSUME NEW d, Library!Done(r, Library!Idle(Library!Panel(ui, d), "load")) PROVE Inv'
    BY <2>1, <2>2, <2>5, <1>done DEF Library!Done, Library!Reach, Closed, Spent, Library!Idle
  <2>6. ASSUME Library!Done(r, Library!Idle([ui EXCEPT !.doc = None], "load")) PROVE Inv'
    BY <2>1, <2>2, <2>6, <1>done DEF Library!Done, Library!Reach, Closed, Spent, Library!Idle
  <2> QED
    BY <2>2, <2>3, <2>4, <2>5, <2>6
       DEF Library!gotPage, Library!FormOf, Library!Replied, Library!Quit
<1>19. \A r \in net : Library!seoUploaded(r) => Inv'
  BY <1>done, <1>goes
     DEF Library!seoUploaded, Library!seoFailed, Library!Done, Library!Reach, Library!Goes,
         Closed, Spent, Handed, Library!Idle, Library!Replied
<1>20. \A r \in net : Library!seoSaved(r) => Inv'
  BY <1>done, <1>away
     DEF Library!seoSaved, Library!seoFailed, Library!Done, Library!Reach, Library!Quit, Closed,
         Spent, Library!Idle, Library!Replied
<1>21. \A r \in net : Library!accessChanged(r) => Inv'
  <2> SUFFICES ASSUME NEW r \in net, Library!accessChanged(r) PROVE Inv'
    OBVIOUS
  <2>1. r.op \in {"owner", "add", "remove"} /\ r.rep # None
    BY DEF Library!accessChanged, Library!refreshed, Library!Replied
  <2>2. ASSUME Library!Done(r, ui) PROVE Inv'
    BY <2>1, <2>2, <1>done DEF Library!Done, Library!Reach, Closed, Spent
  <2>3. ASSUME Library!Goes(r, [ui EXCEPT !.busy = {"load"}, !.req = @ + 1], "page",
               <<ui.req + 1>>)
        PROVE  Inv'
    BY <2>1, <2>3, <1>goes DEF Library!Goes, Library!Reach, Handed, Spent
  <2> QED
    BY <2>2, <2>3 DEF Library!accessChanged, Library!refreshed, Library!Replied
<1>22. \A r \in net : Library!ManageServer(r) => Inv'
  <2> SUFFICES ASSUME NEW r \in net, Library!ManageServer(r) PROVE Inv'
    OBVIOUS
  <2>1. ASSUME NEW d, NEW v, NEW ps, Library!AnswerPush(r, d, v, ps) PROVE Inv'
    BY <1>answer, <2>1 DEF Library!AnswerPush
  <2> QED
    BY <2>1 DEF Library!ManageServer, Library!Read, Library!Answer
<1> QED
  BY <1>2, <1>3, <1>4, <1>5, <1>6, <1>7, <1>8, <1>9, <1>10, <1>11, <1>12, <1>13, <1>14, <1>15,
         <1>16, <1>17, <1>18, <1>19, <1>20, <1>21, <1>22, <1>set
     DEF Library!ManageNext, Library!Changes, Fades

LibrarySteady ==
    \/ FlagsHeld("trash", TrashHolds)
    \/ FlagsHeld("docSettings", SettingsHolds)
    \/ FlagsHeld("guide", GuideHolds)
    \/ FlagsHeld("sourceList", SourceListHolds)
    \/ /\ Steady("manage", ManageLoad)
       /\ Steady("manage", ManageSubmit)
       /\ Steady("manage", ManageFlags)
    \/ FlagsHeld("meta", MetaHolds)
    \/ Steady("picker", PickerTimer)
    \/ Steady("files", FilesPicker) /\ Steady("files", FilesNow)
    \/ FlagsHeld("badge", BadgeHolds)
    \/ FlagsHeld("reset", ResetHolds)

LEMMA LibraryBegins ==
  ASSUME Library!TrashInit \/ Library!SettingsInit \/ Library!GuideInit
         \/ Library!SourceListInit
         \/ Library!ManageInit \/ Library!MetaInit \/ Library!PickerInit \/ Library!FilesInit
         \/ Library!BadgeInit \/ Library!ResetInit
  PROVE  LibrarySteady
<1>1. CASE Library!TrashInit
  <2>1. FlagsHeld("trash", TrashHolds)
    BY <1>1, BornHeld, LibraryOps DEF Library!TrashInit, Library!Begins, TrashHolds
  <2> QED
    BY <2>1 DEF LibrarySteady
<1>2. CASE Library!SettingsInit
  <2>1. FlagsHeld("docSettings", SettingsHolds)
    BY <1>2, BornHeld, LibraryOps DEF Library!SettingsInit, Library!Begins, SettingsHolds
  <2> QED
    BY <2>1 DEF LibrarySteady
<1>3. CASE Library!GuideInit
  <2>1. FlagsHeld("guide", GuideHolds)
    BY <1>3, BornHeld, LibraryOps DEF Library!GuideInit, Library!Begins, GuideHolds
  <2> QED
    BY <2>1 DEF LibrarySteady
<1>4. CASE Library!SourceListInit
  <2>1. FlagsHeld("sourceList", SourceListHolds)
    BY <1>4, BornHeld, LibraryOps DEF Library!SourceListInit, Library!Begins, SourceListHolds
  <2> QED
    BY <2>1 DEF LibrarySteady
<1>5. CASE Library!ManageInit
  <2>1. Steady("manage", ManageLoad)
    BY <1>5, BornSteady, ManageLoadRule, LibraryOps DEF Library!ManageInit, Library!Begins
  <2>2. Steady("manage", ManageSubmit)
    BY <1>5, BornSteady, ManageSubmitRule, LibraryOps DEF Library!ManageInit, Library!Begins
  <2>3. Steady("manage", ManageFlags)
    BY <1>5, BornSteady, ManageFlagsRule, LibraryOps DEF Library!ManageInit, Library!Begins
  <2> QED
    BY <2>1, <2>2, <2>3 DEF LibrarySteady
<1>6. CASE Library!MetaInit
  <2>1. FlagsHeld("meta", MetaHolds)
    BY <1>6, BornHeld, LibraryOps DEF Library!MetaInit, Library!Begins, MetaHolds
  <2> QED
    BY <2>1 DEF LibrarySteady
<1>7. CASE Library!PickerInit
  <2>1. Steady("picker", PickerTimer)
    BY <1>7, BornSteady, PickerTimerRule, LibraryOps DEF Library!PickerInit, Library!Begins
  <2> QED
    BY <2>1 DEF LibrarySteady
<1>8. CASE Library!FilesInit
  <2>1. Steady("files", FilesPicker)
    BY <1>8, BornSteady, FilesPickerRule, LibraryOps DEF Library!FilesInit, Library!Begins
  <2>2. Steady("files", FilesNow)
    BY <1>8, BornSteady, FilesNowRule, LibraryOps DEF Library!FilesInit, Library!Begins
  <2> QED
    BY <2>1, <2>2 DEF LibrarySteady
<1>9. CASE Library!BadgeInit
  <2>1. FlagsHeld("badge", BadgeHolds)
    BY <1>9, BornHeld, LibraryOps DEF Library!BadgeInit, Library!Begins, BadgeHolds
  <2> QED
    BY <2>1 DEF LibrarySteady
<1>10. CASE Library!ResetInit
  <2>1. FlagsHeld("reset", ResetHolds)
    BY <1>10, BornHeld, LibraryOps DEF Library!ResetInit, Library!Begins, ResetHolds
  <2> QED
    BY <2>1 DEF LibrarySteady
<1> QED
  BY <1>1, <1>2, <1>3, <1>4, <1>5, <1>6, <1>7, <1>8, <1>9, <1>10

LEMMA LibraryTurns ==
  ASSUME Next
  PROVE  /\ page[1] = "trash" => Library!TrashNext \/ Fails
         /\ page[1] = "docSettings" => Library!SettingsNext \/ Fails
         /\ page[1] = "guide" => Library!GuideNext \/ Fails
         /\ page[1] = "sourceList" => Library!SourceListNext \/ Fails
         /\ page[1] = "manage" => Library!ManageNext \/ Fails
         /\ page[1] = "meta" => Library!MetaNext \/ Fails
         /\ page[1] = "picker" => Library!PickerNext \/ Fails
         /\ page[1] = "files" => Library!FilesNext \/ Fails
         /\ page[1] = "badge" => Library!BadgeNext \/ Fails
         /\ page[1] = "reset" => Library!ResetNext \/ Fails
<1>1. Library!TrashNext => page[1] = "trash"
  BY DEF Library!TrashNext, Library!On
<1>2. Library!SettingsNext => page[1] = "docSettings"
  BY DEF Library!SettingsNext, Library!On
<1>3. Library!GuideNext => page[1] = "guide"
  BY DEF Library!GuideNext, Library!On
<1>4. Library!SourceListNext => page[1] = "sourceList"
  BY DEF Library!SourceListNext, Library!On
<1>5. Library!ManageNext => page[1] = "manage"
  BY DEF Library!ManageNext, Library!On
<1>6. Library!MetaNext => page[1] = "meta"
  BY DEF Library!MetaNext, Library!On
<1>7. Library!PickerNext => page[1] = "picker"
  BY DEF Library!PickerNext, Library!On
<1>8. Library!FilesNext => page[1] = "files"
  BY DEF Library!FilesNext, Library!On
<1>9. Library!BadgeNext => page[1] = "badge"
  BY DEF Library!BadgeNext, Library!On
<1>10. Library!ResetNext => page[1] = "reset"
  BY DEF Library!ResetNext, Library!On
<1> QED
  BY <1>1, <1>2, <1>3, <1>4, <1>5, <1>6, <1>7, <1>8, <1>9, <1>10 DEF Next

LEMMA LibraryKept ==
  ASSUME LibrarySteady, [Next]_spaVars PROVE LibrarySteady'
<1>1. CASE FlagsHeld("trash", TrashHolds)
  <2>1. page[1] = "trash"
    BY <1>1 DEF FlagsHeld, Steady
  <2>2. CASE Library!TrashNext
    BY <1>1, <2>2, TrashStep DEF LibrarySteady
  <2>3. CASE Fails \/ UNCHANGED spaVars
    BY <1>1, <2>3, FailsSteady DEF FlagsHeld, LibrarySteady
  <2> QED
    BY <2>1, <2>2, <2>3, LibraryTurns
<1>2. CASE FlagsHeld("docSettings", SettingsHolds)
  <2>1. page[1] = "docSettings"
    BY <1>2 DEF FlagsHeld, Steady
  <2>2. CASE Library!SettingsNext
    BY <1>2, <2>2, SettingsStep DEF LibrarySteady
  <2>3. CASE Fails \/ UNCHANGED spaVars
    BY <1>2, <2>3, FailsSteady DEF FlagsHeld, LibrarySteady
  <2> QED
    BY <2>1, <2>2, <2>3, LibraryTurns
<1>3. CASE FlagsHeld("guide", GuideHolds)
  <2>1. page[1] = "guide"
    BY <1>3 DEF FlagsHeld, Steady
  <2>2. CASE Library!GuideNext
    BY <1>3, <2>2, GuideStep DEF LibrarySteady
  <2>3. CASE Fails \/ UNCHANGED spaVars
    BY <1>3, <2>3, FailsSteady DEF FlagsHeld, LibrarySteady
  <2> QED
    BY <2>1, <2>2, <2>3, LibraryTurns
<1>4. CASE FlagsHeld("sourceList", SourceListHolds)
  <2>1. page[1] = "sourceList"
    BY <1>4 DEF FlagsHeld, Steady
  <2>2. CASE Library!SourceListNext
    BY <1>4, <2>2, SourceListStep DEF LibrarySteady
  <2>3. CASE Fails \/ UNCHANGED spaVars
    BY <1>4, <2>3, FailsSteady DEF FlagsHeld, LibrarySteady
  <2> QED
    BY <2>1, <2>2, <2>3, LibraryTurns
<1>5. CASE /\ Steady("manage", ManageLoad)
           /\ Steady("manage", ManageSubmit)
           /\ Steady("manage", ManageFlags)
  <2>1. page[1] = "manage"
    BY <1>5 DEF Steady
  <2>2. CASE Library!ManageNext
    BY <1>5, <2>2, ManageLoadStep, ManageSubmitStep, ManageFlagsStep DEF LibrarySteady
  <2>3. CASE Fails \/ UNCHANGED spaVars
    BY <1>5, <2>3, FailsSteady DEF LibrarySteady
  <2> QED
    BY <2>1, <2>2, <2>3, LibraryTurns
<1>6. CASE FlagsHeld("meta", MetaHolds)
  <2>1. page[1] = "meta"
    BY <1>6 DEF FlagsHeld, Steady
  <2>2. CASE Library!MetaNext
    BY <1>6, <2>2, MetaStep DEF LibrarySteady
  <2>3. CASE Fails \/ UNCHANGED spaVars
    BY <1>6, <2>3, FailsSteady DEF FlagsHeld, LibrarySteady
  <2> QED
    BY <2>1, <2>2, <2>3, LibraryTurns
<1>7. CASE Steady("picker", PickerTimer)
  <2>1. page[1] = "picker"
    BY <1>7 DEF Steady
  <2>2. CASE Library!PickerNext
    BY <1>7, <2>2, PickerTimerStep DEF LibrarySteady
  <2>3. CASE Fails \/ UNCHANGED spaVars
    BY <1>7, <2>3, FailsSteady DEF LibrarySteady
  <2> QED
    BY <2>1, <2>2, <2>3, LibraryTurns
<1>8. CASE Steady("files", FilesPicker) /\ Steady("files", FilesNow)
  <2>1. page[1] = "files"
    BY <1>8 DEF Steady
  <2>2. CASE Library!FilesNext
    BY <1>8, <2>2, FilesPickerStep, FilesNowStep DEF LibrarySteady
  <2>3. CASE Fails \/ UNCHANGED spaVars
    BY <1>8, <2>3, FailsSteady DEF LibrarySteady
  <2> QED
    BY <2>1, <2>2, <2>3, LibraryTurns
<1>9. CASE FlagsHeld("badge", BadgeHolds)
  <2>1. page[1] = "badge"
    BY <1>9 DEF FlagsHeld, Steady
  <2>2. CASE Library!BadgeNext
    BY <1>9, <2>2, BadgeStep DEF LibrarySteady
  <2>3. CASE Fails \/ UNCHANGED spaVars
    BY <1>9, <2>3, FailsSteady DEF FlagsHeld, LibrarySteady
  <2> QED
    BY <2>1, <2>2, <2>3, LibraryTurns
<1>10. CASE FlagsHeld("reset", ResetHolds)
  <2>1. page[1] = "reset"
    BY <1>10 DEF FlagsHeld, Steady
  <2>2. CASE Library!ResetNext
    BY <1>10, <2>2, ResetStep DEF LibrarySteady
  <2>3. CASE Fails \/ UNCHANGED spaVars
    BY <1>10, <2>3, FailsSteady DEF FlagsHeld, LibrarySteady
  <2> QED
    BY <2>1, <2>2, <2>3, LibraryTurns
<1> QED
  BY <1>1, <1>2, <1>3, <1>4, <1>5, <1>6, <1>7, <1>8, <1>9, <1>10 DEF LibrarySteady

LEMMA LibraryEnds == LibrarySteady => SpinnersEnd
<1>1. ASSUME FlagsHeld("trash", TrashHolds) PROVE SpinnersEnd
  BY <1>1, HeldEnds
<1>2. ASSUME FlagsHeld("docSettings", SettingsHolds) PROVE SpinnersEnd
  BY <1>2, HeldEnds
<1>3. ASSUME FlagsHeld("guide", GuideHolds) PROVE SpinnersEnd
  BY <1>3, HeldEnds
<1>4. ASSUME FlagsHeld("sourceList", SourceListHolds) PROVE SpinnersEnd
  BY <1>4, HeldEnds
<1>5. ASSUME Steady("manage", ManageLoad),
             Steady("manage", ManageSubmit),
             Steady("manage", ManageFlags)
      PROVE  SpinnersEnd
  BY <1>5, NothingShown, ManageLoadRule, ManageSubmitRule, ManageFlagsRule
     DEF SpinnersEnd, RowBusy, AwaitsElse
<1>6. ASSUME FlagsHeld("meta", MetaHolds) PROVE SpinnersEnd
  BY <1>6, HeldEnds
<1>7. ASSUME Steady("picker", PickerTimer) PROVE SpinnersEnd
  BY <1>7, NothingShown, PickerTimerRule DEF SpinnersEnd, RowBusy, AwaitsElse
<1>8. ASSUME Steady("files", FilesPicker), Steady("files", FilesNow) PROVE SpinnersEnd
  BY <1>8, NothingShown, FilesPickerRule, FilesNowRule DEF SpinnersEnd, RowBusy, AwaitsElse
<1>9. ASSUME FlagsHeld("badge", BadgeHolds) PROVE SpinnersEnd
  BY <1>9, HeldEnds
<1>10. ASSUME FlagsHeld("reset", ResetHolds) PROVE SpinnersEnd
  BY <1>10, HeldEnds
<1> QED
  BY <1>1, <1>2, <1>3, <1>4, <1>5, <1>6, <1>7, <1>8, <1>9, <1>10 DEF LibrarySteady

-----------------------------------------------------------------------------
(* Every behaviour is one page's.                                          *)

Spinning ==
    \/ AccountSteady \/ AdminSteady \/ ContentSteady \/ ForumSteady \/ ShellSteady
    \/ StoreSteady \/ MeetingSteady \/ RtcSteady \/ SectionSteady \/ GrengoSteady
    \/ EditorSteady \/ InboxSteady \/ LibrarySteady

LEMMA SpinningBegins == Init => Spinning
BY AccountBegins, AdminBegins, ContentBegins, ForumBegins, ShellBegins, StoreBegins,
   MeetingBegins,
   RtcBegins, SectionBegins, GrengoBegins, EditorBegins, InboxBegins, LibraryBegins
   DEF Init, Spinning

LEMMA SpinningKept == Spinning /\ [Next]_spaVars => Spinning'
BY AccountKept, AdminKept, ContentKept, ForumKept, ShellKept, StoreKept, MeetingKept, RtcKept,
   SectionKept, GrengoKept, EditorKept, InboxKept, LibraryKept
   DEF Spinning

LEMMA SpinningEnds == Spinning => SpinnersEnd
BY AccountEnds, AdminEnds, ContentEnds, ForumEnds, ShellEnds, StoreEnds, MeetingEnds, RtcEnds,
   SectionEnds, GrengoEnds, EditorEnds, InboxEnds, LibraryEnds
   DEF Spinning

\* No page is left loading, saving or busy with a row when nothing is on its way any
\* more that would end it (the finally blocks of every page component's handlers):
\* whatever the bounds, and however replies, failures, aborted requests and overtaken
\* selections interleave.
THEOREM EveryPageSettles == Spec => []SpinnersEnd
<1>1. Init => Spinning
  BY SpinningBegins
<1>2. Spinning /\ [Next]_spaVars => Spinning'
  BY SpinningKept
<1>3. Spinning => SpinnersEnd
  BY SpinningEnds
<1> QED
  BY <1>1, <1>2, <1>3, PTL DEF Spec
=============================================================================
