----------------------------- MODULE ShellPages -----------------------------
(***************************************************************************)
(* What surrounds every page: page "uploader" is the UploadManager and     *)
(* GlobalUploader, "session" Layout's gates, session check and the user's  *)
(* own pushes, "signin" Auth and MFAChallenge, "recovery" the recovery     *)
(* requests, "bell" the notifications, "drawer" the app drawer.            *)
(***************************************************************************)
EXTENDS Spa

-----------------------------------------------------------------------------
(* Chunked uploads.  Job "a" is a file chosen here, which may be a message *)
(* of a conversation; job "u" is the same upload as an earlier visit left  *)
(* it, listed by the server, without its file.  The server knows a file by *)
(* its fingerprint, so both go to one upload.  A worker is its chunk       *)
(* request: <<job, run, chunk>>.                                           *)

Jobs == {"a", "u"}
Chunks == 0..1
UploadWorkers == 2      \* bound: workers of a run (4 in the code)
MaxUploadRuns == 2      \* bound: runs started
UploadFlight == MaxFlight + 1
Least(S) == CHOOSE x \in S : \A y \in S : x <= y

UploaderInit ==
    \E conv, left \in BOOLEAN :
        Begins("uploader", [busy |-> {}, on |-> {}],
               [queue |-> <<>>, job |-> [j \in Jobs |-> [status |-> "none", done |-> {}, file |-> j = "a"]],
                active |-> 0, run |-> 0, cur |-> 0, next |-> <<>>, prom |-> "none", cleanup |-> {}, conv |-> conv],
               IF left THEN Add({}, "incomplete", <<"u", 0, 0>>) ELSE {}, [n |-> 0, there |-> left, chunks |-> IF left THEN {0} ELSE {}])

Queued(a) == {i \in DOMAIN a.queue : a.job[a.queue[i]].status = "queued"}
\* processQueue: unless an upload is active the first queued job is started.
processQueue(u, a, n) ==
    /\ ui' = u /\ UNCHANGED <<page, db, subs, push>>
    /\ IF a.active = 1 \/ Queued(a) = {} THEN atom' = a /\ net' = n
       ELSE LET j == a.queue[Least(Queued(a))] IN
            /\ a.run < MaxUploadRuns /\ Cardinality(n) < UploadFlight
            /\ atom' = [a EXCEPT !.active = 1, !.run = @ + 1, !.cur = a.run + 1, !.next = Append(@, 0), !.job[j].status = "initializing"]
            /\ net' = Add(n, "init", <<j, a.run + 1, 0>>)
settled(a, j, how) == IF j = "a" /\ a.prom = "pending" THEN [a EXCEPT !.prom = how] ELSE a
\* A mutant of finishRun: the next job of the queue is not started.
finishRunOnly(a, j, n) ==
    /\ atom' = [a EXCEPT !.active = 0, !.cur = 0] /\ net' = n
    /\ UNCHANGED <<page, ui, db, subs, push>>
\* The finally of a run: completed jobs are cleaned up after three seconds.
finishRun(a, j, n) ==
    processQueue(ui, [a EXCEPT !.active = 0, !.cur = 0, !.cleanup = IF a.job[j].status \in {"error", "paused"} THEN @ ELSE @ \cup {j}], n)
failRun(a, j, n) == finishRun(settled([a EXCEPT !.job[j].status = "error"], j, "rejected"), j, n)
\* Workers of run k take the next chunks that are not done.
Left(a, j, k) == {i \in Chunks : i >= a.next[k] /\ i \notin a.job[j].done}
taken(a, j, k, w) == {i \in Left(a, j, k) : Cardinality({x \in Left(a, j, k) : x < i}) < w}
advanced(a, j, k, w) ==
    [a EXCEPT !.next[k] = IF Cardinality(Left(a, j, k)) <= w THEN Cardinality(Chunks) ELSE 1 + CHOOSE x \in taken(a, j, k, w) : \A y \in taken(a, j, k, w) : y <= x]
Asked(n, j, k, S) == n \cup {[id |-> 1, op |-> "chunk", arg |-> <<j, k, i>>, live |-> TRUE, rep |-> None] : i \in S}
Working(n, k) == \E q \in n : q.op = "chunk" /\ q.arg[2] = k
\* Promise.all of the run's workers has resolved.
workersDone(a, j, k, n) ==
    CASE a.job[j].status = "paused" -> finishRun(a, j, n)
      [] a.job[j].status = "error" -> failRun(a, j, n)
      [] OTHER -> /\ ui' = ui /\ atom' = [a EXCEPT !.job[j].status = "rebuilding"]
                  /\ net' = Add(n, "complete", <<j, k, 0>>) /\ UNCHANGED <<page, db, subs, push>>
\* w workers of run k go round their loop, having received what a says.
uploadWorkers(a, j, k, w, n) ==
    LET go == a.job[j].status \notin {"paused", "error"}
        b == IF go THEN advanced(a, j, k, w) ELSE a
        m == IF go THEN Asked(n, j, k, taken(a, j, k, w)) ELSE n
    IN  /\ Cardinality(m) <= UploadFlight
        /\ IF k = a.cur /\ ~Working(m, k) THEN workersDone(b, j, k, m)
           ELSE ui' = ui /\ atom' = b /\ net' = m /\ UNCHANGED <<page, db, subs, push>>
\* A pause made while initializing is overwritten here.
initDone(r) ==
    /\ Replied(r, {"init"})
    /\ LET j == r.arg[1] IN
       IF ~r.rep.ok THEN failRun(atom, j, net \ {r})
       ELSE uploadWorkers([atom EXCEPT !.job[j].status = "uploading", !.job[j].done = r.rep.val], j, r.arg[2], UploadWorkers, net \ {r})
\* Workers of a failed run go on; their outcome is taken like any other.
chunkDone(r) ==
    /\ Replied(r, {"chunk"})
    /\ LET j == r.arg[1]
           k == r.arg[2]
           n == net \ {r}
       IN  IF r.rep.ok
           THEN uploadWorkers(IF atom.job[j].status = "paused" THEN atom ELSE [atom EXCEPT !.job[j].done = @ \cup {r.arg[3]}], j, k, 1, n)
           ELSE IF k = atom.cur THEN failRun(atom, j, n) ELSE DoneAtom(r, ui, [atom EXCEPT !.job[j].status = "error"])
completed(a, j, n) == finishRun(settled([a EXCEPT !.job[j].status = "complete"], j, "resolved"), j, n)
completeDone(r) ==
    /\ Replied(r, {"complete"})
    /\ LET j == r.arg[1] IN
       CASE ~r.rep.ok -> failRun(atom, j, net \ {r})
         [] r.rep.ok /\ j = "a" /\ atom.conv -> Goes(r, ui, "inbox", r.arg)
         [] OTHER -> completed(atom, j, net \ {r})
inboxSent(r) == Replied(r, {"inbox"}) /\ completed(atom, r.arg[1], net \ {r})
\* A job is in the queue once: filtered by its id, the queue lacks its place.
Unlisted(q, j) ==
    LET at == CHOOSE i \in DOMAIN q : q[i] = j IN
    IF j \in {q[i] : i \in DOMAIN q} THEN SubSeq(q, 1, at - 1) \o SubSeq(q, at + 1, Len(q)) ELSE q
cleanupJob(j) ==
    /\ j \in atom.cleanup
    /\ SetAtom(ui, [atom EXCEPT !.cleanup = @ \ {j}, !.queue = Unlisted(@, j)])

InQueue(j) == \E i \in DOMAIN atom.queue : atom.queue[i] = j
upload ==
    /\ atom.job["a"].status = "none"
    /\ processQueue(ui, [atom EXCEPT !.queue = Append(@, "a"), !.job["a"].status = "queued", !.prom = "pending"], net)
loadIncompleteUploads(r) ==
    /\ Replied(r, {"incomplete"})
    /\ DoneAtom(r, ui, IF ~r.rep.ok \/ r.rep.val = {} \/ InQueue("u") THEN atom
                       ELSE [atom EXCEPT !.queue = Append(@, "u"), !.job["u"] = [status |-> "error", done |-> r.rep.val, file |-> FALSE]])
doRetry(a, j, u) == processQueue(u, [a EXCEPT !.job[j].status = "queued"], net)
\* retryUpload: a job without its file opens a chooser; what is chosen there
\* is taken whatever has become of the job.
retryUpload(j) ==
    IF atom.job[j].file THEN doRetry(atom, j, ui) ELSE "chooser" \notin ui.on /\ Set(Open(ui, "chooser"))
fileChosen(same) ==
    /\ "chooser" \in ui.on
    /\ IF same THEN doRetry([atom EXCEPT !.job["u"].file = TRUE], "u", Close(ui, "chooser")) ELSE Set(Close(ui, "chooser"))
\* Its promise is forgotten unsettled; only a server's id names an upload there.
removeUpload(j) ==
    CallAtom(ui, [atom EXCEPT !.queue = Unlisted(@, j), !.prom = IF j = "a" /\ @ = "pending" THEN "lost" ELSE @], "remove", <<j, 0, 0>>)
removeDone(r) == Replied(r, {"remove"}) /\ Done(r, ui)
Pausable == {"queued", "initializing", "uploading"}
pauseUpload(j) == SetAtom(ui, [atom EXCEPT !.job[j].status = "paused"])
resumeUpload(j) == IF atom.job[j].file THEN doRetry(atom, j, ui) ELSE SetAtom(ui, [atom EXCEPT !.job[j].status = "error"])
pauseAll == SetAtom(ui, [atom EXCEPT !.job = [j \in Jobs |-> IF InQueue(j) /\ @[j].status \in Pausable THEN [@[j] EXCEPT !.status = "paused"] ELSE @[j]]])
resumeAll ==
    LET back(j) == InQueue(j) /\ atom.job[j].status \in {"paused", "error"}
        a == [atom EXCEPT !.job = [j \in Jobs |->
                 IF back(j) THEN [atom.job[j] EXCEPT !.status = IF atom.job[j].file THEN "queued" ELSE "error"] ELSE atom.job[j]]]
    IN  a # atom /\ processQueue(ui, a, net)

\* GlobalUploader and its JobItems: what there is to click.
ActiveJobs == {j \in Jobs : InQueue(j) /\ atom.job[j].status \in Pausable \cup {"error", "paused"}}
UploadManagerView ==
    IF atom.queue = <<>> THEN {}
    ELSE {"minimize"} \cup (IF \E j \in ActiveJobs : atom.job[j].status \in Pausable THEN {"pauseAll"} ELSE {})
         \cup (IF \E j \in ActiveJobs : atom.job[j].status \in {"paused", "error"} THEN {"resumeAll"} ELSE {})
JobItem(j) ==
    IF "minimized" \in ui.on \/ ~InQueue(j) THEN {}
    ELSE CASE atom.job[j].status = "error" -> {"retry", "remove"}
           [] atom.job[j].status = "paused" -> {"resume", "remove"}
           [] atom.job[j].status \in Pausable -> {"pause"}
           [] OTHER -> {}
clickUploads ==
    \/ "minimize" \in UploadManagerView /\ Set(Toggle(ui, "minimized"))
    \/ "pauseAll" \in UploadManagerView /\ pauseAll
    \/ "resumeAll" \in UploadManagerView /\ resumeAll
    \/ \E j \in Jobs : \/ "retry" \in JobItem(j) /\ retryUpload(j)
                       \/ "resume" \in JobItem(j) /\ resumeUpload(j)
                       \/ "pause" \in JobItem(j) /\ pauseUpload(j)
                       \/ "remove" \in JobItem(j) /\ removeUpload(j)

\* Completing with a chunk missing uses up the chunks before it.
UploadServer(r) ==
    \/ r.op = "incomplete" /\ Read(r, IF db.there THEN db.chunks ELSE {})
    \/ r.op = "init" /\ Answer(r, [db EXCEPT !.there = TRUE, !.chunks = IF db.there THEN @ ELSE {}], IF db.there THEN db.chunks ELSE {})
    \/ r.op = "chunk" /\ db.there /\ Answer(r, [db EXCEPT !.chunks = @ \cup {r.arg[3]}], {})
    \/ /\ r.op = "complete" /\ db.there /\ r.rep = None
       /\ IF db.chunks = Chunks THEN Answer(r, [db EXCEPT !.there = FALSE, !.chunks = {}], {})
          ELSE /\ db' = [db EXCEPT !.chunks = {i \in @ : \E x \in Chunks \ @ : x < i}]
               /\ net' = Reply(r, FALSE, None) /\ UNCHANGED <<page, ui, atom, subs, push>>
    \/ r.op = "inbox" /\ Read(r, {})
    \/ r.op = "remove" /\ Answer(r, IF r.arg[1] = "u" THEN [db EXCEPT !.there = FALSE, !.chunks = {}] ELSE db, {})
UploaderNext ==
    /\ On("uploader")
    /\ \/ upload \/ clickUploads \/ fileChosen(TRUE) \/ fileChosen(FALSE)
       \/ (\E j \in Jobs : cleanupJob(j))
       \/ \E r \in net : \/ initDone(r) \/ chunkDone(r) \/ completeDone(r) \/ inboxSent(r) \/ loadIncompleteUploads(r) \/ removeDone(r)
                         \/ UploadServer(r)

\* A queued upload never waits for nothing (uploadAtom.ts processQueue and its
\* finally): while one is queued a run is on whose end starts it, and that run
\* has a reply to wait for, so its end comes.
NoIdleQueue ==
    page[1] = "uploader" =>
        /\ Queued(atom) # {} => atom.active = 1
        /\ atom.active = 1 => \E r \in net : r.op \in {"init", "chunk", "complete", "inbox"} /\ r.arg[2] = atom.cur

-----------------------------------------------------------------------------
(* Layout: the rate-limit and MFA gates, the session check and the pushes  *)
(* to the signed-in user.  A reply is <<outcome, value>>: a profile's      *)
(* value is its version, a 429's the seconds to hold.  ui.left is the      *)
(* holding page's own countdown.                                           *)

SignedOut(a) == [a EXCEPT !.token = FALSE, !.refresh = FALSE, !.user = None]
SessionInit ==
    \E until \in 0..1, signed \in BOOLEAN :
        Begins("session", [busy |-> {}, on |-> {}, hold |-> until, left |-> until, challenge |-> FALSE, roles |-> FALSE, route |-> "web"],
               [token |-> signed, refresh |-> signed, user |-> IF signed THEN 0 ELSE None, until |-> until > 0],
               IF signed THEN Add({}, "refresh", <<"", 0>>) ELSE {}, [n |-> 0, ver |-> 0, there |-> TRUE])
LayoutGate == IF ui.hold > 0 THEN "limited" ELSE IF "mfa" \in ui.on THEN "mfa" ELSE "app"
\* handleRateLimit: the longer hold wins; a holding page already shown keeps
\* the countdown it began with.
handleRateLimit(u, s) ==
    [u EXCEPT !.hold = IF @ < s THEN s ELSE @, !.left = IF u.hold = 0 THEN s ELSE @, !.challenge = s > 1]
Held(a) == [a EXCEPT !.until = TRUE]
Freed(u) == [u EXCEPT !.hold = 0, !.left = 0, !.challenge = FALSE]
holdTicks ==
    /\ ui.hold > 0
    /\ IF ui.hold = 1 THEN SetAtom(Freed(ui), [atom EXCEPT !.until = FALSE]) ELSE Set([ui EXCEPT !.hold = @ - 1])
onCleared(u) == SetAtom(Freed(u), [atom EXCEPT !.until = FALSE])
holdingPageTicks ==
    /\ ui.hold > 0 /\ ui.left > 0
    /\ IF ui.left = 1 THEN onCleared(ui) ELSE Set([ui EXCEPT !.left = @ - 1])
OverrideForm == IF LayoutGate = "limited" /\ ui.challenge /\ "bypass" \notin ui.busy THEN {"bypass"} ELSE {}
handleTotpSubmit == OverrideForm # {} /\ Call(Busy(ui, "bypass"), "bypass", <<"", 0>>)

\* validateSession: the token is renewed, then the profile read; both are
\* taken whoever is signed in by then.
validateSession == atom.token /\ db.n < MaxChanges /\ Call(ui, IF atom.refresh THEN "refresh" ELSE "profile", <<"", 0>>)
refreshed(r) ==
    /\ Replied(r, {"refresh"})
    /\ LET a == IF r.rep.ok /\ r.rep.val[1] = "ok" THEN [atom EXCEPT !.token = TRUE] ELSE IF r.rep.ok /\ r.rep.val[1] = "401" THEN SignedOut(atom) ELSE atom
           limited == r.rep.ok /\ r.rep.val[1] = "429"
       IN  /\ ui' = IF limited THEN handleRateLimit(ui, r.rep.val[2]) ELSE ui
           /\ atom' = IF limited THEN Held(a) ELSE a
           /\ net' = Add(net \ {r}, "profile", <<"", 0>>) /\ UNCHANGED <<page, db, subs, push>>
\* A 401 signs out, an MFA demand shows the challenge, a 429 the hold.
Outcome(r, u, a, ok) ==
    CASE ~r.rep.ok -> DoneAtom(r, u, a)
      [] r.rep.ok /\ r.rep.val[1] = "401" -> DoneAtom(r, u, SignedOut(a))
      [] r.rep.ok /\ r.rep.val[1] = "mfa" -> DoneAtom(r, Open(u, "mfa"), a)
      [] r.rep.ok /\ r.rep.val[1] = "429" -> DoneAtom(r, handleRateLimit(u, r.rep.val[2]), Held(a))
      [] OTHER -> ok
gotProfile(r) ==
    /\ Replied(r, {"profile"})
    /\ Outcome(r, ui, atom, /\ ui' = ui /\ atom' = [atom EXCEPT !.user = r.rep.val[2]] /\ subs' = {"user", "inbox"}
                            /\ net' = net \ {r} /\ UNCHANGED <<page, db, push>>)
\* The roles are asked for when another user is signed in.
loadRoles == atom.user # None /\ ~ui.roles /\ Call([ui EXCEPT !.roles = TRUE], "roles", <<"", 0>>)
gotRoles(r) == Replied(r, {"roles"}) /\ Outcome(r, ui, atom, Done(r, ui))
bypassed(r) ==
    /\ Replied(r, {"bypass"})
    /\ LET u == Idle(ui, "bypass") IN
       Outcome(r, u, atom, DoneAtom(r, Freed(u), [atom EXCEPT !.until = FALSE]))
\* MFAChallenge over a session: back signs out.
mfaVerify == LayoutGate = "mfa" /\ "verify" \notin ui.busy /\ Call(Busy(ui, "verify"), "verify", <<"", 0>>)
mfaVerified(r) == Replied(r, {"verify"}) /\ LET u == Idle(ui, "verify") IN Outcome(r, u, atom, Done(r, Close(u, "mfa")))
mfaBack == LayoutGate = "mfa" /\ "verify" \notin ui.busy /\ SetAtom(Close(ui, "mfa"), SignedOut(atom))
\* The account menu and signing out, which waits for the server.
HeaderUserMenu == IF LayoutGate = "app" /\ atom.token /\ atom.user # None THEN {"menu"} \cup (IF "menu" \in ui.on THEN {"logout"} ELSE {}) ELSE {}
toggleAccountMenu == "menu" \in HeaderUserMenu /\ Set(Toggle(ui, "menu"))
handleLogout == "logout" \in HeaderUserMenu /\ Call(Close(ui, "menu"), "logout", <<"", 0>>)
loggedOut(r) == Replied(r, {"logout"}) /\ DoneAtom(r, [ui EXCEPT !.route = "web"], SignedOut(atom))
\* Routes shown as an application whatever the layout mode.
isAppModeRoute(path) == path \in {"app"}
toggleLayoutMode == LayoutGate = "app" /\ ~isAppModeRoute(ui.route) /\ Set(Toggle(ui, "appMode"))
\* handleUserUpdate, and a teleport; pushes for another user are not sent here.
handleUserUpdate(a, p) ==
    CASE p.kind = "permissions_changed" -> IF a.user = None THEN a ELSE [a EXCEPT !.user = p.val, !.token = TRUE]
      [] p.kind = "user_updated" -> IF a.user = None THEN a ELSE [a EXCEPT !.user = p.val]
      [] p.kind = "suspended" -> IF a.user = None THEN a ELSE SignedOut(a)
      [] OTHER -> a
userPushed ==
    /\ push # <<>> /\ push' = Tail(push) /\ UNCHANGED <<page, net, db, subs>>
    /\ LET p == Head(push) IN
       /\ atom' = handleUserUpdate(atom, p)
       /\ ui' = CASE p.kind = "mfa" /\ atom.user # None -> Open(ui, "mfa")
                  [] p.kind = "tp" -> [ui EXCEPT !.route = "app"]
                  [] OTHER -> ui
SessionServer(r) ==
    \/ r.op = "profile" /\ Read(r, IF db.there THEN <<"ok", db.ver>> ELSE <<"401", 0>>)
    \/ r.op \in {"refresh", "roles", "bypass", "verify"} /\ Read(r, IF db.there THEN <<"ok", 0>> ELSE <<"401", 0>>)
    \/ r.op = "logout" /\ Read(r, <<"ok", 0>>)
    \/ r.op \in {"profile", "roles"} /\ db.n < MaxChanges /\ (\/ Answer(r, [db EXCEPT !.n = @ + 1], <<"mfa", 0>>)
                                                              \/ \E s \in 1..2 : Answer(r, [db EXCEPT !.n = @ + 1], <<"429", s>>))
SessionChanges ==
    \/ \E kind \in {"permissions_changed", "user_updated"} :
         "user" \in subs /\ Changes([db EXCEPT !.ver = 1], <<[kind |-> kind, val |-> 1]>>)
    \/ Changes([db EXCEPT !.there = FALSE], IF "user" \in subs THEN <<[kind |-> "suspended", val |-> 0]>> ELSE <<>>)
    \/ "user" \in subs /\ \E kind \in {"mfa", "tp"} : Changes(db, <<[kind |-> kind, val |-> 0]>>)
SessionNext ==
    /\ On("session")
    /\ \/ holdTicks \/ holdingPageTicks \/ handleTotpSubmit \/ validateSession \/ loadRoles \/ mfaVerify \/ mfaBack
       \/ toggleAccountMenu \/ handleLogout \/ toggleLayoutMode \/ userPushed \/ SessionChanges
       \/ \E r \in net : \/ refreshed(r) \/ gotProfile(r) \/ gotRoles(r) \/ bypassed(r) \/ mfaVerified(r) \/ loggedOut(r)
                         \/ SessionServer(r)

-----------------------------------------------------------------------------
(* Auth: signing in, perhaps with a second factor, and registering.  ui.at *)
(* is whether the address is /login, where the form begins as "login".     *)

SigninInit ==
    \E login \in BOOLEAN :
        Begins("signin", [busy |-> {}, on |-> IF login THEN {"login"} ELSE {}, at |-> login, totp |-> FALSE, error |-> FALSE],
               [token |-> FALSE, refresh |-> FALSE, user |-> None, until |-> FALSE], {}, [n |-> 0, totp |-> FALSE, there |-> TRUE])
AuthForm == IF ui.totp \/ "submit" \in ui.busy THEN {} ELSE {"submit", "switch"} \cup (IF "login" \in ui.on THEN {"forgot"} ELSE {})
MFAForm == IF ~ui.totp \/ "submit" \in ui.busy THEN {} ELSE {"verify", "backup", "back"}
setIsLogin == "switch" \in AuthForm /\ Set(Close(Toggle(ui, "login"), "success"))
handleSubmit == "submit" \in AuthForm /\ Call([Busy(ui, "submit") EXCEPT !.error = FALSE], IF "login" \in ui.on THEN "login" ELSE "register", <<"", 0>>)
handleVerify == "verify" \in MFAForm /\ Call([Busy(ui, "submit") EXCEPT !.error = FALSE], "loginTOTP", <<"", 0>>)
useBackupCode == "backup" \in MFAForm /\ Set(Toggle(ui, "backup"))
totpBack == "back" \in MFAForm /\ Set(Close([ui EXCEPT !.totp = FALSE], "backup"))
leaveSignin == Quit("signin")
\* completeLogin: the user is signed in even if the page is left meanwhile,
\* and then sent where they came from.
completeLogin(r) ==
    /\ page' = <<"signin", "away">> /\ ui' = [busy |-> {}] /\ atom' = [atom EXCEPT !.token = TRUE, !.refresh = TRUE, !.user = 0]
    /\ net' = {} /\ UNCHANGED <<db, subs, push>>
\* Registering leads to /login: another page, unless the form switched over
\* there was used, which then goes on asking to register.
submitted(r) ==
    /\ Replied(r, {"login", "register", "loginTOTP"})
    /\ LET u == Idle(ui, "submit") IN
       CASE ~r.rep.ok -> Done(r, [u EXCEPT !.error = TRUE])
         [] r.rep.ok /\ r.op = "register" -> Done(r, IF u.at THEN Open(u, "success") ELSE [Open(Open(u, "login"), "success") EXCEPT !.at = TRUE])
         [] r.rep.ok /\ r.op = "login" /\ r.rep.val[1] = "totp" -> Done(r, [u EXCEPT !.totp = TRUE])
         [] OTHER -> completeLogin(r)
SigninServer(r) ==
    \/ r.op = "login" /\ (Read(r, <<"ok", 0>>) \/ Read(r, <<"totp", 0>>))
    \/ r.op \in {"register", "loginTOTP"} /\ Read(r, <<"ok", 0>>)
SigninNext ==
    /\ On("signin")
    /\ \/ setIsLogin \/ handleSubmit \/ handleVerify \/ useBackupCode \/ totpBack \/ leaveSignin
       \/ \E r \in net : submitted(r) \/ SigninServer(r)

-----------------------------------------------------------------------------
(* Account recovery: the form, and the requests a manager reviews; one     *)
(* field holds the request being acted on.                                 *)

Requests == {"q1", "q2"}
RecoveryInit ==
    \E may \in BOOLEAN :
        Begins("recovery", [busy |-> IF may THEN {"requests"} ELSE {}, on |-> {}, may |-> may, acting |-> None, requests |-> {}, own |-> None, error |-> FALSE],
               [pending |-> {}, user |-> None], IF may THEN Add({}, "list", None) ELSE {}, [n |-> 0, requests |-> {"q1", "q2"}])
fetchRequests(u, n) == IF u.may THEN Add(n, "list", None) ELSE n
Refetching(u) == IF u.may THEN Busy(u, "requests") ELSE u
gotRequests(r) ==
    /\ Replied(r, {"list"})
    /\ Done(r, Idle(IF r.rep.ok THEN [ui EXCEPT !.requests = r.rep.val] ELSE [ui EXCEPT !.error = TRUE], "requests"))
RecoveryForm == IF "sent" \in ui.on \/ "submit" \in ui.busy THEN {} ELSE {"submit"}
requestRecovery == RecoveryForm # {} /\ Call([Busy(ui, "submit") EXCEPT !.error = FALSE], "forgot", None)
\* The request is remembered for this guest session and the list read again.
recoveryAsked(r) ==
    /\ Replied(r, {"forgot"})
    /\ IF ~r.rep.ok THEN Done(r, Idle(ui, "submit"))
       ELSE /\ ui' = Open(Idle([Refetching(ui) EXCEPT !.own = "q1"], "submit"), "sent") /\ atom' = [atom EXCEPT !.pending = {"q1"}]
            /\ net' = fetchRequests(ui, net \ {r}) /\ UNCHANGED <<page, db, subs, push>>
RequestRow(q) == IF ~ui.may \/ q \notin ui.requests \/ ui.acting = q THEN {} ELSE {"accept", "reject"}
acceptRequest(q) == "accept" \in RequestRow(q) /\ Call([ui EXCEPT !.acting = q, !.error = FALSE], "accept", q)
rejectRequest(q) == "reject" \in RequestRow(q) /\ Call([ui EXCEPT !.acting = q, !.error = FALSE], "reject", q)
requestActed(r) ==
    /\ Replied(r, {"accept", "reject"})
    /\ LET u == [ui EXCEPT !.acting = None, !.error = @ \/ ~r.rep.ok] IN
       IF r.rep.ok \/ r.op = "accept" THEN Goes(r, Refetching(u), "list", None) ELSE Done(r, u)
requestExpires(q) == q \in ui.requests /\ q \notin db.requests /\ Set([ui EXCEPT !.requests = @ \ {q}])
\* A recovery update reads the list again and forgets an own request that ended;
\* an accepted one signs this session in, if it is the one that asked.
handleRecoveryUpdate ==
    /\ push # <<>> /\ push' = Tail(push) /\ UNCHANGED <<db, subs>>
    /\ LET p == Head(push)
           mine == p.kind = "accepted" /\ p.id \in atom.pending
       IN  IF mine THEN /\ page' = <<"recovery", "away">> /\ ui' = [busy |-> {}] /\ net' = {} /\ atom' = [pending |-> {}, user |-> 0]
           ELSE /\ Room(1) /\ net' = IF p.kind = "update" THEN fetchRequests(ui, net) ELSE net
                /\ ui' = IF p.kind = "update" THEN [Refetching(ui) EXCEPT !.own = IF @ = p.id THEN None ELSE @] ELSE ui
                /\ UNCHANGED <<page, atom>>
RecoveryServer(r) ==
    \/ r.op = "list" /\ Read(r, db.requests)
    \/ r.op = "forgot" /\ Answer(r, [db EXCEPT !.requests = @ \cup {"q1"}], {"q1"})
    \/ /\ r.op \in {"accept", "reject"} /\ r.arg \in db.requests
       /\ AnswerPush(r, [db EXCEPT !.requests = @ \ {r.arg}], {}, <<[kind |-> "update", id |-> r.arg]>>)
RecoveryChanges ==
    \E q \in db.requests, kind \in {"update", "accepted"} : Changes([db EXCEPT !.requests = @ \ {q}], <<[kind |-> kind, id |-> q]>>)
RecoveryNext ==
    /\ On("recovery")
    /\ \/ requestRecovery \/ handleRecoveryUpdate \/ RecoveryChanges
       \/ (\E q \in Requests : acceptRequest(q) \/ rejectRequest(q) \/ requestExpires(q))
       \/ \E r \in net : gotRequests(r) \/ recoveryAsked(r) \/ requestActed(r) \/ RecoveryServer(r)

-----------------------------------------------------------------------------
(* The bell.  Notifications are numbered, newest first.                    *)

BellPage == 1       \* bound: notifications in one page (20 in the code)
Unread(q) == {i \in DOMAIN q : ~q[i].read}
BellInit ==
    Begins("bell", [busy |-> {}, on |-> {}, more |-> TRUE], [notifs |-> <<>>],
           Add({}, "page", 0), [n |-> 0, notifs |-> <<[id |-> 1, read |-> FALSE]>>])

loadedFirst(r) ==
    /\ Replied(r, {"page"}) /\ r.arg = 0
    /\ IF r.rep.ok THEN DoneAtom(r, [ui EXCEPT !.more = @ /\ Len(r.rep.val) >= BellPage], [notifs |-> r.rep.val]) ELSE Done(r, ui)
loadMore == "open" \in ui.on /\ "more" \notin ui.busy /\ ui.more /\ Len(atom.notifs) > 0 /\ Call(Busy(ui, "more"), "page", Len(atom.notifs))
loadedMore(r) ==
    /\ Replied(r, {"page"}) /\ r.arg > 0
    /\ LET u == Idle(ui, "more") IN
       IF ~r.rep.ok THEN Done(r, u)
       ELSE DoneAtom(r, [u EXCEPT !.more = @ /\ Len(r.rep.val) >= BellPage], [notifs |-> atom.notifs \o r.rep.val])
BellView ==
    {"bell"} \cup (IF "open" \notin ui.on THEN {} ELSE (IF Unread(atom.notifs) # {} THEN {"readAll"} ELSE {})
                                                  \cup (IF atom.notifs # <<>> THEN {"clear"} ELSE {}))
toggleBell == Set(Toggle(ui, "open"))
MarkedRead(q, S) == [i \in DOMAIN q |-> IF q[i].id \in S THEN [q[i] EXCEPT !.read = TRUE] ELSE q[i]]
Every == 1..2
markRead(i) == "open" \in ui.on /\ i \in Unread(atom.notifs) /\ Write(ui, "read", atom.notifs[i].id)
markAllRead == "readAll" \in BellView /\ Write(ui, "readAll", 0)
deleteNotif(i) == "open" \in ui.on /\ i \in DOMAIN atom.notifs /\ Write(ui, "delete", atom.notifs[i].id)
clearAll == "clear" \in BellView /\ Write(ui, "clear", 0)
bellDone(r) ==
    /\ Replied(r, {"read", "readAll", "delete", "clear"})
    /\ IF ~r.rep.ok THEN Done(r, ui)
       ELSE DoneAtom(r, IF r.op = "clear" THEN [ui EXCEPT !.more = FALSE] ELSE ui,
                     [notifs |-> CASE r.op = "read" -> MarkedRead(atom.notifs, {r.arg})
                                   [] r.op = "readAll" -> MarkedRead(atom.notifs, Every)
                                   [] r.op = "delete" -> SelectSeq(atom.notifs, LAMBDA x : x.id # r.arg)
                                   [] r.op = "clear" -> <<>>])
notificationReducer(q, p) ==
    CASE p.kind = "notification" -> <<p.val>> \o q
      [] p.kind = "notification_all_read" -> MarkedRead(q, Every)
      [] p.kind = "notification_deleted" -> SelectSeq(q, LAMBDA x : x.id # p.val.id)
bellPushed == push # <<>> /\ Takes([notifs |-> notificationReducer(atom.notifs, Head(push))])
Newest == [id |-> 2, read |-> FALSE]
BellServer(r) ==
    \/ r.op = "page" /\ Read(r, SubSeq(db.notifs, r.arg + 1, IF Len(db.notifs) < r.arg + BellPage THEN Len(db.notifs) ELSE r.arg + BellPage))
    \/ r.op = "read" /\ Answer(r, [db EXCEPT !.notifs = MarkedRead(@, {r.arg})], <<>>)
    \/ r.op = "readAll" /\ Answer(r, [db EXCEPT !.notifs = MarkedRead(@, Every)], <<>>)
    \/ r.op = "delete" /\ Answer(r, [db EXCEPT !.notifs = SelectSeq(@, LAMBDA x : x.id # r.arg)], <<>>)
    \/ r.op = "clear" /\ Answer(r, [db EXCEPT !.notifs = <<>>], <<>>)
BellChanges ==
    \/ Changes([db EXCEPT !.notifs = <<Newest>> \o @], <<[kind |-> "notification", val |-> Newest]>>)
    \/ Changes([db EXCEPT !.notifs = MarkedRead(@, Every)], <<[kind |-> "notification_all_read", val |-> Newest]>>)
    \/ db.notifs # <<>> /\ Changes([db EXCEPT !.notifs = Tail(@)], <<[kind |-> "notification_deleted", val |-> Head(db.notifs)]>>)
BellNext ==
    /\ On("bell")
    /\ \/ loadMore \/ toggleBell \/ markAllRead \/ clearAll \/ bellPushed \/ BellChanges
       \/ (\E i \in DOMAIN atom.notifs : markRead(i) \/ deleteNotif(i))
       \/ \E r \in net : loadedFirst(r) \/ loadedMore(r) \/ bellDone(r) \/ BellServer(r)

-----------------------------------------------------------------------------
(* The drawer: open while hovered or pinned, with its panels, and the      *)
(* branding its editor saves as a whole.                                   *)

DrawerInit ==
    \E edit \in BOOLEAN :
        Begins("drawer", [busy |-> {}, on |-> {}, view |-> "root", timer |-> FALSE, typed |-> FALSE, focus |-> 0, edit |-> edit],
               [branding |-> [columns |-> 5, hidden |-> {}], sound |-> 1], {}, [n |-> 0, branding |-> [columns |-> 5, hidden |-> {}]])
\* The key handlers' effect runs again when open or view changes, and clears
\* the timer as it goes.
Shown(u) == IF ("open" \in u.on) = ("open" \in ui.on) /\ u.view = ui.view THEN u ELSE [u EXCEPT !.timer = FALSE]
Closed(u) == Close(Close([u EXCEPT !.view = "root", !.focus = 0], "open"), "pinned")
mouseEnter == Set(Open([ui EXCEPT !.timer = FALSE], "open"))
focusCapture == Set(Shown(Open(ui, "open")))
scheduleClose == "pinned" \notin ui.on /\ Set([ui EXCEPT !.timer = TRUE])
closeTimer == ui.timer /\ Set(Shown(Close([ui EXCEPT !.timer = FALSE], "open")))
handlePointerDown == Set(Shown(Closed(ui)))
DrawerItems == IF "open" \in ui.on /\ ui.view = "root" THEN 1..2 ELSE {}
focusApp(u) == [u EXCEPT !.focus = IF @ = 2 THEN 1 ELSE @ + 1]
altArrow == Set(Shown(focusApp(Open(Open([ui EXCEPT !.view = "root", !.typed = FALSE], "open"), "pinned"))))
arrow == DrawerItems # {} /\ Set(focusApp(ui))
escape == Set(Shown(IF ui.view # "root" THEN [ui EXCEPT !.view = "root"] ELSE Closed(ui)))
Launcher == IF "pinned" \in ui.on THEN Closed(ui) ELSE Open(Open(ui, "pinned"), "open")
clickLauncher == Set(Shown(Launcher))
DrawerTools == {"theme", "layout", "sound", "alerts"} \ atom.branding.hidden
RootView == IF DrawerItems = {} THEN {} ELSE {"search", "workspace"} \cup DrawerTools \cup (IF ui.edit THEN {"customize"} ELSE {})
openPanel(v) == v \in RootView \cap {"customize", "sound", "alerts"} /\ Set(Shown(Open([ui EXCEPT !.view = v], "pinned")))
closeAfterAction == RootView \cap {"workspace", "theme", "layout"} # {} /\ Set(Shown(Closed(ui)))
searchDrawer == "search" \in RootView /\ ~ui.typed /\ Set([ui EXCEPT !.typed = TRUE])
backToRoot == ui.view # "root" /\ "open" \in ui.on /\ Set(Shown([ui EXCEPT !.view = "root"]))
\* saveBranding writes the branding as it was at the click, with one change.
CustomizeView == IF ui.view = "customize" /\ "open" \in ui.on THEN {"columns", "hide"} ELSE {}
setColumns(k) == "columns" \in CustomizeView /\ Write(ui, "branding", [atom.branding EXCEPT !.columns = k])
setAppVisible(t, visible) ==
    "hide" \in CustomizeView /\ Write(ui, "branding", [atom.branding EXCEPT !.hidden = IF visible THEN @ \ {t} ELSE @ \cup {t}])
saveBranding(r) == Replied(r, {"branding"}) /\ DoneAtom(r, ui, IF r.rep.ok THEN [atom EXCEPT !.branding = r.arg] ELSE atom)
SoundPanel(v) == ui.view = "sound" /\ v # atom.sound /\ SetAtom(ui, [atom EXCEPT !.sound = v])
DrawerServer(r) == r.op = "branding" /\ db.n < MaxChanges /\ Answer(r, [db EXCEPT !.branding = r.arg, !.n = @ + 1], None)
DrawerNext ==
    /\ On("drawer")
    /\ \/ mouseEnter \/ focusCapture \/ scheduleClose \/ closeTimer \/ handlePointerDown \/ altArrow \/ arrow \/ escape
       \/ clickLauncher \/ closeAfterAction \/ searchDrawer \/ backToRoot \/ setColumns(3)
       \/ (\E v \in {"customize", "sound", "alerts"} : openPanel(v)) \/ (\E b \in BOOLEAN : setAppVisible("theme", b))
       \/ (\E v \in 0..1 : SoundPanel(v))
       \/ \E r \in net : saveBranding(r) \/ DrawerServer(r)
=============================================================================
