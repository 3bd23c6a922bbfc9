----------------------------- MODULE RoomPanel -----------------------------
(***************************************************************************)
(* The panel every route shows beside its content: page "stream" is the    *)
(* agreement between the address bar, the enlarged stream and the video    *)
(* being played (WebRTCPanel), page "voice" the route's voice permissions  *)
(* and what the panel lets its user do, pages "presence" and "controls"    *)
(* PresencePanel, and page "search" the video search of MediaSection.      *)
(***************************************************************************)
EXTENDS Spa

-----------------------------------------------------------------------------
(* The address bar.  ui.url: its streamId and v parameters; ui.enlarged    *)
(* and ui.video: the atoms the panel follows; ui.seen: what the effects    *)
(* last ran for.  An effect runs after a render that changed one of its    *)
(* dependencies; each writes the parameters as that render saw them, so    *)
(* that of two writes of one render the later one is what stays.           *)

StreamIds == {"s1", "s2"}
Deps(u) == [url |-> u.url, enlarged |-> u.enlarged, video |-> u.video]
StreamInit ==
    \E s \in StreamIds \cup {None} :
        LET d == [url |-> [s |-> s, v |-> None], enlarged |-> None, video |-> None] IN
        Begins("stream", [busy |-> {}, url |-> d.url, enlarged |-> None, video |-> None, seen |-> None,
                          opened |-> FALSE, on |-> {}],
               [n |-> 0], {}, [n |-> 0])

\* Effect 1, on the parameters: an address that names a stream enlarges it.
FromAddress(u) ==
    IF u.url.s # None /\ u.enlarged # u.url.s /\ (u.seen = None \/ u.seen.url # u.url)
    THEN Open([u EXCEPT !.enlarged = u.url.s], "expanded") ELSE u
\* Effect 2: the address names what is enlarged.
ToAddress(u) == [u.url EXCEPT !.s = u.enlarged]
\* Effect 3: and the video that plays; both from the same rendered parameters.
VideoToAddress(u, url) == IF u.url.v = u.video THEN url ELSE [u.url EXCEPT !.v = u.video]
\* The stream page enlarges its first stream, once, unless asked to retry.
openFirstVideoStream(u, force) ==
    IF u.opened /\ ~force THEN u
    ELSE Open([u EXCEPT !.opened = TRUE, !.enlarged = "s1"], "expanded")

StreamEffects ==
    /\ On("stream") /\ ui.seen # Deps(ui)
    /\ LET w == FromAddress(ui) IN
       Set([w EXCEPT !.url = VideoToAddress(ui, ToAddress(ui)), !.seen = Deps(ui)])
streamArrives(force) == Set(openFirstVideoStream(ui, force))
setEnlargedStreamId(s) ==
    /\ db.n < MaxChanges /\ s # ui.enlarged
    /\ ui' = [ui EXCEPT !.enlarged = s] /\ db' = [db EXCEPT !.n = @ + 1]
    /\ UNCHANGED <<page, atom, net, subs, push>>
mediaSync(v) ==
    /\ db.n < MaxChanges /\ v # ui.video
    /\ ui' = [ui EXCEPT !.video = v] /\ db' = [db EXCEPT !.n = @ + 1]
    /\ UNCHANGED <<page, atom, net, subs, push>>

StreamNext ==
    \/ StreamEffects
    \/ /\ On("stream")
       /\ \/ \E s \in StreamIds \cup {None} : setEnlargedStreamId(s)
          \/ \E v \in {"v1", None} : mediaSync(v)
          \/ \E f \in BOOLEAN : ui.opened = f /\ streamArrives(f)

-----------------------------------------------------------------------------
(* Voice permissions of a route, and the panel's controls.  db.perms: the  *)
(* server's record of each route.                                          *)

VRoutes == {"r1", "r2"}
VoiceInit ==
    \E p \in [VRoutes -> {[voice |-> TRUE, muted |-> FALSE], [voice |-> FALSE, muted |-> FALSE]}] :
        Begins("voice", [busy |-> {}, route |-> "r1", on |-> {}],
               [perms |-> [voice |-> TRUE, muted |-> FALSE], guests |-> {"g"}],
               Add({}, "permissions", "r1"), [n |-> 0, perms |-> p])

canSpeak == atom.perms.voice /\ ~atom.perms.muted
AudioControls == (IF canSpeak THEN {"mic"} ELSE {}) \cup {"muteAll"}
CameraControls == IF canSpeak THEN {"camera"} ELSE {}
ScreenControls == (IF canSpeak THEN {"screen"} ELSE {}) \cup (IF canSpeak \/ "screen" \in ui.on THEN {"record"} ELSE {})

\* A route is rendered: its permissions are asked for.  The reply is compared
\* with the route it was asked for, which need not be the one shown by then.
voiceNavigate(r) == r # ui.route /\ Call([ui EXCEPT !.route = r], "permissions", r)
gotPermissions(r) ==
    /\ Replied(r, {"permissions"})
    /\ DoneAtom(r, ui, IF r.rep.ok THEN [atom EXCEPT !.perms = r.rep.val] ELSE atom)
\* A moderator changes them; the hub tells everyone on the route.
permissionsChange ==
    LET p == [db.perms[ui.route] EXCEPT !.muted = ~@] IN
    Changes([db EXCEPT !.perms[ui.route] = p], <<[perms |-> p]>>)
permissionsPushed == push # <<>> /\ Takes([atom EXCEPT !.perms = Head(push).perms])
\* The switches; what they do with the devices is RtcMedia's part.  A speaker who
\* is muted while speaking cannot switch the microphone off either.
switchAudio(f) == f \in AudioControls /\ Set(Toggle(ui, f))
switchCamera == "camera" \in CameraControls /\ Set(Toggle(ui, "camera"))
toggleShare == "screen" \in ScreenControls /\ Set(IF "screen" \in ui.on THEN [ui EXCEPT !.on = @ \ {"screen", "record"}] ELSE Open(ui, "screen"))
recordLocally == "record" \in ScreenControls /\ "screen" \in ui.on /\ Set(Toggle(ui, "record"))

VoiceNext ==
    /\ On("voice")
    /\ \/ \E r \in VRoutes : voiceNavigate(r)
       \/ permissionsChange
       \/ \E r \in net : gotPermissions(r) \/ Read(r, db.perms[r.arg])
       \/ permissionsPushed \/ switchCamera \/ toggleShare \/ recordLocally \/ \E f \in {"mic", "muteAll"} : switchAudio(f)

-----------------------------------------------------------------------------
(* PresencePanel: its launcher, tabs and chat badge (page "presence";      *)
(* ui.on: expanded, dragging, suppress; atom.chat: length of the chat feed *)
(* and prevChatLenRef) ...                                                 *)

Tabs == {"members", "chat", "voice", "defcon"}
PresenceInit ==
    \E a \in BOOLEAN :
        Begins("presence", [busy |-> {}, on |-> {}, tab |-> "members", admin |-> a, unread |-> 0],
               [chat |-> 0], {}, [n |-> 0])

ControlBar == {"members", "chat", "voice"} \cup (IF ui.admin THEN {"defcon"} ELSE {})
\* A tab is chosen; chat clears its badge.
setActiveTab(t) ==
    /\ t \in ControlBar \ {ui.tab} /\ {"suppress", "dragging"} \cap ui.on = {}
    /\ Set([ui EXCEPT !.tab = t, !.unread = IF t = "chat" THEN 0 ELSE @])
\* Dragging the launcher: the click that ends a drag is not a click on a tab.
handleLauncherPointerDown == "expanded" \notin ui.on /\ "dragging" \notin ui.on /\ Set(Open(ui, "dragging"))
handleLauncherPointerMove == "dragging" \in ui.on /\ Set(Open(ui, "moved"))
handleLauncherPointerUp ==
    /\ "dragging" \in ui.on
    /\ Set([ui EXCEPT !.on = IF "moved" \in @ THEN (@ \ {"dragging", "moved"}) \cup {"suppress"} ELSE @ \ {"dragging"}])
launcherClick == "suppress" \in ui.on /\ Set(Close(ui, "suppress"))
toggleExpanded == {"suppress", "dragging"} \cap ui.on = {} /\ Set(Toggle(ui, "expanded"))
\* A stream's page opens the panel on its voice tab.
openStreamRoute == Set([Open(ui, "expanded") EXCEPT !.tab = "voice"])
\* One message more counts as unread off the chat tab; a history load does not.
chatArrives(k) ==
    /\ atom.chat + k <= 3
    /\ SetAtom([ui EXCEPT !.unread = IF k = 1 /\ ui.tab # "chat" THEN @ + 1 ELSE @], [atom EXCEPT !.chat = @ + k])

PresenceNext ==
    /\ On("presence")
    /\ \/ \E t \in Tabs : setActiveTab(t)
       \/ handleLauncherPointerDown \/ handleLauncherPointerMove \/ handleLauncherPointerUp
       \/ launcherClick \/ toggleExpanded \/ openStreamRoute
       \/ \E k \in 1..2 : chatArrives(k)

(* ... and its controls (page "controls"): the actions on a person, DEFCON *)
(* telemetry, fetched with its tab, pushed while that is open, and reset;  *)
(* comment slow mode, loaded, toggled and changed by others.               *)
ControlsInit ==
    \E a \in BOOLEAN :
        Begins("controls", [busy |-> IF a THEN {"slow"} ELSE {}, tab |-> FALSE, admin |-> a, defcon |-> None, slow |-> 0],
               [summoned |-> FALSE], IF a THEN Add({}, "loadSlowMode", 0) ELSE {}, [n |-> 0, defcon |-> 0, slow |-> 0])

rowActions(self) ==
    IF self THEN {} ELSE {"dm", "tp_to"} \cup (IF ui.admin THEN {"tp_here", "mfa_challenge"} ELSE {})
tp_here(self) == "tp_here" \in rowActions(self) /\ ~atom.summoned /\ SetAtom(ui, [summoned |-> TRUE])
mfa_challenge(self) == "mfa_challenge" \in rowActions(self) /\ Call(ui, "challenge", 0)

openDefcon == ui.admin /\ Call([ui EXCEPT !.tab = TRUE], "telemetry", 0)
closeDefcon == ui.tab /\ Set([ui EXCEPT !.tab = FALSE])
gotTelemetry(r) == Replied(r, {"telemetry"}) /\ Done(r, IF r.rep.ok THEN [ui EXCEPT !.defcon = r.rep.val] ELSE ui)
telemetryPushed ==
    /\ push # <<>> /\ Head(push)[1] = "telemetry"
    /\ ui' = IF ui.tab THEN [ui EXCEPT !.defcon = Head(push)[2]] ELSE ui
    /\ push' = Tail(push) /\ UNCHANGED <<page, atom, net, db, subs>>
resetDefcon == ui.tab /\ ui.defcon # None /\ "reset" \notin ui.busy /\ Call(Busy(ui, "reset"), "reset", 0)
\* A reset that could not tell the statistics has them fetched.
resetDone(r) ==
    /\ Replied(r, {"reset", "fresh"})
    /\ IF r.rep.ok /\ r.rep.val = None THEN Goes(r, ui, "fresh", 0)
       ELSE Done(r, Idle(IF r.rep.ok THEN [ui EXCEPT !.defcon = r.rep.val] ELSE ui, "reset"))

toggleSlowMode == ui.admin /\ "slow" \notin ui.busy /\ Call(Busy(ui, "slow"), "putSlowMode", 1 - ui.slow)
gotSlowMode(r) ==
    /\ Replied(r, {"loadSlowMode", "putSlowMode"})
    /\ Done(r, Idle(IF r.rep.ok THEN [ui EXCEPT !.slow = r.rep.val] ELSE ui, "slow"))
slowModePushed ==
    /\ push # <<>> /\ Head(push)[1] = "slow" /\ ui' = IF ui.admin THEN [ui EXCEPT !.slow = Head(push)[2]] ELSE ui
    /\ push' = Tail(push) /\ UNCHANGED <<page, atom, net, db, subs>>

ControlsAnswer(r) ==
    \/ r.op \in {"telemetry", "fresh"} /\ Read(r, db.defcon)
    \/ r.op = "reset" /\ AnswerPush(r, [db EXCEPT !.defcon = 0], 0, <<<<"telemetry", 0>>>>)
    \/ r.op = "reset" /\ Answer(r, [db EXCEPT !.defcon = 0], None)
    \/ r.op = "loadSlowMode" /\ Read(r, db.slow)
    \/ r.op = "putSlowMode" /\ AnswerPush(r, [db EXCEPT !.slow = r.arg], r.arg, <<<<"slow", r.arg>>>>)
    \/ r.op = "challenge" /\ Read(r, 0)
ControlsChange ==
    \/ Changes([db EXCEPT !.defcon = 1 - @], <<<<"telemetry", 1 - db.defcon>>>>)
    \/ Changes([db EXCEPT !.slow = 1 - @], <<<<"slow", 1 - db.slow>>>>)

ControlsNext ==
    /\ On("controls")
    /\ \/ \E s \in BOOLEAN : tp_here(s) \/ mfa_challenge(s)
       \/ openDefcon \/ closeDefcon \/ telemetryPushed \/ resetDefcon
       \/ toggleSlowMode \/ slowModePushed \/ ControlsChange
       \/ \E r \in net : \/ gotTelemetry(r) \/ resetDone(r) \/ gotSlowMode(r) \/ ControlsAnswer(r)
                         \/ Replied(r, {"challenge"}) /\ Done(r, ui)

-----------------------------------------------------------------------------
(* The video search of MediaSection.  ui.input: "", a query or a link;     *)
(* ui.timer: the 500 ms debounce; ui.current: searchAbortControllerRef.    *)

Queries == {"q1", "q2"}
Inputs == Queries \cup {"", "link"}
SearchInit ==
    Begins("search", [busy |-> {}, input |-> "", timer |-> FALSE, current |-> None, results |-> None],
           [born |-> 0, sent |-> 0], {}, [n |-> 0])

\* The effect on the input: a link or nothing clears the results; anything else
\* aborts the search under way and starts the timer.
InputEffect(u) ==
    IF u.input \in Queries THEN [u EXCEPT !.timer = TRUE, !.current = None]
    ELSE [u EXCEPT !.timer = FALSE, !.results = None]
\* The input is disabled during a search.
searchType(q) == "searching" \notin ui.busy /\ q # ui.input /\ Set(InputEffect([ui EXCEPT !.input = q]))
searchTimer ==
    /\ ui.timer /\ atom.born < 3
    /\ CallAtom(Busy([ui EXCEPT !.timer = FALSE, !.current = atom.born + 1], "searching"),
                [atom EXCEPT !.born = @ + 1], "youtube", <<ui.input, atom.born + 1>>)
\* The reply of the current search shows its results; an older one is ignored.
searched(r) ==
    /\ Replied(r, {"youtube"})
    /\ Done(r, IF ui.current = r.arg[2]
               THEN Idle([ui EXCEPT !.results = IF r.rep.ok THEN r.arg[1] ELSE None, !.current = None], "searching")
               ELSE ui)
searchCancel == "searching" \in ui.busy /\ ui.current # None /\ Set(Idle([ui EXCEPT !.current = None], "searching"))
\* A link, the first result or a result that is clicked is added to the queue.
handleAddMedia(byClick) ==
    /\ IF byClick THEN ui.results # None ELSE "searching" \notin ui.busy /\ (ui.input = "link" \/ ui.results # None)
    /\ SetAtom(InputEffect([ui EXCEPT !.input = "", !.results = None]), [atom EXCEPT !.sent = (@ + 1) % 2])

SearchNext ==
    /\ On("search")
    /\ \/ \E q \in Inputs : searchType(q)
       \/ searchTimer \/ searchCancel \/ \E b \in BOOLEAN : handleAddMedia(b)
       \/ \E r \in net : searched(r) \/ Read(r, 0)
=============================================================================
