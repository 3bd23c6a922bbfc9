------------------------------ MODULE RtcMedia ------------------------------
(***************************************************************************)
(* What a browser captures, publishes and records during a voice session:  *)
(* page "devices" is useMediaDevices (microphone, camera, screen), page    *)
(* "livekit" the LiveKitRTC client that takes the place of the mesh when a *)
(* media server is configured, page "recording" useLocalRecording.  The    *)
(* waits on getUserMedia, on the token and on the media server are         *)
(* requests in the sense of Spa; streams, rooms and recorders are kept in  *)
(* atom because they outlive the component.                                *)
(***************************************************************************)
EXTENDS Spa

CONSTANTS MaxStreams    \* bound: streams ever captured in a behaviour

Kinds == {"mic", "camera", "screen"}

-----------------------------------------------------------------------------
(* Devices.  ui.active: the indicators; ui.ref: the streamRefs;            *)
(* atom.open: streams being captured; atom.sent: streams published;        *)
(* atom.screens: the streams that are, or were last, a screen's.           *)

mountDevices(speaks) ==
    [busy |-> {}, active |-> {}, ref |-> [k \in Kinds |-> None], device |-> 1, canSpeak |-> speaks]
DevicesInit ==
    \E s \in BOOLEAN : Begins("devices", mountDevices(s), [open |-> {}, sent |-> {}, born |-> 0, screens |-> {}], {}, [n |-> 0])

\* removeTracks and stop of the stream the ref holds.
Stopped(k) == [atom EXCEPT !.open = @ \ {ui.ref[k]}, !.sent = @ \ {ui.ref[k]}]
Off(k) == [ui EXCEPT !.active = @ \ {k}, !.ref[k] = None]

\* toggleMic, toggleCamera, toggleScreen: an active one is stopped, otherwise
\* the browser is asked for a stream; only the microphone needs permission.
toggleOff(k) == k \in ui.active /\ SetAtom(Off(k), Stopped(k))
toggleOn(k) ==
    /\ k \notin ui.active /\ (k = "mic" => ui.canSpeak) /\ atom.born < MaxStreams
    /\ CallAtom(ui, [atom EXCEPT !.born = @ + 1], "open", <<k, 0>>)
toggleMic == toggleOff("mic") \/ toggleOn("mic")
toggleCamera == toggleOff("camera") \/ toggleOn("camera")
toggleScreen == toggleOff("screen") \/ toggleOn("screen")
\* The device of an active one changes: an active one is stopped and
\* opened on the other device, without the indicator changing.
handleDeviceChange(k) ==
    /\ k \in ui.active /\ ui.device = 1 /\ atom.born < MaxStreams
    /\ CallAtom([ui EXCEPT !.device = 2, !.ref[k] = None], [Stopped(k) EXCEPT !.born = @ + 1], "reopen", <<k, 0>>)
handleAudioDeviceChange == handleDeviceChange("mic")
handleVideoDeviceChange == handleDeviceChange("camera")
\* The stream is there: it is held, shown (by a toggle) and published.
gotMedia(r) ==
    /\ Replied(r, {"open", "reopen"}) /\ r.rep.ok
    /\ LET k == r.arg[1]
           s == CHOOSE x \in 1..MaxStreams : x \notin atom.open /\ \A c \in Kinds : ui.ref[c] # x
       IN  /\ ui' = [ui EXCEPT !.ref[k] = s, !.active = IF r.op = "open" THEN @ \cup {k} ELSE @]
           /\ atom' = [atom EXCEPT !.open = @ \cup {s},
                                   !.screens = IF k = "screen" THEN @ \cup {s} ELSE @ \ {s}]
           /\ net' = Add(net \ {r}, "publish", <<k, s>>)
    /\ UNCHANGED <<page, db, subs, push>>
published(r) ==
    /\ Replied(r, {"publish"}) /\ r.rep.ok
    /\ DoneAtom(r, ui, IF r.arg[2] \in atom.open THEN [atom EXCEPT !.sent = @ \cup {r.arg[2]}] ELSE atom)
\* A mutant of mediaFailed: the stream is stopped, its indicator stays on.
mediaFailedShown(r) ==
    /\ Replied(r, {"open", "reopen", "publish"}) /\ ~r.rep.ok
    /\ DoneAtom(r, [ui EXCEPT !.ref[r.arg[1]] = None], Stopped(r.arg[1]))
\* Either wait failing stops whatever stream the ref holds by then.
mediaFailed(r) ==
    /\ Replied(r, {"open", "reopen", "publish"}) /\ ~r.rep.ok
    /\ DoneAtom(r, Off(r.arg[1]), Stopped(r.arg[1]))
\* The user ends screen share s in the browser's own bar.  Whichever stream that
\* was, the one the ref holds is no longer published, and the ref and the
\* indicator are cleared: one that took its place is captured without a ref.
screenEnded(s) ==
    /\ s \in atom.open \cap atom.screens
    /\ SetAtom(Off("screen"), [atom EXCEPT !.open = @ \ {s}, !.sent = @ \ {ui.ref["screen"]}])
\* A moderator takes the right to speak away: an open microphone stays open.
canSpeakLost == ui.canSpeak /\ Set([ui EXCEPT !.canSpeak = FALSE])
\* The hook's cleanup stops what the refs hold.
devicesUnmount ==
    Leave("devices", [atom EXCEPT !.open = @ \ {ui.ref[k] : k \in Kinds}, !.sent = {}], subs)
\* A stream that arrives after that is captured with nobody to stop it.
gotMediaLate(r) ==
    /\ page = <<"devices", "away">> /\ Replied(r, {"open", "reopen"})
    /\ LET s == CHOOSE x \in 1..MaxStreams : x \notin atom.open IN
       DoneAtom(r, ui, IF r.rep.ok THEN [atom EXCEPT !.open = @ \cup {s}] ELSE atom)

DevicesNext ==
    \/ On("devices") /\ (toggleMic \/ toggleCamera \/ toggleScreen)
    \/ On("devices") /\ (handleAudioDeviceChange \/ handleVideoDeviceChange)
    \/ On("devices") /\ \E r \in net : gotMedia(r) \/ published(r) \/ mediaFailed(r)
    \/ On("devices") /\ (canSpeakLost \/ devicesUnmount \/ \E s \in atom.open : screenEnded(s))
    \/ \E r \in net : gotMediaLate(r) \/ (page[1] = "devices" /\ Read(r, TRUE))

\* An indicator that is on has a stream behind it, or one being opened on another
\* device (useMediaDevices): whichever of the overlapping toggles, changes and
\* failures comes last.
ActiveHasStream ==
    On("devices") =>
        \A k \in ui.active :
            \/ ui.ref[k] \in atom.open
            \/ \E r \in net : r.op = "reopen" /\ r.arg[1] = k

-----------------------------------------------------------------------------
(* The media server's client.  atom.room: this.room; atom.joined: rooms    *)
(* this browser is in; atom.promise: connectPromise; waiting: tracks whose *)
(* broadcastTracks awaits it; heard: the remote tracks of db.tracks.       *)

LiveKitRTC ==
    [room |-> None, joined |-> {}, promise |-> None, token |-> FALSE, born |-> 0,
     waiting |-> {}, published |-> {}, streams |-> {}, audio |-> {}, states |-> {}]
LiveKitInit ==
    Begins("livekit", [busy |-> {}], LiveKitRTC, {}, [n |-> 0, tracks |-> {}])
LocalTracks == {"mic"}
Remote == {<<"p", "audio">>, <<"p", "video">>}

Connected == atom.room \in atom.joined
\* The next wait of connect: the token's promise is kept from one to the next.
getToken == IF atom.token THEN "join" ELSE "token"
\* ensureConnected for the waiters w: a connected room is used, a connection under
\* way shared, else one is begun.
ensureConnected(w) ==
    /\ ~Connected
    /\ IF atom.promise # None THEN SetAtom(ui, [atom EXCEPT !.waiting = @ \cup w])
       ELSE /\ atom.born < MaxStreams
            /\ CallAtom(ui, [atom EXCEPT !.waiting = @ \cup w, !.promise = atom.born + 1, !.born = @ + 1],
                        getToken, <<"room", atom.born + 1>>)
ensureConnection == ensureConnected({})

\* broadcastTracks: once connected, every track not yet published; the record is
\* made after the publication.
broadcastTracks(t) == ensureConnected({t})
Publishes(t) ==
    /\ Connected /\ t \notin atom.published
    /\ CallAtom(ui, [atom EXCEPT !.waiting = @ \ {t}], "publish", <<t, atom.room>>)
PublishedTo(r) ==
    /\ Replied(r, {"publish"})
    /\ DoneAtom(r, ui, [atom EXCEPT !.published = IF r.rep.ok THEN @ \cup {r.arg[1]} ELSE @])
removeTracks(t) ==
    t \in atom.published /\ atom.room # None /\ SetAtom(ui, [atom EXCEPT !.published = @ \ {t}])

\* connect: the token, then a new Room, which is this.room before it is joined.
gotToken(r) ==
    /\ Replied(r, {"token"}) /\ r.rep.ok
    /\ net' = Add(net \ {r}, "join", r.arg)
    /\ atom' = [atom EXCEPT !.room = r.arg[2], !.token = TRUE]
    /\ UNCHANGED <<page, ui, db, subs, push>>
joined(r) ==
    /\ Replied(r, {"join"}) /\ r.rep.ok
    /\ DoneAtom(r, ui, [atom EXCEPT !.joined = IF r.arg[2] = atom.room THEN @ \cup {r.arg[2]} ELSE @,
                                    !.states = {t[1] : t \in db.tracks}])
connectFailed(r) ==
    /\ Replied(r, {"token", "join"}) /\ ~r.rep.ok
    /\ DoneAtom(r, ui, [atom EXCEPT !.promise = None, !.token = FALSE, !.room = None, !.waiting = {}])

\* closeAll: the room is left and everything known about it forgotten; a
\* connection that waits for its token goes on.
closeAll ==
    SetAtom(ui, [LiveKitRTC EXCEPT !.born = atom.born, !.joined = atom.joined \ {atom.room}])
\* handleConnectionStateChanged: the server or the network ends the connection.
handleDisconnected ==
    /\ Connected
    /\ SetAtom(ui, [atom EXCEPT !.joined = @ \ {atom.room}, !.promise = None, !.states = {}])

\* Room events.
handleTrackSubscribed(t) ==
    /\ Connected /\ t \in db.tracks /\ t \notin atom.streams
    /\ SetAtom(ui, [atom EXCEPT !.streams = @ \cup {t}, !.states = @ \cup {t[1]},
                                !.audio = IF t[2] = "audio" THEN @ \cup {t} ELSE @])
removeRemoteTrack(ts) == [atom EXCEPT !.streams = @ \ ts, !.audio = @ \ ts]
handleTrackUnpublished(t) ==
    Connected /\ t \in atom.streams \ db.tracks /\ SetAtom(ui, removeRemoteTrack({t}))
handleParticipantDisconnected(p) ==
    /\ Connected /\ p \in atom.states /\ \A t \in db.tracks : t[1] # p
    /\ SetAtom(ui, [removeRemoteTrack({t \in atom.streams : t[1] = p}) EXCEPT !.states = @ \ {p}])
syncActivePeers ==
    /\ atom.room # None
    /\ SetAtom(ui, [atom EXCEPT !.states = IF Connected THEN {t[1] : t \in db.tracks} ELSE {}])
\* A remote participant publishes or unpublishes.
RemotePublishes(t) ==
    Changes([db EXCEPT !.tracks = IF t \in @ THEN @ \ {t} ELSE @ \cup {t}], <<>>)

LiveKitNext ==
    /\ On("livekit")
    /\ \/ ensureConnection \/ closeAll \/ handleDisconnected \/ syncActivePeers
       \/ \E t \in LocalTracks : broadcastTracks(t) \/ Publishes(t) \/ removeTracks(t)
       \/ \E t \in Remote : handleTrackSubscribed(t) \/ handleTrackUnpublished(t) \/ RemotePublishes(t)
       \/ \E p \in {"p"} : handleParticipantDisconnected(p)
       \/ \E r \in net : PublishedTo(r) \/ gotToken(r) \/ joined(r) \/ connectFailed(r) \/ Read(r, TRUE)

-----------------------------------------------------------------------------
(* Recording to a local file.  ui: the inputs of the hook; atom: recorder, *)
(* the source nodes it mixes (named by key), and files offered.            *)

RecordingInit ==
    Begins("recording", [busy |-> {}, recording |-> FALSE, screen |-> FALSE, camera |-> FALSE,
                         mic |-> FALSE, peers |-> {}],
           [recorder |-> FALSE, nodes |-> {}, cameraRecorder |-> FALSE, files |-> {}], {}, [n |-> 0])

Sources(u) == (IF u.mic THEN {"local-mic"} ELSE {}) \cup u.peers
\* The three effects after a change of the inputs to u: the source nodes follow the
\* streams once there is an audio context, which the recorder's effect, the later
\* one, makes; the recorder starts with a screen and stops with the recording.
SourceEffect(u, a) ==
    IF u.recording /\ a.recorder THEN [a EXCEPT !.nodes = Sources(u)] ELSE a
RecorderEffect(u, a) ==
    IF u.recording /\ u.screen /\ ~a.recorder THEN [a EXCEPT !.recorder = TRUE]
    ELSE IF ~u.recording /\ a.recorder
    THEN [a EXCEPT !.recorder = FALSE, !.nodes = {}, !.files = @ \cup {"meeting"}]
    ELSE a
CameraEffect(u, a) ==
    IF u.recording /\ u.camera /\ ~a.cameraRecorder THEN [a EXCEPT !.cameraRecorder = TRUE]
    ELSE IF (~u.recording \/ ~u.camera) /\ a.cameraRecorder
    THEN [a EXCEPT !.cameraRecorder = FALSE, !.files = @ \cup {"camera"}]
    ELSE a
Effects(u) ==
    LET a == SourceEffect(u, atom) IN SetAtom(u, CameraEffect(u, RecorderEffect(u, a)))

\* recordLocally of the panel goes off with the screen share.
toggleRecording == Effects([ui EXCEPT !.recording = ~@ /\ ui.screen])
toggleScreenShare == Effects([ui EXCEPT !.screen = ~@, !.recording = @ /\ ~ui.screen])
toggleInput(i) == Effects([ui EXCEPT ![i] = ~@])
peerSpeaks(p) == Effects([ui EXCEPT !.peers = IF p \in @ THEN @ \ {p} ELSE @ \cup {p}])
recordingUnmount ==
    Leave("recording",
          [atom EXCEPT !.recorder = FALSE, !.cameraRecorder = FALSE, !.nodes = {},
                       !.files = @ \cup (IF atom.recorder THEN {"meeting"} ELSE {})
                                   \cup (IF atom.cameraRecorder THEN {"camera"} ELSE {})], subs)

RecordingNext ==
    /\ On("recording")
    /\ \/ toggleRecording \/ toggleScreenShare \/ recordingUnmount
       \/ \E i \in {"camera", "mic"} : toggleInput(i)
       \/ \E p \in {"p1", "p2"} : peerSpeaks(p)
=============================================================================
