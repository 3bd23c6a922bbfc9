------------------------------ MODULE MCPages ------------------------------
(* Model checking of the pages: every behaviour is one page's.  Next names *)
(* the pages of a module before its actions, which only spares TLC looking *)
(* for the page that is on in every one of them.                           *)
EXTENDS Spa, TLC

CONSTANTS MaxEdit, MaxKeys, MaxSpoken, MaxStreams, MaxSections, MaxItems, MaxIds, Sites, MaxJobs, Slugs, MaxEdits, MaxEditors, Groups, Direct

Account == INSTANCE AccountPages
Admin == INSTANCE AdminPages
Content == INSTANCE ContentPages
Forum == INSTANCE ForumPages
Shell == INSTANCE ShellPages
Store == INSTANCE StorePages
Meeting == INSTANCE RoomPanel
Rtc == INSTANCE RtcMedia
Section == INSTANCE SectionControls
Grengo == INSTANCE GrengoPage
Editor == INSTANCE PageEditor
Inbox == INSTANCE InboxPage
Library == INSTANCE LibraryPages

\* None is none of the values a page keeps: streams, kinds of jobs, submissions
\* and their keys.
ASSUME PagesAssumption ==
    /\ MaxKeys \in Nat /\ MaxStreams \in Nat
    /\ None \notin 1..MaxStreams
    /\ None \notin Grengo!Kinds
    /\ \A a \in Content!Answers, k \in 1..MaxKeys : [ans |-> a, key |-> k] # None

Init ==
    \/ Account!UploadsInit \/ Account!RolesInit \/ Account!SecurityInit \/ Account!ProfileInit
    \/ Account!PersonInit \/ Account!CardInit
    \/ Admin!DataSourceInit \/ Admin!DeploymentsInit
    \/ Content!RowsInit \/ Content!InteractiveInit \/ Content!SourcesInit \/ Content!CustomPagesInit
    \/ Content!EmbedInit \/ Content!GalleryInit \/ Content!BibleInit
    \/ Forum!ThreadInit \/ Forum!CommentsInit \/ Forum!PageCommentsInit \/ Forum!FeedInit
    \/ Forum!ForumInit \/ Forum!EditThreadInit \/ Forum!NewThreadInit \/ Forum!TilesInit
    \/ Shell!UploaderInit \/ Shell!SessionInit \/ Shell!SigninInit \/ Shell!RecoveryInit
    \/ Shell!BellInit \/ Shell!DrawerInit
    \/ Store!ShopInit \/ Store!ProductInit \/ Store!CartInit \/ Store!OrdersInit \/ Store!CodesInit
    \/ Store!WalletInit \/ Store!ProductFormInit
    \/ Meeting!StreamInit \/ Meeting!VoiceInit \/ Meeting!PresenceInit \/ Meeting!ControlsInit \/ Meeting!SearchInit
    \/ Rtc!DevicesInit \/ Rtc!LiveKitInit \/ Rtc!RecordingInit
    \/ Section!SectionsInit \/ Section!FrameInit \/ Section!InputInit
    \/ Grengo!GrengoInit \/ Grengo!EnvInit
    \/ Editor!EditorInit \/ Editor!LikeInit \/ Inbox!InboxInit
    \/ Library!TrashInit \/ Library!SettingsInit \/ Library!GuideInit \/ Library!SourceListInit \/ Library!ManageInit
    \/ Library!MetaInit \/ Library!PickerInit \/ Library!FilesInit \/ Library!BadgeInit \/ Library!ResetInit

Next ==
    \/ /\ page[1] \in {"uploads", "roles", "security", "profile", "person", "card"}
       /\ \/ Account!UploadsNext
          \/ Account!RolesNext
          \/ Account!SecurityNext
          \/ Account!ProfileNext
          \/ Account!PersonNext
          \/ Account!CardNext
    \/ /\ page[1] \in {"datasource", "deployments"}
       /\ \/ Admin!DataSourceNext
          \/ Admin!DeploymentsNext
    \/ /\ page[1] \in {"rows", "interactive", "sources", "customPages", "embed", "gallery", "bible"}
       /\ \/ Content!RowsNext
          \/ Content!InteractiveNext
          \/ Content!SourcesNext
          \/ Content!CustomPagesNext
          \/ Content!EmbedNext
          \/ Content!GalleryNext
          \/ Content!BibleNext
    \/ /\ page[1] \in {"thread", "comments", "pageComments", "feed", "forum", "threadForm", "newThread", "tiles"}
       /\ \/ Forum!ThreadNext
          \/ Forum!CommentsNext
          \/ Forum!PageCommentsNext
          \/ Forum!FeedNext
          \/ Forum!ForumNext
          \/ Forum!EditThreadNext
          \/ Forum!NewThreadNext
          \/ Forum!TilesNext
    \/ /\ page[1] \in {"uploader", "session", "signin", "recovery", "bell", "drawer"}
       /\ \/ Shell!UploaderNext
          \/ Shell!SessionNext
          \/ Shell!SigninNext
          \/ Shell!RecoveryNext
          \/ Shell!BellNext
          \/ Shell!DrawerNext
    \/ /\ page[1] \in {"shop", "product", "cart", "orders", "codes", "wallet", "productForm"}
       /\ \/ Store!ShopNext
          \/ Store!ProductNext
          \/ Store!CartNext
          \/ Store!OrdersNext
          \/ Store!CodesNext
          \/ Store!WalletNext
          \/ Store!ProductFormNext
    \/ /\ page[1] \in {"stream", "voice", "presence", "controls", "search"}
       /\ \/ Meeting!StreamNext
          \/ Meeting!VoiceNext
          \/ Meeting!PresenceNext
          \/ Meeting!ControlsNext
          \/ Meeting!SearchNext
    \/ /\ page[1] \in {"devices", "livekit", "recording"}
       /\ \/ Rtc!DevicesNext
          \/ Rtc!LiveKitNext
          \/ Rtc!RecordingNext
    \/ /\ page[1] \in {"sections", "frame", "input"}
       /\ \/ Section!SectionsNext
          \/ Section!FrameNext
          \/ Section!InputNext
    \/ /\ page[1] \in {"grengo", "env"}
       /\ \/ Grengo!GrengoNext
          \/ Grengo!EnvNext
    \/ /\ page[1] \in {"editor", "likes"}
       /\ \/ Editor!EditorNext
          \/ Editor!LikeNext
    \/ /\ page[1] \in {"inbox"}
       /\ \/ Inbox!InboxNext
    \/ /\ page[1] \in {"trash", "docSettings", "guide", "sourceList", "manage", "meta", "picker", "files", "badge", "reset"}
       /\ \/ Library!TrashNext
          \/ Library!SettingsNext
          \/ Library!GuideNext
          \/ Library!SourceListNext
          \/ Library!ManageNext
          \/ Library!MetaNext
          \/ Library!PickerNext
          \/ Library!FilesNext
          \/ Library!BadgeNext
          \/ Library!ResetNext
    \/ Fails

\* Pages are interchangeable, and so are the sites of a node.
Symmetry == Permutations(Slugs) \cup Permutations(Sites)

Spec == Init /\ [][Next]_spaVars

-----------------------------------------------------------------------------
\* A row says that something is being done with it.
RowBusy ==
    \/ page[1] = "uploads" /\ ui.deleting # {}
    \/ page[1] \in {"roles", "person"} /\ ui.toggling # {}
    \/ page[1] = "roles" /\ ~(ui.saving = None /\ ui.deleting = None)
    \/ page[1] = "customPages" /\ ~(ui.deleting = None /\ ui.setting = None)
    \/ page[1] = "recovery" /\ ui.acting # None

\* What else than a reply a page may be waiting for: a timer or an effect about
\* to run, a job's end; a conversation's messages that are not shown any more.
AwaitsElse ==
    \/ page[1] \in {"customPages", "picker"} /\ "timer" \in ui.on
    \/ page[1] = "product" /\ ui.due # {}
    \/ page[1] = "grengo" /\ ui.waits # {}
    \/ page[1] = "inbox" /\ atom.active = None

\* No page is left loading, saving or busy with a row when nothing is on its way
\* any more that would end it: however replies, failures, aborted requests and
\* overtaken selections interleave, every flag a handler sets is cleared by the
\* last of its continuations (the finally blocks of all page components).
SpinnersEnd == page[2] = "mounted" /\ (ui.busy # {} \/ RowBusy) => net # {} \/ AwaitsElse

\* A job whose end was pushed before its id was answered is not waited for
\* (triggerAndWaitForJob of the grengo dashboard).
NoJobMissed == Grengo!NoJobMissed

\* A draft without a timer, or an update held back, waits for an editor that is
\* open, or for a colour picker that went away with the focus (scheduleSave,
\* enterEdit and leaveEdit of PageBuilder, pendingIncoming of usePageData).
HeldWhileEditing == Editor!HeldWhileEditing

\* A submission retried because its answer was lost is recorded once (submit of
\* InteractiveSectionBlock and SubmitInteractive).
RecordedOnce == Content!RecordedOnce

\* Saving a section's design from a browser that does not know of a response
\* keeps the response (persistDesign and mergeInteractiveRecords).
ResponsesKept == Content!ResponsesKept

\* No verse but the one shown is spoken or waits to be, whatever cancelled
\* utterances still report, and while the reader is playing there is such an
\* utterance (useBibleSpeech).
NarratesWhatIsShown == Content!NarratesWhatIsShown

\* A queued upload never waits for nothing (processQueue and its finally).
NoIdleQueue == Shell!NoIdleQueue

\* A camera or microphone shown as on has a stream behind it, or one being opened
\* (useMediaDevices), whichever of overlapping toggles and failures comes last.
ActiveHasStream == Rtc!ActiveHasStream
=============================================================================
