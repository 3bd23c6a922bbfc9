----------------------------- MODULE GrengoPage -----------------------------
(***************************************************************************)
(* The host dashboard (components/admin/GrengoDashboard.tsx): a session    *)
(* that must stay valid, jobs that are started by a message and end by a   *)
(* push, and the editor of a site's .env file.                             *)
(***************************************************************************)
EXTENDS Spa

CONSTANTS
    Sites,          \* sites on the node
    MaxJobs         \* bound: jobs started

\* What a job was started for, and the flag that is set meanwhile: "command" is
\* compose, ship, migrate or the console, whose continuations do the same.
Kinds == {"site", "export", "command", "create", "import"}
FlagOf(k) == IF k = "export" THEN "site" ELSE k

\* sessionValid, the busy flags, the promises that wait for a job's end
\* (tracked id and what ended before it was known), and activeJobs.
GrengoMounted ==
    [busy |-> {}, valid |-> "checking", waits |-> {}, active |-> {}]

GrengoInit ==
    Begins("grengo", GrengoMounted, None, Add({}, "validate", None),
           [n |-> 0, jobs |-> <<>>])

Ready == On("grengo") /\ ui.valid = "yes"

\* What can be started: in the toolbar and the compose card, in a site's row
\* (all off while the site is busy, exporting also while such a job runs), in
\* the open forms.
ToolbarView == {"command"} \ ui.busy
RowView ==
    IF "site" \in ui.busy THEN {}
    ELSE {"site"} \cup ({"export"} \ {j[2] : j \in ui.active})
CreateFormView == {"create"} \ ui.busy
ImportFormView == {"import"} \ ui.busy

-----------------------------------------------------------------------------
(* The session.                                                            *)

\* The first validation loads the dashboard; a failed one leaves it.
validateSession(r) ==
    /\ Replied(r, {"validate"})
    /\ IF ~r.rep.ok THEN Quit("grengo")
       ELSE /\ ui' = [ui EXCEPT !.valid = "yes", !.busy = IF ui.valid = "yes" THEN @ ELSE @ \cup {"load"}]
            /\ net' = IF ui.valid = "yes" THEN net \ {r} ELSE Add(net \ {r}, "sites", None)
            /\ UNCHANGED <<page, atom, db, subs, push>>

KeepAlive == Ready /\ (\A r \in net : r.op # "validate") /\ Call(ui, "validate", None)

\* End Session: the request is best effort, the page is left in any case.
EndSession == Quit("grengo")

\* fetchSites, and with it the exports, jobs, statistics, storage and system
\* information: the reply ends what waits for the refresh.
Refresh == Ready /\ "load" \notin ui.busy /\ Call(Busy(ui, "load"), "sites", None)
SitesFetched(r) ==
    /\ Replied(r, {"sites"})
    /\ Done(r, Idle(ui, IF r.arg = None THEN "load" ELSE FlagOf(r.arg)))

-----------------------------------------------------------------------------
(* Jobs.                                                                   *)

\* sendGrengoJobAction: the message is sent, its answer is the job's id.
StartJob(k, op) ==
    /\ Len(db.jobs) < MaxJobs
    /\ Call([Busy(ui, FlagOf(k)) EXCEPT !.waits = @ \cup {[kind |-> k, id |-> 0, seen |-> {}]}], op, k)

siteAction == Ready /\ "site" \in RowView /\ StartJob("site", "job")
handleExport == Ready /\ "export" \in RowView /\ StartJob("export", "job")
runCommand == Ready /\ "command" \in ToolbarView /\ StartJob("command", "job")
CreateSite == Ready /\ "create" \in CreateFormView /\ StartJob("create", "job")

\* An import uploads the archive first and then asks for the job.
handleImport == Ready /\ "import" \in ImportFormView /\ StartJob("import", "upload")
ArchiveUploaded(r) ==
    /\ Replied(r, {"upload"}) /\ r.rep.ok
    /\ Goes(r, ui, "job", r.arg)

\* A promise is settled: site actions and exports refresh a list before they
\* clear their flag, and only when they succeeded; the forms refresh as well but
\* do not wait.
Settled(u, n, w, ok) ==
    LET v == [u EXCEPT !.waits = @ \ {w}]
        waits == ok /\ w.kind \in {"site", "export"}
    IN  [u |-> IF waits THEN v ELSE Idle(v, FlagOf(w.kind)),
         n |-> IF waits THEN Add(n, "sites", w.kind) ELSE n]

Ends(w, e) == w.id = e.id /\ e.st \in {"completed", "failed"}

\* triggerAndWaitForJob, when the id comes: updates that came before it were
\* buffered and are looked at now.
JobIdKnown(r) ==
    /\ Replied(r, {"job", "upload"}) /\ (r.op = "upload" => ~r.rep.ok)
    /\ \E w \in ui.waits : w.kind = r.arg /\ w.id = 0 /\
       LET v == [w EXCEPT !.id = r.rep.val]
           u == [ui EXCEPT !.waits = (@ \ {w}) \cup {v}]
           past == {e \in w.seen : r.rep.ok /\ Ends(v, e)}
           s == IF ~r.rep.ok THEN Settled(ui, net \ {r}, w, FALSE)
                ELSE IF past = {} THEN [u |-> u, n |-> net \ {r}]
                ELSE Settled(u, net \ {r}, v, \E e \in past : e.st = "completed")
       IN  ui' = s.u /\ net' = s.n /\ UNCHANGED <<page, atom, db, subs, push>>

\* The jobs the dashboard shows as running.
ActiveJobs(e) ==
    IF e.st = "running" THEN ui.active \cup {<<e.id, e.kind>>} ELSE ui.active \ {<<e.id, e.kind>>}
\* A mutant of Buffered: promises that have no id yet let updates pass.
BufferedNot(e) == [ui EXCEPT !.active = ActiveJobs(e)]

\* A job update: activeJobs follows it; promises without an id buffer it, the
\* one it is for is settled by the end of the job.
Buffered(e) ==
    [ui EXCEPT !.active = ActiveJobs(e),
               !.waits = {IF w.id = 0 THEN [w EXCEPT !.seen = IF e.st = "running" THEN @ ELSE @ \cup {e}] ELSE w : w \in @}]

handleJobUpdate ==
    /\ On("grengo") /\ push # <<>> /\ push' = Tail(push)
    /\ LET e == Head(push)
           u == Buffered(e)
           mine == {w \in u.waits : Ends(w, e)}
       IN  IF mine = {} THEN ui' = u /\ UNCHANGED net
           ELSE LET s == Settled(u, net, CHOOSE w \in mine : TRUE, e.st = "completed")
                IN  ui' = s.u /\ net' = s.n
    /\ UNCHANGED <<page, atom, db, subs>>

-----------------------------------------------------------------------------
(* The server: a job runs and ends, each time pushing its state.           *)
Update(i, st) == <<[id |-> i, st |-> st, kind |-> db.jobs[i].kind]>>

GrengoServes(r) ==
    \/ r.op \in {"validate", "sites", "upload"} /\ Read(r, None)
    \/ /\ r.op = "job" /\ Len(db.jobs) < MaxJobs
       /\ LET i == Len(db.jobs) + 1 IN
          AnswerPush(r, [db EXCEPT !.jobs = Append(@, [kind |-> r.arg, st |-> "running"])], i,
                     <<[id |-> i, st |-> "running", kind |-> r.arg]>>)

JobEnds ==
    /\ On("grengo")
    /\ \E i \in 1..Len(db.jobs), st \in {"completed", "failed"} :
        /\ db.jobs[i].st = "running"
        /\ db' = [db EXCEPT !.jobs[i].st = st] /\ Sent(Update(i, st))
        /\ UNCHANGED <<page, ui, atom, net, subs>>

\* The acknowledgement that carries the job's id is lost or late: 15 s later the
\* browser gives up, the job goes on.
AckTimeout(r) ==
    /\ Replied(r, {"job"}) /\ r.rep.ok
    /\ net' = Reply(r, FALSE, None) /\ UNCHANGED <<page, ui, atom, db, subs, push>>

GrengoReplies(r) ==
    validateSession(r) \/ SitesFetched(r) \/ ArchiveUploaded(r) \/ JobIdKnown(r)

GrengoNext ==
    \/ KeepAlive \/ EndSession \/ Refresh
    \/ siteAction \/ handleExport \/ runCommand \/ CreateSite \/ handleImport
    \/ handleJobUpdate \/ JobEnds
    \/ On("grengo") /\ \E r \in net : GrengoServes(r) \/ AckTimeout(r) \/ GrengoReplies(r)

-----------------------------------------------------------------------------
(* The .env editor, a machine of its own beside the jobs.                  *)

EnvInit ==
    Begins("env", [busy |-> {}, site |-> None, text |-> None, dirty |-> FALSE], None, {},
           [n |-> 0, env |-> [s \in Sites |-> <<s, 0>>]])

EnvView ==
    {"edit"} \cup (IF ui.site = None THEN {} ELSE {"close"})
    \cup (IF ui.site # None /\ "envLoading" \notin ui.busy THEN {"type"} ELSE {})
    \cup (IF ui.site # None /\ ui.dirty /\ "envSaving" \notin ui.busy THEN {"save"} ELSE {})

\* Opening asks for the file; the text of the file before stays until it comes.
openEnvEditor(s) ==
    On("env") /\ "edit" \in EnvView /\ Call([Busy(ui, "envLoading") EXCEPT !.site = s], "env", s)
EnvLoaded(r) ==
    /\ On("env") /\ Replied(r, {"env"})
    /\ LET u == Idle(ui, "envLoading") IN
       Done(r, IF r.rep.ok THEN [u EXCEPT !.text = r.rep.val, !.dirty = FALSE] ELSE u)
closeEnvEditor ==
    On("env") /\ "close" \in EnvView /\ Set([ui EXCEPT !.site = None, !.text = None, !.dirty = FALSE])
DraftChange == On("env") /\ "type" \in EnvView /\ ~ui.dirty /\ Set([ui EXCEPT !.dirty = TRUE])
saveEnv ==
    On("env") /\ "save" \in EnvView /\ Call(Busy(ui, "envSaving"), "saveEnv", <<ui.site, ui.text>>)
EnvSaved(r) ==
    /\ On("env") /\ Replied(r, {"saveEnv"})
    /\ LET u == Idle(ui, "envSaving") IN Done(r, IF r.rep.ok THEN [u EXCEPT !.dirty = FALSE] ELSE u)

EnvServes(r) ==
    \/ r.op = "env" /\ Read(r, db.env[r.arg])
    \/ /\ r.op = "saveEnv" /\ db.n < MaxChanges
       /\ LET old == r.arg[2] IN
          Answer(r, [db EXCEPT !.env[r.arg[1]] = IF old = None THEN <<None, 1>> ELSE <<old[1], 1>>, !.n = @ + 1], None)

EnvNext ==
    \/ \E s \in Sites : openEnvEditor(s)
    \/ closeEnvEditor \/ DraftChange \/ saveEnv
    \/ On("env") /\ \E r \in net : EnvServes(r) \/ EnvLoaded(r) \/ EnvSaved(r)

-----------------------------------------------------------------------------
\* A job's end is never missed (triggerAndWaitForJob): once the id is known and
\* nothing is on its way, nobody still waits for a job that has ended, even when
\* the end was pushed before the id was answered.
NoJobMissed ==
    On("grengo") /\ push = <<>> =>
        \A w \in ui.waits : w.id # 0 => db.jobs[w.id].st = "running"
=============================================================================
