----------------------------- MODULE AdminPages -----------------------------
(***************************************************************************)
(* Pages of the administrator: page "datasource" is DataSourceEditorPage   *)
(* (a data source's code is edited, run in the browser and saved), page    *)
(* "deployments" DeploymentsPage (instances are provisioned, started,      *)
(* stopped and torn down, and their logs followed).                        *)
(***************************************************************************)
EXTENDS Spa

CONSTANTS MaxEdit       \* bound: versions of an edited text

-----------------------------------------------------------------------------
(* The data source editor.  Code is a version number; db.ds is the stored  *)
(* one, None before the source is created.                                 *)

mountDataSource(new) ==
    [busy |-> IF new THEN {} ELSE {"load"}, on |-> {}, new |-> new, named |-> ~new,
     files |-> 0, env |-> 0, items |-> 0, stats |-> None, panel |-> "preview"]
DataSourceInit ==
    \/ Begins("datasource", mountDataSource(TRUE), [gone |-> FALSE], {}, [n |-> 0, ds |-> None])
    \/ Begins("datasource", mountDataSource(FALSE), [gone |-> FALSE], Add({}, "fetchDS", 0), [n |-> 0, ds |-> 1])

\* fetchDS: the source, then its environment; a source that is not there leaves
\* the page.
gotDS(r) ==
    /\ Replied(r, {"fetchDS"})
    /\ \/ r.rep.ok /\ Goes(r, [ui EXCEPT !.files = r.rep.val, !.named = TRUE], "fetchEnv", 0)
       \/ ~r.rep.ok /\ DoneAtom(r, Idle(ui, "load"), [gone |-> TRUE])
gotEnv(r) == Replied(r, {"fetchEnv"}) /\ Done(r, Idle(IF r.rep.ok THEN [ui EXCEPT !.env = r.rep.val] ELSE ui, "load"))

ToolBar ==
    IF "load" \in ui.busy THEN {}
    ELSE {"edit", "name"} \cup (IF "run" \in ui.busy THEN {} ELSE {"run"})
         \cup (IF "save" \in ui.busy THEN {} ELSE {"save"}) \cup (IF ui.new THEN {} ELSE {"delete"})
ResultsPanel ==
    (IF ui.panel = "preview" /\ ui.items > 0 /\ ~ui.new THEN {"saveSection"} ELSE {}) \cup {"preview", "diagnostics"}
SectionForm == IF "section" \in ui.on /\ "saveSection" \in ResultsPanel THEN {"close", "submit"} ELSE {}

editFiles == "edit" \in ToolBar /\ ui.files < MaxEdit /\ Set([ui EXCEPT !.files = @ + 1])
editName == "name" \in ToolBar /\ Set([ui EXCEPT !.named = ~@])
\* handleSave: a name is required; a new source, once created, is shown under its
\* own address, which fetches it again.
handleSave == "save" \in ToolBar /\ ui.named /\ Call(Busy(ui, "save"), IF ui.new THEN "create" ELSE "update", ui.files)
savedDS(r) ==
    /\ Replied(r, {"create", "update"})
    /\ \/ r.op = "create" /\ r.rep.ok /\ r.live /\ Goes(r, Idle([ui EXCEPT !.new = FALSE], "save"), "fetchDS", 0)
       \/ (r.op = "update" \/ ~r.rep.ok \/ ~r.live) /\ Done(r, Idle(ui, "save"))
confirmDelete == "delete" \in ToolBar /\ Call(ui, "delete", 0)
deletedDS(r) == Replied(r, {"delete"}) /\ DoneAtom(r, ui, IF r.rep.ok THEN [gone |-> TRUE] ELSE atom)

\* handleRun: what the last run left is cleared, the code compiled by the server ...
handleRun ==
    "run" \in ToolBar /\ Call(Busy([ui EXCEPT !.items = 0, !.stats = None], "run"), "compile", ui.files)
Finished(o, k) ==
    Idle([ui EXCEPT !.stats = o, !.items = k, !.panel = IF o = "success" THEN "preview" ELSE "diagnostics"], "run")
\* ... errors end the run; otherwise the code is evaluated, for 15 s at most ...
compiled(r) ==
    /\ Replied(r, {"compile"})
    /\ \/ ~r.rep.ok /\ Done(r, Finished("runtime_error", 0))
       \/ r.rep.ok /\ Done(r, Finished("compile_error", 0))
       \/ r.rep.ok /\ Goes(r, ui, "evaluate", 0)
\* ... and of the items it returns those without heading and subheading skipped.
sanitized(k) == 0..k
evaluated(r) ==
    /\ Replied(r, {"evaluate"})
    /\ \/ ~r.rep.ok /\ \E o \in {"runtime_error", "timeout", "invalid_return"} : Done(r, Finished(o, 0))
       \/ r.rep.ok /\ \E k \in sanitized(1) : Done(r, Finished("success", k))
setActivePanel(p) == p \in ResultsPanel /\ p # ui.panel /\ Set([ui EXCEPT !.panel = p])

\* handleSaveSection: what the run previews becomes a section preset.
showSaveSection == "saveSection" \in ResultsPanel /\ Set(Toggle(ui, "section"))
handleSaveSection == "submit" \in SectionForm /\ "section" \notin ui.busy /\ Call(Busy(ui, "section"), "preset", 0)
sectionSaved(r) ==
    Replied(r, {"preset"}) /\ Done(r, Idle(IF r.rep.ok THEN Close(ui, "section") ELSE ui, "section"))

DataSourceServer(r) ==
    \/ r.op = "fetchDS" /\ db.ds # None /\ Read(r, db.ds)
    \/ r.op \in {"create", "update"} /\ Answer(r, [db EXCEPT !.ds = r.arg], 0)
    \/ r.op = "delete" /\ Answer(r, [db EXCEPT !.ds = None], 0)
    \/ r.op \in {"fetchEnv", "compile", "evaluate", "preset"} /\ Read(r, 0)

DataSourceNext ==
    /\ On("datasource")
    /\ \/ ~atom.gone /\ ( \/ editFiles \/ editName \/ handleSave \/ confirmDelete \/ handleRun
                          \/ showSaveSection \/ handleSaveSection
                          \/ \E p \in {"preview", "diagnostics"} : setActivePanel(p))
       \/ \E r \in net : \/ gotDS(r) \/ gotEnv(r) \/ savedDS(r) \/ deletedDS(r) \/ compiled(r)
                         \/ evaluated(r) \/ sectionSaved(r) \/ DataSourceServer(r)
       \/ atom.gone /\ Quit("datasource")

-----------------------------------------------------------------------------
(* Deployments.  db.inst: status and apps of every instance; ui.inst: the  *)
(* instances shown, with the status shown for them.                        *)

Instances == {"i1", "i2"}
DeploymentsInit ==
    Begins("deployments", [busy |-> {"load"}, on |-> {}, inst |-> <<>>, expanded |-> {}, menu |-> None],
           [n |-> 0], Add({}, "instances", None), [n |-> 0, inst |-> [i \in {"i1"} |-> "running"]])

\* fetchInstances: on arrival and after every operation.  A changed list has its
\* instances subscribed to, whether expanded or not.
fetchInstances(u) == Busy(u, "load")
Subscribed(list) == subs \cup DOMAIN list
gotInstances(r) ==
    /\ Replied(r, {"instances"})
    /\ LET list == IF r.rep.ok THEN r.rep.val ELSE ui.inst IN
       /\ ui' = Idle([ui EXCEPT !.inst = list], "load")
       /\ subs' = IF r.rep.ok THEN Subscribed(list) ELSE subs
    /\ net' = net \ {r} /\ UNCHANGED <<page, atom, db, push>>

Rows == IF "load" \in ui.busy THEN {} ELSE DOMAIN ui.inst
RowActions(i) ==
    CASE ui.inst[i] = "stopped" -> {"start", "delete"}
      [] ui.inst[i] = "running" -> {"restart", "stop", "apps", "delete"}
      [] OTHER -> {"delete"}
AppsMenu == IF ui.menu = None THEN {} ELSE {"install"}

\* Start, stop, restart; tear-down, after its typed confirmation; apps
\* (installed or uninstalled: the page goes on the same way).
instanceOp(op, i) ==
    \/ i \in Rows /\ op \in RowActions(i) \ {"apps"} /\ Call(ui, op, i)
    \/ op \in AppsMenu /\ i = ui.menu /\ Call([ui EXCEPT !.menu = None], op, i)
setOpenAppsMenu(i) == i \in Rows /\ "apps" \in RowActions(i) /\ Set([ui EXCEPT !.menu = IF @ = i THEN None ELSE i])
setShowNewModal == "load" \notin ui.busy /\ Set(Toggle(ui, "modal"))
provisionInstance == "modal" \in ui.on /\ Call(ui, "provision", "i2")
instanceOpDone(r) ==
    /\ Replied(r, {"start", "stop", "restart", "delete", "install", "provision"})
    /\ \/ ~r.rep.ok /\ Done(r, ui)
       \/ r.rep.ok /\ Goes(r, fetchInstances(IF r.op = "provision" THEN Close(ui, "modal") ELSE ui), "instances", None)

\* The row's console: opening it subscribes and fetches the log so far, closing
\* it unsubscribes.
toggleExpand(i) ==
    /\ i \in Rows
    /\ IF i \in ui.expanded
       THEN subs' = subs \ {i} /\ ui' = [ui EXCEPT !.expanded = @ \ {i}]
       ELSE subs' = subs \cup {i} /\ ui' = [ui EXCEPT !.expanded = @ \cup {i}]
    /\ UNCHANGED <<page, atom, net, db, push>>
\* provisioning:status: the row shows it; the list has changed.
handleStatus ==
    /\ push # <<>> /\ push' = Tail(push)
    /\ LET p == Head(push)
           list == IF p.i \in DOMAIN ui.inst THEN [ui.inst EXCEPT ![p.i] = p.status] ELSE ui.inst
       IN  ui' = [ui EXCEPT !.inst = list] /\ subs' = Subscribed(list)
    /\ UNCHANGED <<page, atom, net, db>>

After(op, s) ==
    CASE op \in {"start", "restart"} -> "running" [] op = "stop" -> "stopped" [] OTHER -> s
Operated(op, i) ==
    CASE op = "delete" -> [j \in DOMAIN db.inst \ {i} |-> db.inst[j]]
      [] op = "provision" -> [j \in DOMAIN db.inst \cup {i} |-> IF j = i THEN "pending" ELSE db.inst[j]]
      [] OTHER -> [db.inst EXCEPT ![i] = After(op, @)]
DeploymentsServer(r) ==
    \/ r.op = "instances" /\ Read(r, db.inst)
    \/ /\ r.op # "instances" /\ (r.op = "provision" \/ r.arg \in DOMAIN db.inst) /\ db.n < MaxChanges
       /\ Answer(r, [db EXCEPT !.inst = Operated(r.op, r.arg), !.n = @ + 1], None)
\* The provisioner goes on by itself; who is subscribed hears of it.
statusChanges ==
    \E i \in DOMAIN db.inst : \E s \in {"running", "failed"} \ {db.inst[i]} :
        Changes([db EXCEPT !.inst[i] = s], IF i \in subs THEN <<[i |-> i, status |-> s]>> ELSE <<>>)

DeploymentsNext ==
    /\ On("deployments")
    /\ \/ \E i \in Instances : toggleExpand(i) \/ setOpenAppsMenu(i)
       \/ \E i \in Instances, op \in {"start", "stop", "restart", "delete", "install"} : instanceOp(op, i)
       \/ setShowNewModal \/ provisionInstance \/ handleStatus \/ statusChanges
       \/ \E r \in net : gotInstances(r) \/ instanceOpDone(r) \/ DeploymentsServer(r)
=============================================================================
