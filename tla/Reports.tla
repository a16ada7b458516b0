------------------------------- MODULE Reports -------------------------------
(***************************************************************************)
(* The reports of the main view: the plan of a statement (ui/explain.go),   *)
(* the sessions of the server (ui/activity.go) and the comparison of two    *)
(* schemas (ui/schemadiff.go). Each is opened by a key and filled by a      *)
(* message that names the request it answers by a number.                   *)
(*                                                                         *)
(* ctrl+c is the hard key: it cancels what runs while CancelQuery is        *)
(* enabled, and quits otherwise. A script of the editor shares it.          *)
(***************************************************************************)
EXTENDS Naturals, FiniteSets

CONSTANTS
  Servers,    \* the profiles' servers, each a name as well
  NewNames,   \* names a profile may be renamed to
  None,
  Serverless, \* those of engines that run in this process
  MaxAsks,    \* bound on the requests of a behaviour
  MaxOthers   \* what is asked after as many is a plan

ASSUME ReportsAssumption ==
  /\ None \notin Servers \cup NewNames
  /\ Serverless \subseteq Servers
  /\ MaxAsks \in Nat /\ MaxOthers \in Nat

Names == Servers \cup NewNames
MaxGen == 3 * MaxAsks   \* a request per t on, then t off and an answer

VARIABLES
  server,   \* what Model.driver is connected to
  nameOf,   \* the names of the profiles
  dialog,   \* the open modal, with the driver and the list it captured
  query,    \* Model.query.run.running
  ctrlC,    \* CancelQuery is enabled
  plan,     \* Model.plan
  explains, \* the requests for plans in flight
  view,     \* Model.activity
  reads,    \* the process lists in flight
  beats,    \* how many ticks of each generation are set
  kills,    \* the kills in flight
  diff,     \* Model.diff
  workers,  \* the comparisons
  secret,   \* a diffSecretMsg is posted
  asks,     \* how many requests were made
  risks     \* what the user did not wait for

conns == <<server, nameOf>>
plans == <<query, ctrlC, plan, explains>>
sessions == <<view, reads, beats, kills>>
diffs == <<diff, workers, secret>>
reportsVars == <<conns, dialog, plans, sessions, diffs, asks, risks>>

NoModal == [kind |-> "none", on |-> None, listed |-> None]
Modal(k) == [NoModal EXCEPT !.kind = k]

\* The zero values; req and shows number requests, 0 is none.
NoPlan == [id |-> 0, running |-> FALSE, analyzed |-> FALSE, req |-> 0, shows |-> 0]
NoView == [conn |-> None, id |-> 0, loading |-> FALSE, auto |-> FALSE, gen |-> 0, of |-> None]
NoDiff == [id |-> 0, running |-> FALSE, req |-> 0, shows |-> 0]

active == IF server = None THEN None ELSE nameOf[server]
NoReportModal == dialog = NoModal

ReportsInit ==
  /\ server = None /\ nameOf = [s \in Servers |-> s]
  /\ dialog = NoModal
  /\ query = FALSE /\ ctrlC = FALSE
  /\ plan = NoPlan /\ explains = {}
  /\ view = NoView /\ reads = {} /\ beats = [g \in 0 .. MaxGen |-> 0] /\ kills = {}
  /\ diff = NoDiff /\ workers = {} /\ secret = FALSE
  /\ asks = 0 /\ risks = {}

\* Every request gets a number of its own, which the code does not have.
AskServer == asks < MaxAsks /\ asks' = asks + 1
AskOther == asks < MaxOthers /\ AskServer

\* What the user did, if it is the case.
Risk(name, is) == IF is THEN {name} ELSE {}

-----------------------------------------------------------------------------
(* Plans.                                                                  *)

\* A statement runs to measure its plan, with a cancel function.
Analyzing == plan.running /\ plan.analyzed

Cancelled == {[r EXCEPT !.cancelled = @ \/ r.n = plan.req] : r \in explains}

\* Plausible bug: the view is dropped and its statement runs on.
DroppedRunsOn == explains

\* An analyzed run that would be left behind is cancelled, and gives the key
\* back unless a script has it.
Dropped == IF Analyzing THEN Cancelled ELSE explains
KeyLeft == ctrlC /\ (query \/ ~Analyzing)

dropPlan == plan' = NoPlan /\ explains' = Dropped /\ ctrlC' = KeyLeft

\* The number starts over when no plan is open.
startExplain(analyzed) ==
  /\ AskServer
  /\ LET id == IF plan = NoPlan THEN 1 ELSE plan.id + 1
     IN  /\ plan' = [NoPlan EXCEPT !.id = id, !.running = TRUE, !.analyzed = analyzed, !.req = asks']
         /\ explains' = Dropped \cup {[n |-> asks', id |-> id, analyzed |-> analyzed, cancelled |-> FALSE]}
         /\ ctrlC' = (KeyLeft \/ analyzed)
         /\ risks' = risks \cup Risk("restart", \E r \in explains : r.id = id)

\* ctrl+e.
explainQuery ==
  /\ NoReportModal /\ server # None /\ ~plan.running
  /\ startExplain(FALSE)
  /\ UNCHANGED <<conns, dialog, query, sessions, diffs>>

MayAnalyze == server # None /\ ~plan.running /\ ~query

\* ctrl+a: a refusal and a confirmation are modals both.
explainAnalyzeQuery ==
  /\ NoReportModal /\ MayAnalyze
  /\ dialog' \in {Modal("info"), Modal("analyze")}
  /\ UNCHANGED <<conns, plans, sessions, diffs, asks, risks>>

ConfirmAnalyze ==
  /\ dialog.kind = "analyze"
  /\ dialog' = NoModal
  /\ IF server = None THEN UNCHANGED <<ctrlC, plan, explains, asks, risks>> ELSE startExplain(TRUE)
  /\ UNCHANGED <<conns, query, sessions, diffs>>

\* Plausible bug: the number of the request is not looked at.
AnswersPlanAny(r) == plan # NoPlan

AnswersPlan(r) == plan # NoPlan /\ plan.id = r.id

\* A plan or an error: either way the view shows the request's outcome.
finishExplain(r) ==
  /\ explains' = explains \ {r}
  /\ IF AnswersPlan(r)
     THEN /\ plan' = [plan EXCEPT !.running = FALSE, !.shows = r.n]
          /\ ctrlC' = (ctrlC /\ (~r.analyzed \/ query))
     ELSE UNCHANGED <<plan, ctrlC>>
  /\ UNCHANGED <<conns, dialog, query, sessions, diffs, asks, risks>>

\* esc closes a plan that is there; typing puts any away.
closePlan ==
  /\ NoReportModal /\ plan # NoPlan
  /\ dropPlan
  /\ UNCHANGED <<conns, dialog, query, sessions, diffs, asks, risks>>

\* A script takes the main view back.
startQuery ==
  /\ NoReportModal /\ server # None /\ ~query
  /\ query' = TRUE
  /\ plan' = NoPlan /\ explains' = Dropped /\ ctrlC' = TRUE
  /\ UNCHANGED <<conns, dialog, sessions, diffs, asks, risks>>

finishQuery ==
  /\ query
  /\ query' = FALSE /\ ctrlC' = FALSE
  /\ UNCHANGED <<conns, dialog, plan, explains, sessions, diffs, asks, risks>>

\* ctrl+c on a plan; on a script it is EditorSession's.
cancelQuery ==
  /\ NoReportModal /\ ctrlC /\ Analyzing
  /\ explains' = Cancelled
  /\ UNCHANGED <<conns, dialog, query, ctrlC, plan, sessions, diffs, asks, risks>>

-----------------------------------------------------------------------------
(* The sessions of the server.                                             *)

\* One more read of the list into v.
Refresh(v) ==
  /\ AskOther
  /\ view' = [v EXCEPT !.id = @ + 1, !.loading = TRUE]
  /\ reads' = reads \cup {[n |-> asks', id |-> v.id + 1, conn |-> active, server |-> server]}

\* A on the connections. A new list replaces the comparison, running or not.
openActivity ==
  /\ NoReportModal /\ server # None
  /\ IF view.conn = active
     THEN Refresh(view) /\ UNCHANGED <<diff, risks>>
     ELSE /\ Refresh([NoView EXCEPT !.conn = active])
          /\ diff' = NoDiff
          /\ risks' = risks \cup Risk("away", diff.running)
                            \cup Risk("reopen", \E g \in 0 .. MaxGen : beats[g] > 0)
  /\ UNCHANGED <<conns, dialog, plans, beats, kills, workers, secret>>

\* R on the list.
refreshActivity ==
  /\ NoReportModal /\ view # NoView
  /\ Refresh(view)
  /\ UNCHANGED <<conns, dialog, plans, beats, kills, diffs, risks>>

AnswersList(r) == view # NoView /\ r.id = view.id /\ r.conn = active

\* An engine without a server says so once and is not asked again by itself.
applyActivity(r) ==
  /\ reads' = reads \ {r}
  /\ IF ~AnswersList(r) THEN view' = view
     ELSE IF r.server \in Serverless
     THEN view' = [view EXCEPT !.loading = FALSE, !.of = None, !.auto = FALSE, !.gen = @ + 1]
     ELSE \E of \in {view.of, r.server} : view' = [view EXCEPT !.loading = FALSE, !.of = of]
  /\ UNCHANGED <<conns, dialog, plans, beats, kills, diffs, asks, risks>>

\* Plausible bug: the ticks of the last schedule go on.
NextGenSame == view.gen

NextGen == view.gen + 1

\* t: off, or on with a read at once and a tick.
toggleActivityAuto ==
  /\ NoReportModal /\ view # NoView
  /\ IF view.auto
     THEN view' = [view EXCEPT !.auto = FALSE, !.gen = NextGen] /\ UNCHANGED <<reads, beats, asks>>
     ELSE /\ Refresh([view EXCEPT !.auto = TRUE, !.gen = NextGen])
          /\ beats' = [beats EXCEPT ![NextGen] = @ + 1]
  /\ UNCHANGED <<conns, dialog, plans, kills, diffs, risks>>

Beats(g) == view # NoView /\ view.auto /\ g = view.gen /\ server # None

\* A tick of the schedule sets the next one and reads, unless a read is out.
activityTick(g) ==
  /\ beats[g] > 0
  /\ IF Beats(g)
     THEN ~view.loading /\ Refresh(view) /\ beats' = beats
     ELSE beats' = [beats EXCEPT ![g] = @ - 1] /\ UNCHANGED <<view, reads, asks>>
  /\ UNCHANGED <<conns, dialog, plans, kills, diffs, risks>>

closeActivity == view' = NoView

\* esc, and a relation or a trigger that takes the main view.
CloseActivity ==
  /\ NoReportModal /\ view # NoView
  /\ closeActivity
  /\ UNCHANGED <<conns, dialog, plans, reads, beats, kills, diffs, asks, risks>>

\* K captures the driver of the moment; the session is from the list shown.
killSelectedProcess ==
  /\ NoReportModal /\ view.of # None
  /\ dialog' = [kind |-> "kill", on |-> server, listed |-> view.of]
  /\ UNCHANGED <<conns, plans, sessions, diffs, asks, risks>>

ConfirmKill ==
  /\ dialog.kind = "kill"
  /\ dialog' = NoModal
  /\ AskOther
  /\ kills' = kills \cup {[n |-> asks', on |-> dialog.on, listed |-> dialog.listed, conn |-> nameOf[dialog.on]]}
  /\ UNCHANGED <<conns, plans, view, reads, beats, diffs, risks>>

\* The list is read again when the session is gone.
finishKill(k) ==
  /\ kills' = kills \ {k}
  /\ \/ UNCHANGED <<view, reads, asks>>
     \/ view # NoView /\ k.conn = active /\ Refresh(view)
  /\ UNCHANGED <<conns, dialog, plans, beats, diffs, risks>>

-----------------------------------------------------------------------------
(* The comparison of two schemas: a worker with sessions of its own.       *)

openSchemaDiff ==
  /\ NoReportModal /\ ~diff.running
  /\ dialog' = Modal("diff")
  /\ UNCHANGED <<conns, plans, sessions, diffs, asks, risks>>

\* The list of sessions is put away; the number starts over without a view.
startSchemaDiff ==
  /\ AskOther
  /\ LET id == IF diff = NoDiff THEN 1 ELSE diff.id + 1
     IN  /\ diff' = [id |-> id, running |-> TRUE, req |-> asks', shows |-> 0]
         /\ workers' = workers \cup {[n |-> asks', id |-> id, at |-> "work", readers |-> 1, posted |-> 0]}
  /\ closeActivity
  /\ risks' = risks \cup Risk("away", diff.running)
  /\ UNCHANGED <<reads, beats, kills>>

AskSecret == dialog' = Modal("diffSecret") /\ UNCHANGED <<diff, workers, sessions, asks, risks>>

\* The form is filled in, and may have to be followed by a password.
CompareThem ==
  /\ dialog.kind = "diff"
  /\ AskSecret \/ (startSchemaDiff /\ dialog' = NoModal)
  /\ UNCHANGED <<conns, plans, secret>>

GiveDiffSecret ==
  /\ dialog.kind = "diffSecret" /\ ~secret
  /\ dialog' = NoModal
  /\ secret' = TRUE
  /\ UNCHANGED <<conns, plans, sessions, diff, workers, asks, risks>>

\* The other side may have a password too, asked for over what is open.
promptDiffSecrets ==
  /\ secret
  /\ secret' = FALSE
  /\ AskSecret \/ (startSchemaDiff /\ UNCHANGED dialog)
  /\ UNCHANGED <<conns, plans>>

Becomes(w, u) == workers' = (workers \ {w}) \cup {u}
ReportsAside == UNCHANGED <<conns, dialog, plans, sessions, diff, secret, asks, risks>>

DiffReports(w) == w.at = "work" /\ Becomes(w, [w EXCEPT !.at = "send"]) /\ ReportsAside

\* The channel is unbuffered: a send needs a command waiting in it.
DiffHands(w) ==
  /\ w.at = "send" /\ w.readers > 0
  /\ Becomes(w, [w EXCEPT !.at = "work", !.readers = @ - 1, !.posted = @ + 1])
  /\ ReportsAside

DiffEnds(w) == w.at = "work" /\ Becomes(w, [w EXCEPT !.at = "done"]) /\ ReportsAside

DiffFinishes(w) ==
  /\ w.at = "done" /\ w.readers > 0
  /\ Becomes(w, [w EXCEPT !.at = "sent", !.readers = @ - 1])
  /\ ReportsAside

AnswersDiff(w) == diff # NoDiff /\ diff.id = w.id

\* A note is shown and the next one waited for, on the view's channel.
ReadDiffOn(w) == AnswersDiff(w) /\ diff.running

applyDiffProgress(w) ==
  /\ w.posted > 0
  /\ workers' = {[u EXCEPT
       !.posted = IF u = w THEN @ - 1 ELSE @,
       !.readers = IF ReadDiffOn(w) /\ u.n = diff.req THEN @ + 1 ELSE @] : u \in workers}
  /\ ReportsAside

finishDiff(w) ==
  /\ w.at = "sent"
  /\ Becomes(w, [w EXCEPT !.at = "gone"])
  /\ diff' = IF AnswersDiff(w) THEN [diff EXCEPT !.running = FALSE, !.shows = w.n] ELSE diff
  /\ UNCHANGED <<conns, dialog, plans, sessions, secret, asks, risks>>

\* esc, refused while the comparison runs.
closeDiff ==
  /\ NoReportModal /\ diff # NoDiff /\ ~diff.running
  /\ diff' = NoDiff
  /\ UNCHANGED <<conns, dialog, plans, sessions, workers, secret, asks, risks>>

-----------------------------------------------------------------------------
(* Around the reports.                                                     *)

\* The plan and the list belong to the connection that is left, the
\* comparison does not. A script that runs is told to stop and goes on.
resetReports == dropPlan /\ closeActivity

\* A dial ended, under whatever modal is open.
ReportsConnected(s) ==
  /\ server' = s
  /\ resetReports
  /\ UNCHANGED <<nameOf, dialog, query, reads, beats, kills, diffs, asks, risks>>

ReportsConnectFailed ==
  /\ dialog' = Modal("info")
  /\ UNCHANGED <<conns, plans, sessions, diffs, asks, risks>>

ReportsDisconnect ==
  /\ NoReportModal /\ server # None
  /\ server' = None
  /\ resetReports
  /\ UNCHANGED <<nameOf, dialog, query, reads, beats, kills, diffs, asks, risks>>

\* The profile of the live connection is renamed, once in a behaviour.
Rename(n) ==
  /\ NoReportModal /\ server # None /\ "rename" \notin risks
  /\ \A s \in Servers : nameOf[s] # n
  /\ nameOf' = [nameOf EXCEPT ![server] = n]
  /\ risks' = risks \cup {"rename"}
  /\ UNCHANGED <<server, dialog, plans, sessions, diffs, asks>>

DismissReport ==
  /\ ~NoReportModal
  /\ dialog' = NoModal
  /\ UNCHANGED <<conns, plans, sessions, diffs, asks, risks>>

ReportKeys ==
  \/ explainQuery \/ explainAnalyzeQuery \/ ConfirmAnalyze \/ closePlan \/ startQuery \/ cancelQuery
  \/ openActivity \/ refreshActivity \/ toggleActivityAuto \/ CloseActivity
  \/ killSelectedProcess \/ ConfirmKill
  \/ openSchemaDiff \/ CompareThem \/ GiveDiffSecret \/ closeDiff
  \/ ReportsDisconnect \/ DismissReport \/ \E n \in Names : Rename(n)

ReportMessages ==
  \/ \E r \in explains : finishExplain(r)
  \/ finishQuery
  \/ \E r \in reads : applyActivity(r)
  \/ \E g \in 0 .. MaxGen : activityTick(g)
  \/ \E k \in kills : finishKill(k)
  \/ promptDiffSecrets
  \/ \E w \in workers : applyDiffProgress(w) \/ finishDiff(w)
  \/ \E s \in Servers : ReportsConnected(s)
  \/ ReportsConnectFailed

ReportWorkers == \E w \in workers : DiffReports(w) \/ DiffHands(w) \/ DiffEnds(w) \/ DiffFinishes(w)

ReportsNext == ReportKeys \/ ReportMessages \/ ReportWorkers

ReportsSpec == ReportsInit /\ [][ReportsNext]_reportsVars

-----------------------------------------------------------------------------
(* Every variable keeps its type.                                          *)
ReportsTypeOK ==
  /\ server \in Servers \cup {None} /\ nameOf \in [Servers -> Names]
  /\ dialog \in [kind : {"none", "info", "analyze", "kill", "diff", "diffSecret"},
                on : Servers \cup {None}, listed : Servers \cup {None}]
  /\ query \in BOOLEAN /\ ctrlC \in BOOLEAN
  /\ plan \in [id : 0 .. MaxAsks, running : BOOLEAN, analyzed : BOOLEAN,
               req : 0 .. MaxAsks, shows : 0 .. MaxAsks]
  /\ explains \subseteq [n : 1 .. MaxAsks, id : 1 .. MaxAsks, analyzed : BOOLEAN, cancelled : BOOLEAN]
  /\ view \in [conn : Names \cup {None}, id : 0 .. MaxAsks, loading : BOOLEAN, auto : BOOLEAN,
               gen : 0 .. MaxGen, of : Servers \cup {None}]
  /\ (view # NoView => server # None)
  /\ reads \subseteq [n : 1 .. MaxAsks, id : 1 .. MaxAsks, conn : Names, server : Servers]
  /\ beats \in [0 .. MaxGen -> 0 .. MaxAsks]
  /\ kills \subseteq [n : 1 .. MaxAsks, on : Servers, listed : Servers, conn : Names]
  /\ diff \in [id : 0 .. MaxAsks, running : BOOLEAN, req : 0 .. MaxAsks, shows : 0 .. MaxAsks]
  /\ workers \subseteq [n : 1 .. MaxAsks, id : 1 .. MaxAsks, at : {"work", "send", "done", "sent", "gone"},
                       readers : Nat, posted : Nat]
  /\ secret \in BOOLEAN /\ asks \in 0 .. MaxAsks
  /\ risks \subseteq {"restart", "reopen", "away", "rename"}

(* A statement that runs can be seen and stopped. ctrl+c cancels exactly   *)
(* while a script or an analyzed plan runs and quits otherwise, and an     *)
(* analyzed statement that was not told to stop is the one on screen       *)
(* (explain.go dropPlan: "the statement should not keep running unseen";   *)
(* startExplain: "ctrl+c, as for any other query, is how it stops").       *)
Stoppable ==
  "restart" \notin risks =>
    /\ ctrlC = (query \/ Analyzing)
    /\ \A r \in explains : r.analyzed /\ ~r.cancelled => plan.running /\ plan.req = r.n

(* A report shows what was asked for when it was opened: no late answer    *)
(* fills it (explain.go planView: "a stale reply cannot fill a view the    *)
(* user has already dismissed", schemadiff.go diffView).                   *)
OfItsRequest ==
  /\ "restart" \notin risks => plan.shows \in {0, plan.req}
  /\ "away" \notin risks => diff.shows \in {0, diff.req}

(* Whatever says it is loading has an answer under way that will be taken, *)
(* and the worker of a comparison always has a reader (schemadiff.go       *)
(* diffView: "so the worker never blocks on an abandoned channel").        *)
Awaited ==
  /\ plan.running => \E r \in explains : r.n = plan.req
  /\ view.loading /\ "rename" \notin risks => \E r \in reads : AnswersList(r)
  /\ "away" \notin risks => \A w \in workers :
       w.at # "gone" => /\ diff.running /\ diff.req = w.n
                        /\ w.readers + w.posted = IF w.at = "sent" THEN 0 ELSE 1

(* A list refreshes itself at one rate, and only while it says so          *)
(* (activity.go toggleActivityAuto: "turning it off and on again does not  *)
(* double the rate").                                                      *)
OneBeat ==
  view # NoView /\ "reopen" \notin risks => beats[view.gen] = IF view.auto THEN 1 ELSE 0

(* A session is killed on the server that listed it, through connections   *)
(* replaced while the list was on its way or the question open             *)
(* (activity.go killSelectedProcess, applyActivity).                       *)
KillsWhereListed ==
  "rename" \notin risks => \A k \in kills : k.on = k.listed

(* What is listed and shown is what was asked for, and is acted on where it *)
(* came from.                                                              *)
AnswersAsAsked == ReportsTypeOK /\ OfItsRequest /\ KillsWhereListed

(* A report that waits is answered, and one that refreshes itself does so at *)
(* one rate.                                                               *)
Refreshed == Awaited /\ OneBeat
=============================================================================
