--------------------------- MODULE EditorSession ---------------------------
(***************************************************************************)
(* The update loop around the query editor: connections dialled, replaced  *)
(* and closed (ui/model.go, ui/connections.go), scripts run by a worker    *)
(* goroutine (ui/query.go), the mirror of the editor's transaction         *)
(* (ui/tx.go), and the modals that stand between a key and what it does.   *)
(*                                                                         *)
(* The loop reduces one message at a time. Every command runs in a         *)
(* goroutine and posts a message when it ends, in any order. A modal takes *)
(* the keys; messages are reduced under it all the same.                   *)
(***************************************************************************)
EXTENDS Naturals, FiniteSets

CONSTANTS
  Sessions,   \* the drivers dials return, 1..n in the order they take over
  Txs,        \* identities of the handles Begin returns, each used once
  Runs,       \* run ids, 1..n
  None,       \* no driver, no handle
  MaxDials,   \* bound on the dials of a behaviour
  MaxStmts    \* bound on the statements of a script

ASSUME ConstantsAssumption ==
  /\ None \notin Sessions \cup Txs
  /\ Sessions \subseteq Nat \ {0}
  /\ Runs \subseteq Nat \ {0}
  /\ MaxDials \in Nat
  /\ MaxStmts \in Nat \ {0}

VARIABLES
  live,      \* Model.driver
  dialed,    \* dials started so far
  dials,     \* of those, still in flight
  phase,     \* a driver: "unused", "open", "closing", "drained", "closed"
  modal,     \* the open modal
  tx,        \* Model.query.tx
  begins,    \* drivers with a BEGIN in flight
  begun,     \* txBegunMsg not reduced yet: the driver and the handle
  ends,      \* handles with a COMMIT or ROLLBACK in flight
  ended,     \* their replies not reduced yet
  handle,    \* a handle: its driver and db.TxState
  run,       \* Model.query.run
  worker,    \* the goroutine of each run
  post,      \* what it sent and the loop has not reduced
  over       \* the program has quit

conns == <<live, dialed, dials, phase>>
txn == <<tx, begins, begun, ends, ended, handle>>
script == <<run, worker, post>>
vars == <<conns, modal, txn, script, over>>

NoModal == "none"
NoTx == [driver |-> None, handle |-> None, state |-> "none", used |-> FALSE, busy |-> "none"]
NoWorker == [at |-> "none", driver |-> None, tx |-> None, left |-> 0,
             failed |-> FALSE, seen |-> "outside"]

Ready == ~over /\ modal = NoModal
Cancelled(r) == run.id = r /\ run.cancelled
Executing(h) == \E r \in Runs : worker[r].at = "exec" /\ worker[r].tx = h

Init ==
  /\ live = None
  /\ dialed = 0
  /\ dials = 0
  /\ phase = [d \in Sessions |-> "unused"]
  /\ modal = NoModal
  /\ tx = NoTx
  /\ begins = {}
  /\ begun = {}
  /\ ends = {}
  /\ ended = {}
  /\ handle = [h \in Txs |-> [driver |-> None, state |-> "unused"]]
  /\ run = [running |-> FALSE, id |-> 0, cancelled |-> FALSE]
  /\ worker = [r \in Runs |-> NoWorker]
  /\ post = [r \in Runs |-> "none"]
  /\ over = FALSE

-----------------------------------------------------------------------------
(* Connections.                                                            *)

StartDial ==
  /\ dialed < MaxDials
  /\ dialed' = dialed + 1
  /\ dials' = dials + 1

resetBrowse ==
  /\ tx' = NoTx
  /\ run' = [run EXCEPT !.cancelled = @ \/ run.running]

Leave(d) == IF d = None THEN phase ELSE [phase EXCEPT ![d] = "closing"]

\* enter on a connection; with a transaction open it asks first.
Dial ==
  /\ Ready
  /\ IF tx = NoTx THEN StartDial /\ modal' = modal
     ELSE modal' = "connect" /\ UNCHANGED <<dialed, dials>>
  /\ UNCHANGED <<live, phase, txn, script, over>>

ConfirmConnect ==
  /\ modal = "connect"
  /\ StartDial
  /\ modal' = NoModal
  /\ UNCHANGED <<live, phase, txn, script, over>>

\* connectedMsg: the new driver takes over whatever happened meanwhile. An
\* open modal stays open.
Connected(d) ==
  /\ ~over
  /\ dials > 0
  /\ phase[d] = "unused" /\ \A e \in Sessions : e < d => phase[e] # "unused"
  /\ dials' = dials - 1
  /\ phase' = [Leave(live) EXCEPT ![d] = "open"]
  /\ live' = d
  /\ resetBrowse
  /\ UNCHANGED <<dialed, modal, begins, begun, ends, ended, handle, worker, post, over>>

\* A failed dial opens a modal of its own, over any that was open.
ConnectFailed ==
  /\ ~over
  /\ dials > 0
  /\ dials' = dials - 1
  /\ modal' = "info"
  /\ UNCHANGED <<live, dialed, phase, txn, script, over>>

disconnectActive ==
  /\ phase' = Leave(live)
  /\ live' = None
  /\ resetBrowse
  /\ UNCHANGED <<dialed, dials, begins, begun, ends, ended, handle, worker, post, over>>

Disconnect ==
  /\ Ready
  /\ live # None
  /\ IF tx = NoTx THEN disconnectActive /\ modal' = modal
     ELSE modal' = "disconnect" /\ UNCHANGED <<conns, txn, script, over>>

ConfirmDisconnect ==
  /\ modal = "disconnect"
  /\ live # None
  /\ modal' = NoModal
  /\ disconnectActive

\* Driver.Close in its goroutine: it rolls back the transaction it finds,
\* once no statement holds the handle, then closes the pool.
CloseReads(d) ==
  /\ phase[d] = "closing"
  /\ \A h \in Txs : handle[h].driver = d => ~Executing(h)
  /\ phase' = [phase EXCEPT ![d] = "drained"]
  /\ handle' = [h \in Txs |-> IF handle[h].driver = d THEN [handle[h] EXCEPT !.state = "done"]
                                                      ELSE handle[h]]
  /\ UNCHANGED <<live, dialed, dials, modal, tx, begins, begun, ends, ended, script, over>>

CloseEnds(d) ==
  /\ phase[d] = "drained"
  /\ phase' = [phase EXCEPT ![d] = "closed"]
  /\ UNCHANGED <<live, dialed, dials, modal, txn, script, over>>

-----------------------------------------------------------------------------
(* The transaction.                                                        *)

beginTx ==
  /\ Ready
  /\ live # None
  /\ tx = NoTx
  /\ ~run.running
  /\ tx' = [NoTx EXCEPT !.driver = live, !.busy = "begin"]
  /\ begins' = begins \cup {live}
  /\ UNCHANGED <<conns, modal, begun, ends, ended, handle, script, over>>

\* beginTxCmd: Begin fails on a closed driver, and may fail on an open one.
BeginServed(d, h) ==
  /\ d \in begins
  /\ begins' = begins \ {d}
  /\ \/ /\ phase[d] # "closed"
        /\ handle[h].state = "unused"
        /\ handle' = [handle EXCEPT ![h] = [driver |-> d, state |-> "active"]]
        /\ begun' = begun \cup {[driver |-> d, handle |-> h]}
     \/ /\ begun' = begun \cup {[driver |-> d, handle |-> None]}
        /\ UNCHANGED handle
  /\ UNCHANGED <<conns, modal, tx, ends, ended, script, over>>

End(h, kind) == [handle |-> h, kind |-> kind]

\* Plausible bug: a handle that comes too late is dropped.
StaleBegunDrops(msg) == UNCHANGED <<tx, ends>>

\* txBegunMsg for a transaction that is no longer wanted: its handle is
\* rolled back.
StaleBegun(msg) ==
  /\ ends' = IF msg.handle = None THEN ends ELSE ends \cup {End(msg.handle, "stale")}
  /\ UNCHANGED tx

applyTxBegun(msg) ==
  /\ ~over
  /\ msg \in begun
  /\ begun' = begun \ {msg}
  /\ IF tx = NoTx \/ tx.driver # msg.driver \/ tx.handle # None THEN StaleBegun(msg)
     ELSE /\ tx' = IF msg.handle = None THEN NoTx
                   ELSE [tx EXCEPT !.handle = msg.handle, !.state = "active", !.busy = "none"]
          /\ UNCHANGED ends
  /\ UNCHANGED <<conns, modal, begins, ended, handle, script, over>>

txUnavailable == tx = NoTx \/ tx.busy # "none" \/ run.running

\* C: a dead transaction says why it cannot commit.
confirmCommitTx ==
  /\ Ready
  /\ ~txUnavailable
  /\ modal' = IF tx.state = "active" THEN "commit" ELSE "info"
  /\ UNCHANGED <<conns, txn, script, over>>

StartEnd(kind) ==
  /\ IF tx.handle # None /\ tx.busy = "none"
     THEN tx' = [tx EXCEPT !.busy = kind] /\ ends' = ends \cup {End(tx.handle, kind)}
     ELSE UNCHANGED <<tx, ends>>
  /\ UNCHANGED <<conns, begins, begun, ended, handle, script, over>>

ConfirmCommit ==
  /\ modal = "commit"
  /\ modal' = NoModal
  /\ StartEnd("commit")

\* U: an unused or ended transaction rolls back without asking.
confirmRollbackTx ==
  /\ Ready
  /\ ~txUnavailable
  /\ IF ~tx.used \/ tx.state = "lost" THEN modal' = modal /\ StartEnd("rollback")
     ELSE modal' = "rollback" /\ UNCHANGED <<conns, txn, script, over>>

ConfirmRollback ==
  /\ modal = "rollback"
  /\ modal' = NoModal
  /\ StartEnd("rollback")

Reply(e, ok) == [handle |-> e.handle, kind |-> e.kind, ok |-> ok, state |-> handle'[e.handle].state]

\* commitTxCmd and rollbackTxCmd, with the state the handle has afterwards.
EndServed(e) ==
  /\ e \in ends
  /\ ~Executing(e.handle)
  /\ ends' = ends \ {e}
  /\ \E s \in {"done"} \cup IF e.kind = "commit" /\ handle[e.handle].state # "done"
                            THEN {"active", "aborted", "lost"} ELSE {} :
       /\ handle' = [handle EXCEPT ![e.handle].state = s]
       /\ ended' = ended \cup {Reply(e, s = "done")}
  /\ UNCHANGED <<conns, modal, tx, begins, begun, script, over>>

\* Plausible bug: the COMMIT that failed stays in flight for the model.
CommitFailedBusy(msg) == tx' = [tx EXCEPT !.state = msg.state] /\ modal' = "info"

CommitFailed(msg) ==
  /\ tx' = [tx EXCEPT !.busy = "none", !.state = msg.state]
  /\ modal' = "info"

\* txCommittedMsg and txRolledBackMsg. A commit that failed leaves the
\* handle's state in the mirror and a modal on the screen; one that
\* succeeded reloads the grid's page.
applyTxEnded(msg) ==
  /\ ~over
  /\ msg \in ended
  /\ ended' = ended \ {msg}
  /\ IF msg.kind = "stale" \/ tx = NoTx \/ tx.handle # msg.handle THEN UNCHANGED <<tx, modal>>
     ELSE IF msg.kind = "commit" /\ ~msg.ok
          THEN CommitFailed(msg)
          ELSE tx' = NoTx /\ UNCHANGED modal
  /\ UNCHANGED <<conns, begins, begun, ends, handle, script, over>>

-----------------------------------------------------------------------------
(* Runs.                                                                   *)

startQuery(n) ==
  /\ run.id + 1 \in Runs
  /\ run' = [running |-> TRUE, id |-> run.id + 1, cancelled |-> FALSE]
  /\ worker' = [worker EXCEPT ![run.id + 1] =
       [NoWorker EXCEPT !.at = "check", !.driver = live, !.tx = tx.handle,
                        !.left = n]]
  /\ UNCHANGED post

\* Plausible bugs: the guard on a running script, or on a busy transaction,
\* is missing.
MayRunBusy == live # None /\ ~run.running /\ tx.state # "lost"

MayRun == live # None /\ ~run.running /\ tx.busy = "none" /\ tx.state # "lost"

\* ctrl+r, enter on a statement, R on a result: placeholders open a form, a
\* write without WHERE or LIMIT asks, naming the connection.
submitQuery(kind, n) ==
  /\ Ready
  /\ MayRun
  /\ IF kind = "plain" THEN startQuery(n) /\ modal' = modal
     ELSE modal' = kind /\ UNCHANGED script
  /\ UNCHANGED <<conns, txn, over>>

\* The form hands over to vetQuery, which may ask in its turn.
ConfirmParams ==
  /\ modal = "params"
  /\ live # None
  /\ \/ startQuery(1) /\ modal' = NoModal
     \/ modal' = "unguarded" /\ UNCHANGED script
  /\ UNCHANGED <<conns, txn, over>>

ConfirmRun ==
  /\ modal = "unguarded"
  /\ live # None
  /\ \E n \in 1..MaxStmts : startQuery(n)
  /\ modal' = NoModal
  /\ UNCHANGED <<conns, txn, over>>

cancelQuery ==
  /\ Ready
  /\ run.running
  /\ ~run.cancelled
  /\ run' = [run EXCEPT !.cancelled = TRUE]
  /\ UNCHANGED <<conns, modal, txn, worker, post, over>>

\* The worker: the context first, then the next statement.
WorkerChecks(r) ==
  /\ worker[r].at = "check"
  /\ worker' = [worker EXCEPT ![r].at =
       IF Cancelled(r) \/ worker[r].left = 0 THEN "finish" ELSE "exec"]
  /\ UNCHANGED <<conns, modal, txn, run, post, over>>

\* How a statement may end on a handle in a state: an error may abort or end
\* the transaction, ROLLBACK TO SAVEPOINT may revive an aborted one.
StmtEnds(now) ==
  LET End_(s, f) == [state |-> s, fails |-> f]
  IN {End_(now, TRUE)} \cup
     (IF now \in {"outside", "active"} THEN {End_(now, FALSE)} ELSE {}) \cup
     (IF now = "active" THEN {End_("aborted", TRUE), End_("lost", TRUE)} ELSE {}) \cup
     (IF now = "aborted" THEN {End_("active", FALSE), End_("lost", TRUE)} ELSE {})

\* A statement ends, successfully or not. Inside a transaction it leaves the
\* handle in a state the worker reads right after; a handle that ended
\* refuses it.
WorkerExecutes(r) ==
  LET w == worker[r]
      now == IF w.tx = None THEN "outside" ELSE handle[w.tx].state
  IN /\ w.at = "exec"
     /\ \E end \in StmtEnds(now) :
          /\ phase[w.driver] = "closed" => end.fails
          /\ handle' = IF w.tx = None THEN handle ELSE [handle EXCEPT ![w.tx].state = end.state]
          /\ worker' = [worker EXCEPT ![r].at = "send", ![r].left = @ - 1,
                                      ![r].failed = end.fails, ![r].seen = end.state]
     /\ UNCHANGED <<conns, modal, tx, begins, begun, ends, ended, run, post, over>>

\* The channel is unbuffered: the send completes when a goroutine of the
\* loop is there to receive, that is when nothing sent before is unreduced.
WorkerSends(r) ==
  /\ worker[r].at = "send"
  /\ post[r] = "none"
  /\ post' = [post EXCEPT ![r] = worker[r].seen]
  /\ worker' = [worker EXCEPT ![r].at = IF worker[r].failed THEN "finish" ELSE "check"]
  /\ UNCHANGED <<conns, modal, txn, run, over>>

WorkerFinishes(r) ==
  /\ worker[r].at = "finish"
  /\ post[r] = "none"
  /\ post' = [post EXCEPT ![r] = "over"]
  /\ worker' = [worker EXCEPT ![r].at = "gone"]
  /\ UNCHANGED <<conns, modal, txn, run, over>>

noteTxStatement(r) ==
  tx' = IF tx # NoTx /\ worker[r].tx # None /\ tx.handle = worker[r].tx
        THEN [tx EXCEPT !.state = post[r], !.used = TRUE] ELSE tx

\* queryStmtMsg: the mirror is brought up to date. A message of an older run has no reader
\* after it: the channel is not pulled again.
applyQueryStmt(r) ==
  /\ ~over
  /\ post[r] \notin {"none", "over", "unread"}
  /\ IF r = run.id /\ run.running
     THEN /\ noteTxStatement(r)
          /\ post' = [post EXCEPT ![r] = "none"]
     ELSE /\ post' = [post EXCEPT ![r] = "unread"]
          /\ UNCHANGED tx
  /\ UNCHANGED <<conns, modal, begins, begun, ends, ended, handle, run, worker, over>>

\* queryDoneMsg
finishQuery(r) ==
  /\ ~over
  /\ post[r] = "over"
  /\ post' = [post EXCEPT ![r] = "none"]
  /\ run' = IF r = run.id THEN [run EXCEPT !.running = FALSE] ELSE run
  /\ UNCHANGED <<conns, modal, txn, worker, over>>

-----------------------------------------------------------------------------
(* Modals and quitting.                                                    *)

Dismiss ==
  /\ ~over
  /\ modal # NoModal
  /\ modal' = NoModal
  /\ UNCHANGED <<conns, txn, script, over>>

\* closeSession: synchronous, and only for the driver that is live.
quit ==
  /\ \A h \in Txs : handle[h].driver = live => ~Executing(h)
  /\ over' = TRUE
  /\ live' = None
  /\ phase' = IF live = None THEN phase ELSE [phase EXCEPT ![live] = "closed"]
  /\ handle' = [h \in Txs |-> IF live # None /\ handle[h].driver = live
                              THEN [handle[h] EXCEPT !.state = "done"] ELSE handle[h]]
  /\ tx' = NoTx
  /\ UNCHANGED <<dialed, dials, begins, begun, ends, ended, script>>

Quit ==
  /\ Ready
  /\ IF tx = NoTx THEN quit /\ modal' = modal
     ELSE modal' = "quit" /\ UNCHANGED <<conns, txn, script, over>>

ConfirmQuit ==
  /\ ~over
  /\ modal = "quit"
  /\ modal' = NoModal
  /\ quit

Keys ==
  \/ Dial \/ Disconnect \/ beginTx \/ confirmCommitTx \/ confirmRollbackTx
  \/ \E kind \in {"plain", "params", "unguarded"}, n \in 1..MaxStmts : submitQuery(kind, n)
  \/ cancelQuery \/ Quit \/ Dismiss

Confirms ==
  ~over /\ (ConfirmConnect \/ ConfirmDisconnect \/ ConfirmCommit \/ ConfirmRollback
            \/ ConfirmParams \/ ConfirmRun \/ ConfirmQuit)

\* Goroutines die with the program.
Commands ==
  /\ ~over
  /\ \/ \E d \in Sessions : CloseReads(d) \/ CloseEnds(d)
     \/ \E d \in Sessions, h \in Txs : BeginServed(d, h)
     \/ \E e \in ends : EndServed(e)
     \/ \E r \in Runs : WorkerChecks(r) \/ WorkerExecutes(r) \/ WorkerSends(r) \/ WorkerFinishes(r)

Messages ==
  \/ \E d \in Sessions : Connected(d)
  \/ ConnectFailed
  \/ \E msg \in begun : applyTxBegun(msg)
  \/ \E msg \in ended : applyTxEnded(msg)
  \/ \E r \in Runs : applyQueryStmt(r) \/ finishQuery(r)

Next == Keys \/ Confirms \/ Commands \/ Messages

Spec == Init /\ [][Next]_vars

\* The loop reduces what is posted and its goroutines run; BEGIN, COMMIT and
\* ROLLBACK end by their timeout. Nothing is assumed of a statement, which
\* has none.
LiveSpec ==
  /\ Spec
  /\ \A r \in Runs :
       /\ WF_vars(~over /\ (WorkerChecks(r) \/ WorkerSends(r) \/ WorkerFinishes(r)))
       /\ WF_vars(applyQueryStmt(r) \/ finishQuery(r))
  /\ WF_vars(~over /\ \E d \in Sessions, h \in Txs : BeginServed(d, h))
  /\ WF_vars(\E msg \in begun : applyTxBegun(msg))
  /\ WF_vars(~over /\ \E e \in ends : EndServed(e))
  /\ WF_vars(\E msg \in ended : applyTxEnded(msg))

-----------------------------------------------------------------------------
TxStates == {"active", "aborted", "lost", "done"}

(* Every variable keeps its type.                                          *)
TypeOK ==
  /\ live \in Sessions \cup {None}
  /\ dialed \in 0..MaxDials
  /\ dials \in 0..MaxDials
  /\ phase \in [Sessions -> {"unused", "open", "closing", "drained", "closed"}]
  /\ modal \in {"none", "connect", "disconnect", "commit", "rollback", "params",
                "unguarded", "quit", "info"}
  /\ tx \in [driver : Sessions \cup {None}, handle : Txs \cup {None},
             state : TxStates \cup {"none"}, used : BOOLEAN,
             busy : {"none", "begin", "commit", "rollback"}]
  /\ begins \subseteq Sessions
  /\ begun \subseteq [driver : Sessions, handle : Txs \cup {None}]
  /\ ends \subseteq [handle : Txs, kind : {"commit", "rollback", "stale"}]
  /\ ended \subseteq [handle : Txs, kind : {"commit", "rollback", "stale"},
                      ok : BOOLEAN, state : TxStates]
  /\ handle \in [Txs -> [driver : Sessions \cup {None}, state : TxStates \cup {"unused"}]]
  /\ run \in [running : BOOLEAN, id : Runs \cup {0}, cancelled : BOOLEAN]
  /\ worker \in [Runs -> [at : {"none", "check", "exec", "send", "finish", "gone"},
                          driver : Sessions \cup {None}, tx : Txs \cup {None},
                          left : 0..MaxStmts, failed : BOOLEAN,
                          seen : TxStates \cup {"outside"}]]
  /\ post \in [Runs -> TxStates \cup {"outside", "none", "over", "unread"}]
  /\ over \in BOOLEAN

(* What the editor shows of its transaction is what the handle knows: when *)
(* nothing is running or in flight the mirrored state is the handle's, so  *)
(* C and U act on the truth, through replaced connections, late replies    *)
(* and failed commits (tx.go noteTxStatement, applyTxCommitted).           *)
MirrorTruth ==
  tx.handle # None /\ tx.busy = "none" /\ ~run.running => tx.state = handle[tx.handle].state

(* At most one worker is alive: a run cancelled because its connection     *)
(* went away still counts until it has posted its last message, so two     *)
(* scripts never race for the grid (query.go queryRun).                    *)
OneWorker ==
  Cardinality({r \in Runs : worker[r].at \notin {"none", "gone"}}) <= 1

(* The COMMIT or ROLLBACK the user asked for never has a statement of its  *)
(* own transaction running beside it, nor can one be started while it is   *)
(* in flight (tx.go txUnavailable, query.go submitQuery).                  *)
EndsAlone ==
  \A e \in ends : e.kind # "stale" =>
    \A r \in Runs : worker[r].tx = e.handle => worker[r].at \in {"none", "gone"}

(* A transaction open on the server can always be reached: it is the       *)
(* editor's, its BEGIN's reply is under way, something is ending it, or    *)
(* the connection it lives on is about to be closed (tx.go applyTxBegun:   *)
(* the handle of a BEGIN that outlived its session is released).           *)
NoOrphan ==
  ~over => \A h \in Txs : handle[h].state \in {"active", "aborted"} =>
    \/ tx.handle = h
    \/ \E msg \in begun : msg.handle = h
    \/ \E e \in ends : e.handle = h
    \/ phase[handle[h].driver] = "closing"

(* Whoever waits for the loop is served: a worker that has something to    *)
(* report is read, whatever became of its run, so its goroutine ends       *)
(* (query.go run: "there is always a reader"), and a transaction that is   *)
(* beginning or ending settles, so the keys that act on it are not refused *)
(* for ever (tx.go busy).                                                  *)
Served ==
  /\ \A r \in Runs : worker[r].at \in {"send", "finish"} ~>
       (worker[r].at \in {"exec", "gone"} \/ over)
  /\ tx.busy # "none" ~> (tx.busy = "none" \/ over)

(* The editor's transaction is the one the server holds, and is never lost  *)
(* sight of (tx.go).                                                       *)
TxTruth == MirrorTruth /\ NoOrphan

(* One script runs at a time, and never beside the end of its transaction   *)
(* (query.go, tx.go).                                                      *)
RunsAlone == TypeOK /\ OneWorker /\ EndsAlone
=============================================================================
