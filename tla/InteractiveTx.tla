----------------------------- MODULE InteractiveTx -----------------------------
(***************************************************************************)
(* The query editor's BEGIN .. COMMIT as internal/db/tx.go implements it: *)
(* a session (conn) hands out handles (interactiveTx), each on a database  *)
(* connection of its own; goroutines call Begin, Exec/QueryLimit, Commit,  *)
(* Rollback and the session's Close; two mutexes (conn.txMu and the        *)
(* handle's mu) order them; the engine decides what a statement does to    *)
(* the transaction, and a per-engine monitor (tx_dialects.go) deduces from *)
(* the reply what the handle is told.                                      *)
(*                                                                         *)
(* A call is split where another goroutine or the server can get in        *)
(* between: taking a lock, the statement at the server, its reply.         *)
(***************************************************************************)
EXTENDS Naturals

CONSTANTS
  Procs,      \* goroutines that may call into the session
  Handles,    \* identities for the handles Begin may return, each used once
  NoProc,     \* nobody holds the lock
  NoTx,       \* no handle
  Engines,    \* the engines the session may talk to
  ReadOnly,   \* conn.readOnly
  Queries,    \* the kinds of statement callers submit
  Phenomena,  \* engine behaviours the monitors cannot see, see below
  MaxCalls    \* bound on the calls a behaviour makes

AllEngines == {"postgres", "mysql", "sqlite", "duckdb"}

\* "stmt" is an ordinary statement, "savepoint" a ROLLBACK TO SAVEPOINT,
\* "control" one IsTxControl knows, "ddl" one whose leading keyword is in
\* implicitCommitKeywords, "call" a CALL of a stored procedure.
AllQueries == {"stmt", "savepoint", "control", "ddl", "call"}

\* "lateError": a capped QueryLimit returns its rows without an error and the
\* error is met by the rows.Close() whose result is dropped.
\* "procCommit": a MySQL stored procedure commits.
AllPhenomena == {"lateError", "procCommit"}

ASSUME ConstantsAssumption ==
  /\ NoProc \notin Procs
  /\ NoTx \notin Handles
  /\ Engines \subseteq AllEngines
  /\ ReadOnly \in BOOLEAN
  /\ Queries \subseteq AllQueries
  /\ Phenomena \subseteq AllPhenomena
  /\ MaxCalls \in Nat

VARIABLES
  engine,   \* the session's engine
  db,       \* conn.db: "open", "closed" (the pool is closed), "nil"
  cur,      \* conn.tx
  txMu,     \* who holds conn.txMu
  closer,   \* the goroutine that called Close
  calls,    \* calls made so far
  pc,       \* where each goroutine stands
  on,       \* the handle its call is on
  op,       \* "commit", "rollback" or the kind of statement
  reply,    \* what came back from the server
  mu,       \* who holds the handle's mu
  state,    \* the handle's TxState, "none" before BEGIN
  answer,   \* "committed": Commit returned nil; "closed": Rollback returned
  srv,      \* the server session: "none", "open", "aborted", "idle", "gone"
  fate,     \* what the server did with the transaction
  stray,    \* handles a statement of which ran outside the transaction
  pooled    \* handles whose connection went back to the pool

session == <<engine, db, cur, txMu, closer>>
callers == <<calls, pc, on, op, reply>>
handle  == <<mu, state, answer>>
server  == <<srv, fate, stray, pooled>>
vars == <<session, callers, handle, server>>

Networked == engine \in {"postgres", "mysql"}
PCs == {"idle", "begin", "beginSent", "lock", "sent", "replied", "detach",
        "closeRead", "closeDb", "closeNil", "panic"}
Replies == {"none", "ok", "err", "deadlock", "lockwait", "abortedErr", "broken"}

Init ==
  /\ engine \in Engines
  /\ db = "open"
  /\ cur = NoTx
  /\ txMu = NoProc
  /\ closer = NoProc
  /\ calls = 0
  /\ pc = [p \in Procs |-> "idle"]
  /\ on = [p \in Procs |-> NoTx]
  /\ op = [p \in Procs |-> "none"]
  /\ reply = [p \in Procs |-> "none"]
  /\ mu = [h \in Handles |-> NoProc]
  /\ state = [h \in Handles |-> "none"]
  /\ answer = [h \in Handles |-> "none"]
  /\ srv = [h \in Handles |-> "none"]
  /\ fate = [h \in Handles |-> "none"]
  /\ stray = {}
  /\ pooled = {}

-----------------------------------------------------------------------------
(* The server: what a statement may do to the session it runs on.          *)

Outcome(s, f, r) == [srv |-> s, fate |-> f, reply |-> r]

\* A networked connection may break under any statement, or be closed by the
\* driver to interrupt one: the server rolls back what was open.
Broken(h) ==
  IF Networked
  THEN {Outcome("gone", IF fate[h] = "undecided" THEN "rolledBack" ELSE fate[h], "broken")}
  ELSE {}

Open(r) == Outcome("open", "undecided", r)
Aborted(r) == Outcome("aborted", "undecided", r)
Ended(r) == Outcome("idle", "rolledBack", r)

\* What an error inside an open transaction does to it.
ErrorOutcomes ==
  CASE engine = "postgres" -> {Aborted("err")}
    [] engine = "mysql"    -> {Open("err"), Open("lockwait"), Ended("lockwait"), Ended("deadlock")}
    [] engine = "sqlite"   -> {Open("err"), Ended("err")}
    [] OTHER               -> {Open("err"), Aborted("err")}

\* What the monitor cannot see: the statement looks successful.
UnseenOutcomes(q) ==
  CASE engine = "postgres" /\ "lateError" \in Phenomena -> {Aborted("ok")}
    [] engine = "mysql" ->
         {out \in {Ended("ok")} : "lateError" \in Phenomena} \cup
         {out \in {Outcome("idle", "committed", "ok")} : q = "call" /\ "procCommit" \in Phenomena}
    [] OTHER -> {}

StmtOutcomes(h, q) ==
  CASE srv[h] = "open" -> {Open("ok")} \cup ErrorOutcomes \cup UnseenOutcomes(q) \cup Broken(h)
    [] srv[h] = "aborted" ->
         {Aborted("abortedErr")} \cup Broken(h) \cup
         {out \in {Open("ok")} : engine = "postgres" /\ q = "savepoint"}
    [] srv[h] = "idle" ->    \* nothing is open: the statement autocommits
         {Outcome("idle", fate[h], "ok"), Outcome("idle", fate[h], "err")} \cup Broken(h)
    [] OTHER -> {Outcome("gone", fate[h], "broken")}

\* A COMMIT the engine rejects: SQLite and MySQL may keep the transaction.
CommitErrors ==
  CASE engine = "sqlite" -> {Open("err")}
    [] engine = "mysql"  -> {Open("err"), Ended("err")}
    [] OTHER             -> {Ended("err")}

\* COMMIT. A connection may break before the server commits or after. On an
\* aborted transaction PostgreSQL and DuckDB answer success and roll back.
CommitOutcomes(h) ==
  CASE srv[h] = "open" ->
         {Outcome("idle", "committed", "ok")} \cup CommitErrors \cup Broken(h) \cup
         {out \in {Outcome("gone", "committed", "broken")} : Networked}
    [] srv[h] = "aborted" -> {Ended("ok")} \cup Broken(h)
    [] srv[h] = "idle" ->
         {Outcome("idle", fate[h], IF Networked THEN "ok" ELSE "err")} \cup Broken(h)
    [] OTHER -> {Outcome("gone", fate[h], "broken")}

\* ROLLBACK. Its context may expire before it reaches the engine.
RollbackOutcomes(h) ==
  CASE srv[h] \in {"open", "aborted"} ->
         {Ended("ok"), Outcome(srv[h], "undecided", "err")} \cup Broken(h)
    [] srv[h] = "idle" ->
         {Outcome("idle", fate[h], IF Networked THEN "ok" ELSE "err")} \cup Broken(h)
    [] OTHER -> {Outcome("gone", fate[h], "broken")}

Outcomes(h, o) ==
  CASE o = "commit"   -> CommitOutcomes(h)
    [] o = "rollback" -> RollbackOutcomes(h)
    [] OTHER          -> StmtOutcomes(h, o)

-----------------------------------------------------------------------------
(* The monitors: what the handle's state becomes after a reply.            *)

\* genericAfter: open unless the connection went away, which a ping tells.
GenericAfter(h, r) ==
  IF r = "ok" THEN "Active"
  ELSE IF r = "broken" \/ srv[h] = "gone" THEN "Lost" ELSE "Active"

\* pgTxMonitor reads the status of the last ReadyForQuery.
PgAfter(h, r) ==
  CASE r = "broken"       -> "Lost"
    [] srv[h] = "open"    -> "Active"
    [] srv[h] = "aborted" -> "Aborted"
    [] OTHER              -> "Lost"

\* Mutant: the deadlock and lock-wait numbers are not looked at.
MysqlAfterBlind(h, r) == GenericAfter(h, r)

\* mysqlTxMonitor goes by the error number. After 1205 it reads
\* @@innodb_rollback_on_timeout, which is on exactly on the servers where the
\* error has ended the transaction.
MysqlAfter(h, r) ==
  IF r = "deadlock" \/ (r = "lockwait" /\ srv[h] # "open") THEN "Lost" ELSE GenericAfter(h, r)

\* sqliteTxMonitor's rollback hook has fired exactly when the engine rolled
\* the transaction back.
SqliteAfter(h, r) == IF fate[h] = "rolledBack" THEN "Lost" ELSE GenericAfter(h, r)

\* Mutant: no probe after an ordinary error.
DuckdbAfterBlind(h, r) == GenericAfter(h, r)

\* duckdbTxMonitor probes with a SELECT 1 that an aborted transaction refuses.
DuckdbAfter(h, r) ==
  CASE r = "ok"                         -> "Active"
    [] r = "broken" \/ srv[h] = "gone"  -> "Lost"
    [] r = "abortedErr"                 -> "Aborted"
    [] srv[h] = "aborted"               -> "Aborted"
    [] OTHER                            -> "Active"

After(h, r) ==
  CASE engine = "postgres" -> PgAfter(h, r)
    [] engine = "mysql"    -> MysqlAfter(h, r)
    [] engine = "sqlite"   -> SqliteAfter(h, r)
    [] OTHER               -> DuckdbAfter(h, r)

\* Mutant: the error lands where the state belongs.
AfterCommitRaw(h, r) == r

AfterCommit(h, r) == IF engine \in {"mysql", "duckdb"} THEN "Lost" ELSE After(h, r)

-----------------------------------------------------------------------------
(* Begin                                                                    *)

\* The checks before txMu: a connected session that may write.
BeginCall(p) ==
  /\ pc[p] = "idle" /\ calls < MaxCalls
  /\ db # "nil" /\ ~ReadOnly
  /\ calls' = calls + 1
  /\ pc' = [pc EXCEPT ![p] = "begin"]
  /\ UNCHANGED <<session, on, op, reply, handle, server>>

\* Under txMu: ErrTxOpen, or no connection to be had. Close sets c.db to nil
\* without the lock, so c.db.Conn may meet a nil pool.
BeginRefused(p) ==
  /\ pc[p] = "begin" /\ txMu = NoProc
  /\ pc' = [pc EXCEPT ![p] = IF cur = NoTx /\ db = "nil" THEN "panic" ELSE "idle"]
  /\ UNCHANGED <<session, calls, on, op, reply, handle, server>>

\* Mutant: the handle that is open is not checked.
BeginSendUnchecked(p, h) ==
  /\ pc[p] = "begin" /\ txMu = NoProc
  /\ db = "open" /\ state[h] = "none"
  /\ txMu' = p
  /\ on' = [on EXCEPT ![p] = h]
  /\ pc' = [pc EXCEPT ![p] = "beginSent"]
  /\ UNCHANGED <<engine, db, cur, closer, calls, op, reply, handle, server>>

\* BEGIN goes to the server on a fresh connection; txMu stays held.
BeginSend(p, h) ==
  /\ pc[p] = "begin" /\ txMu = NoProc
  /\ cur = NoTx /\ db = "open" /\ state[h] = "none"
  /\ txMu' = p
  /\ on' = [on EXCEPT ![p] = h]
  /\ pc' = [pc EXCEPT ![p] = "beginSent"]
  /\ UNCHANGED <<engine, db, cur, closer, calls, op, reply, handle, server>>

\* The handle is registered with the session and returned.
BeginDone(p) ==
  /\ pc[p] = "beginSent"
  /\ cur' = on[p]
  /\ state' = [state EXCEPT ![on[p]] = "Active"]
  /\ srv' = [srv EXCEPT ![on[p]] = "open"]
  /\ fate' = [fate EXCEPT ![on[p]] = "undecided"]
  /\ txMu' = NoProc
  /\ pc' = [pc EXCEPT ![p] = "idle"]
  /\ on' = [on EXCEPT ![p] = NoTx]
  /\ UNCHANGED <<engine, db, closer, calls, op, reply, mu, answer, stray, pooled>>

\* BEGIN failed: the connection is released, no handle exists.
BeginFailed(p) ==
  /\ pc[p] = "beginSent"
  /\ txMu' = NoProc
  /\ pc' = [pc EXCEPT ![p] = "idle"]
  /\ on' = [on EXCEPT ![p] = NoTx]
  /\ UNCHANGED <<engine, db, cur, closer, calls, op, reply, handle, server>>

-----------------------------------------------------------------------------
(* Exec, QueryLimit, Commit and Rollback on a handle                        *)

Call(p, h, o) ==
  /\ pc[p] = "idle" /\ calls < MaxCalls /\ state[h] # "none"
  /\ calls' = calls + 1
  /\ pc' = [pc EXCEPT ![p] = "lock"]
  /\ on' = [on EXCEPT ![p] = h]
  /\ op' = [op EXCEPT ![p] = o]
  /\ UNCHANGED <<session, reply, handle, server>>

\* admit, and the state checks of Commit and Rollback.
Refuses(h, o) ==
  CASE o = "rollback" -> state[h] = "Closed"
    [] o = "commit"   -> state[h] # "Active"
    [] OTHER ->
         \/ state[h] \in {"Closed", "Lost"}
         \/ state[h] = "Aborted" /\ o # "savepoint"
         \/ o = "control"
         \/ o = "ddl" /\ engine = "mysql"

\* The call is over: Close goes on with the pool once its Rollback is through.
Return(p) ==
  /\ pc' = [pc EXCEPT ![p] = IF p = closer THEN "closeDb" ELSE "idle"]
  /\ on' = [on EXCEPT ![p] = NoTx]
  /\ op' = [op EXCEPT ![p] = "none"]
  /\ reply' = [reply EXCEPT ![p] = "none"]
  /\ UNCHANGED calls

Refused(p) ==
  /\ pc[p] = "lock" /\ mu[on[p]] = NoProc
  /\ Refuses(on[p], op[p])
  /\ Return(p)
  /\ UNCHANGED <<session, handle, server>>

Send(p) ==
  /\ pc[p] = "lock" /\ mu[on[p]] = NoProc
  /\ ~Refuses(on[p], op[p])
  /\ mu' = [mu EXCEPT ![on[p]] = p]
  /\ pc' = [pc EXCEPT ![p] = "sent"]
  /\ UNCHANGED <<session, calls, on, op, reply, state, answer, server>>

\* The server runs the statement.
Serve(p) ==
  /\ pc[p] = "sent"
  /\ \E out \in Outcomes(on[p], op[p]) :
       /\ srv' = [srv EXCEPT ![on[p]] = out.srv]
       /\ fate' = [fate EXCEPT ![on[p]] = out.fate]
       /\ reply' = [reply EXCEPT ![p] = out.reply]
       /\ stray' = IF srv[on[p]] = "idle" /\ out.reply = "ok" /\ op[p] \in AllQueries
                   THEN stray \cup {on[p]} ELSE stray
  /\ pc' = [pc EXCEPT ![p] = "replied"]
  /\ UNCHANGED <<session, calls, on, op, handle, pooled>>

\* settle: the monitor's verdict becomes the handle's state.
Settle(p) ==
  /\ pc[p] = "replied" /\ op[p] \in AllQueries
  /\ state' = [state EXCEPT ![on[p]] = After(on[p], reply[p])]
  /\ mu' = [mu EXCEPT ![on[p]] = NoProc]
  /\ Return(p)
  /\ UNCHANGED <<session, answer, server>>

\* settleCommit: a COMMIT the server rejected leaves the handle usable.
CommitFailed(p) ==
  /\ pc[p] = "replied" /\ op[p] = "commit" /\ reply[p] # "ok"
  /\ state' = [state EXCEPT ![on[p]] = AfterCommit(on[p], reply[p])]
  /\ mu' = [mu EXCEPT ![on[p]] = NoProc]
  /\ Return(p)
  /\ UNCHANGED <<session, answer, server>>

\* finish: the handle is spent and its connection goes back to the pool. A bad
\* one, a broken one, or one of a closed pool is closed, and the server ends
\* what was still open on it.
Finish(h, bad, told) ==
  LET discard == bad \/ srv[h] = "gone" \/ db # "open" IN
  /\ state' = [state EXCEPT ![h] = "Closed"]
  /\ answer' = [answer EXCEPT ![h] = told]
  /\ srv' = [srv EXCEPT ![h] = IF discard THEN "gone" ELSE @]
  /\ fate' = [fate EXCEPT ![h] = IF discard /\ @ = "undecided" THEN "rolledBack" ELSE @]
  /\ pooled' = IF discard THEN pooled ELSE pooled \cup {h}
  /\ UNCHANGED stray

CommitDone(p) ==
  /\ pc[p] = "replied" /\ op[p] = "commit" /\ reply[p] = "ok"
  /\ Finish(on[p], FALSE, "committed")
  /\ pc' = [pc EXCEPT ![p] = "detach"]
  /\ UNCHANGED <<session, calls, on, op, reply, mu>>

\* Mutant: a failed ROLLBACK still pools the connection.
RollbackDonePools(p) ==
  /\ pc[p] = "replied" /\ op[p] = "rollback"
  /\ Finish(on[p], FALSE, "closed")
  /\ pc' = [pc EXCEPT ![p] = "detach"]
  /\ UNCHANGED <<session, calls, on, op, reply, mu>>

RollbackDone(p) ==
  /\ pc[p] = "replied" /\ op[p] = "rollback"
  /\ Finish(on[p], reply[p] # "ok", "closed")
  /\ pc' = [pc EXCEPT ![p] = "detach"]
  /\ UNCHANGED <<session, calls, on, op, reply, mu>>

\* The tail of finish, under txMu: the session forgets the handle.
Detach(p) ==
  /\ pc[p] = "detach" /\ txMu = NoProc
  /\ cur' = IF cur = on[p] THEN NoTx ELSE cur
  /\ mu' = [mu EXCEPT ![on[p]] = NoProc]
  /\ Return(p)
  /\ UNCHANGED <<engine, db, txMu, closer, state, answer, server>>

-----------------------------------------------------------------------------
(* The session's Close                                                      *)

CloseCall(p) ==
  /\ pc[p] = "idle" /\ closer = NoProc /\ db # "nil"
  /\ closer' = p
  /\ pc' = [pc EXCEPT ![p] = "closeRead"]
  /\ UNCHANGED <<engine, db, cur, txMu, calls, on, op, reply, handle, server>>

\* Mutant: txMu is kept while the transaction is rolled back.
CloseReadLocked(p) ==
  /\ pc[p] = "closeRead" /\ txMu = NoProc
  /\ txMu' = IF cur = NoTx THEN NoProc ELSE p
  /\ pc' = [pc EXCEPT ![p] = IF cur = NoTx THEN "closeDb" ELSE "lock"]
  /\ on' = [on EXCEPT ![p] = cur]
  /\ op' = [op EXCEPT ![p] = IF cur = NoTx THEN "none" ELSE "rollback"]
  /\ UNCHANGED <<engine, db, cur, closer, calls, reply, handle, server>>

\* rollbackOpenTx reads conn.tx under txMu and rolls back without it.
CloseRead(p) ==
  /\ pc[p] = "closeRead" /\ txMu = NoProc
  /\ pc' = [pc EXCEPT ![p] = IF cur = NoTx THEN "closeDb" ELSE "lock"]
  /\ on' = [on EXCEPT ![p] = cur]
  /\ op' = [op EXCEPT ![p] = IF cur = NoTx THEN "none" ELSE "rollback"]
  /\ UNCHANGED <<session, calls, reply, handle, server>>

\* sql.DB.Close ends the idle connections; those in use stay.
CloseDb(p) ==
  /\ pc[p] = "closeDb"
  /\ db' = "closed"
  /\ srv' = [h \in Handles |-> IF h \in pooled THEN "gone" ELSE srv[h]]
  /\ fate' = [h \in Handles |->
                IF h \in pooled /\ fate[h] = "undecided" THEN "rolledBack" ELSE fate[h]]
  /\ pooled' = {}
  /\ pc' = [pc EXCEPT ![p] = "closeNil"]
  /\ UNCHANGED <<engine, cur, txMu, closer, calls, on, op, reply, handle, stray>>

CloseNil(p) ==
  /\ pc[p] = "closeNil"
  /\ db' = "nil"
  /\ pc' = [pc EXCEPT ![p] = "idle"]
  /\ UNCHANGED <<engine, cur, txMu, closer, calls, on, op, reply, handle, server>>

-----------------------------------------------------------------------------
\* The server drops an idle-standing connection: network loss, restart, kill.
\* pgx keeps the last status it was sent, so a drop between a reply and its
\* reading is the same as one just after it.
Drop(h) ==
  /\ Networked /\ srv[h] \in {"open", "aborted", "idle"} /\ h \notin pooled
  /\ engine = "postgres" => ~\E p \in Procs : on[p] = h /\ pc[p] = "replied"
  /\ srv' = [srv EXCEPT ![h] = "gone"]
  /\ fate' = [fate EXCEPT ![h] = IF @ = "undecided" THEN "rolledBack" ELSE @]
  /\ UNCHANGED <<session, callers, handle, stray, pooled>>

Ops == Queries \cup {"commit", "rollback"}

Step(p) ==
  \/ BeginRefused(p) \/ BeginDone(p) \/ BeginFailed(p)
  \/ \E h \in Handles : BeginSend(p, h)
  \/ Refused(p) \/ Send(p) \/ Settle(p)
  \/ CommitFailed(p) \/ CommitDone(p) \/ RollbackDone(p) \/ Detach(p)
  \/ CloseRead(p) \/ CloseDb(p) \/ CloseNil(p)

Next ==
  \/ \E p \in Procs :
       \/ BeginCall(p) \/ CloseCall(p) \/ Step(p) \/ Serve(p)
       \/ \E h \in Handles, o \in Ops : Call(p, h, o)
  \/ \E h \in Handles : Drop(h)

Spec == Init /\ [][Next]_vars

\* A goroutine inside a call keeps running, BEGIN, COMMIT and ROLLBACK run
\* under a timeout, and a statement ends, by itself or because the user
\* cancels it (nothing else bounds one).
Fairness == \A p \in Procs : WF_vars(Step(p)) /\ WF_vars(Serve(p))
LiveSpec == Spec /\ Fairness

-----------------------------------------------------------------------------
(* Properties                                                               *)

TypeOK ==
  /\ engine \in Engines
  /\ db \in {"open", "closed", "nil"}
  /\ cur \in Handles \cup {NoTx}
  /\ txMu \in Procs \cup {NoProc}
  /\ closer \in Procs \cup {NoProc}
  /\ calls \in Nat
  /\ pc \in [Procs -> PCs]
  /\ on \in [Procs -> Handles \cup {NoTx}]
  /\ op \in [Procs -> AllQueries \cup {"none", "commit", "rollback"}]
  /\ reply \in [Procs -> Replies]
  /\ mu \in [Handles -> Procs \cup {NoProc}]
  /\ state \in [Handles -> {"none", "Active", "Aborted", "Lost", "Closed"}]
  /\ answer \in [Handles -> {"none", "committed", "closed"}]
  /\ srv \in [Handles -> {"none", "open", "aborted", "idle", "gone"}]
  /\ fate \in [Handles -> {"none", "undecided", "committed", "rolledBack"}]
  /\ stray \subseteq Handles
  /\ pooled \subseteq Handles

\* Commit answers success only for a transaction the server committed: "an
\* aborted transaction can never look like a committed one" (tx.go).
CommitTruth == \A h \in Handles : answer[h] = "committed" => fate[h] = "committed"

\* While no call is in progress on a handle, what its state says is true of the
\* server, up to a connection lost since: Active means the transaction is open,
\* Aborted that the server rejects statements in it. Everything the UI decides
\* (commit or refuse, rollback with or without asking) is decided on it.
StateTruth ==
  \A h \in Handles : mu[h] = NoProc =>
    /\ state[h] = "Active" => srv[h] \in {"open", "gone"} /\ fate[h] # "committed"
    /\ state[h] = "Aborted" => srv[h] \in {"aborted", "gone"} /\ fate[h] # "committed"

\* No statement submitted through a handle runs outside its transaction, where
\* it would commit on its own and a rollback could not take it back.
NoStray == stray = {}

\* A connection in the pool carries no transaction, so no page query or
\* changeset commit can join one by accident.
PooledClean == \A h \in pooled : srv[h] \notin {"open", "aborted"}

\* A transaction the server holds is the one the session has registered: there
\* is never a second one, nor one that Close could not find, although finish
\* ends the transaction under one lock and forgets the handle under another.
Reachable ==
  \A h \in Handles : srv[h] \in {"open", "aborted"} => cur = h

\* Every call returns, whatever order the two locks are taken in: no goroutine
\* stays inside Begin, a statement, Commit, Rollback or Close.
CallsReturn == \A p \in Procs : pc[p] # "idle" ~> pc[p] \in {"idle", "panic"}

\* The contract of one editor transaction per session, see TxContract.
Contract == INSTANCE TxContract WITH
  tx <- fate, told <- answer
ContractSpec == Contract!Spec
=============================================================================
