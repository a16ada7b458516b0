------------------------- MODULE EditorSessionProofs -------------------------
(***************************************************************************)
(* Theorems about EditorSession for every set of drivers, handles and runs *)
(* and every bound on the dials and the statements of a script.            *)
(***************************************************************************)
EXTENDS EditorSession, FiniteSetTheorems, TLAPS

-----------------------------------------------------------------------------
(* The inductive invariant. Three records speak of one transaction: the    *)
(* mirror tx, the handle the driver keeps, and the messages about it that   *)
(* are on their way.                                                       *)

Alive(r) == worker[r].at \notin {"none", "gone"}

\* The dials in flight are among those started.
DialInv == dials <= dialed

\* Only the run on record has a worker or something unread, and what may
\* start a run or end a transaction was asked for while none was on.
RunInv ==
  /\ \A r \in Runs : Alive(r) \/ post[r] # "none" => r = run.id /\ run.running
  /\ \A r \in Runs : post[r] = "over" => worker[r].at = "gone"
  /\ \A r \in Runs : worker[r].at = "exec" => worker[r].left > 0
  /\ modal \in {"commit", "rollback", "params", "unguarded"} => ~run.running
  /\ run.running \/ modal \in {"params", "unguarded"} => tx.busy = "none"
  /\ run.running /\ tx # NoTx => worker[run.id].tx = tx.handle

\* A worker inside a transaction sees states of its handle.
SeenInv == \A r \in Runs : worker[r].tx # None =>
  /\ handle[worker[r].tx].state # "unused"
  /\ worker[r].at = "send" => worker[r].seen # "outside"
  /\ post[r] # "outside"

\* The mirror is of a transaction on the live driver, which is open. A BEGIN
\* is on a driver that was once live, and so is every handle.
LiveInv ==
  /\ \A d \in begins : phase[d] # "unused"
  /\ \A h \in Txs : handle[h].state # "unused" => handle[h].driver \in Sessions
  /\ live # None => phase[live] = "open"
  /\ tx # NoTx => live # None /\ tx.driver = live /\ (tx.handle = None <=> tx.busy = "begin")
  /\ tx.handle # None => handle[tx.handle].driver = live /\ handle[tx.handle].state # "unused"

\* A handle whose BEGIN was not reduced yet is nobody's.
BegunInv == \A msg \in begun : msg.handle # None =>
  /\ handle[msg.handle].driver = msg.driver /\ handle[msg.handle].state # "unused"
  /\ phase[msg.driver] # "unused"
  /\ phase[msg.driver] = "open" => handle[msg.handle].state = "active"
  /\ tx.handle # msg.handle
  /\ \A e \in ends : e.handle # msg.handle
  /\ \A m \in ended : m.handle # msg.handle
  /\ \A r \in Runs : worker[r].tx # msg.handle
  /\ \A m \in begun : m.handle = msg.handle => m = msg

\* A COMMIT or ROLLBACK of the user's is the only one of its handle, the
\* mirror is busy with it, and no statement of the transaction is left.
EndsInv == \A e \in ends :
  /\ handle[e.handle].state # "unused"
  /\ e.kind = "stale" => e.handle # tx.handle
  /\ e.kind # "stale" =>
       /\ e.handle = tx.handle => tx.busy # "none"
       /\ \A f \in ends : f.kind # "stale" /\ f.handle = e.handle => f = e
       /\ \A r \in Runs : worker[r].tx = e.handle => ~Alive(r)
       /\ \/ e.handle = tx.handle
          \/ phase[handle[e.handle].driver] = "closing"
          \/ handle[e.handle].state = "done"

\* Its reply is true until it is reduced.
EndedInv == \A m \in ended :
  /\ handle[m.handle].state # "unused"
  /\ m.kind # "stale" =>
       /\ m.handle = tx.handle => tx.busy # "none" /\ m.state = handle[m.handle].state
       /\ m.kind # "commit" \/ m.ok => handle[m.handle].state = "done"
       /\ \A n \in ended : n.kind # "stale" /\ n.handle = m.handle => n = m
       /\ \A e \in ends : e.kind # "stale" => e.handle # m.handle
       /\ \A r \in Runs : worker[r].tx = m.handle => ~Alive(r)

\* While a script runs in the transaction, the newest of what its worker
\* saw, what it sent and the mirror is the handle's state.
ScriptInv ==
  run.running /\ tx # NoTx =>
    LET w == worker[run.id] IN
      CASE w.at = "send" -> w.seen = handle[tx.handle].state
        [] w.at # "send" /\ post[run.id] \notin {"none", "over"} -> post[run.id] = handle[tx.handle].state
        [] OTHER -> tx.state = handle[tx.handle].state

TxInv ==
  /\ DialInv /\ RunInv /\ SeenInv /\ LiveInv /\ BegunInv /\ EndsInv /\ EndedInv
  /\ ScriptInv /\ MirrorTruth /\ NoOrphan

SessionInv == TypeOK /\ TxInv

-----------------------------------------------------------------------------
(* What a step can do, apart from the goroutines' own steps.                *)

Typed == {"none", "connect", "disconnect", "commit", "rollback", "params", "unguarded", "quit", "info"}

\* A modal opens or closes, a dial starts or fails.
Asked ==
  /\ modal' \in Typed
  /\ modal' \in {"commit", "rollback", "params", "unguarded"} => ~run.running
  /\ modal' \in {"params", "unguarded"} => tx.busy = "none"
  /\ dialed' \in 0..MaxDials /\ dials' \in Nat /\ dials' <= dialed'
  /\ UNCHANGED <<live, phase, txn, script, over>>

\* The live driver goes, and another may take its place.
Replaced(d) ==
  /\ d # None => phase[d] = "unused"
  /\ live' = d
  /\ phase' = IF d = None THEN Leave(live) ELSE [Leave(live) EXCEPT ![d] = "open"]
  /\ resetBrowse
  /\ modal' \in {modal, NoModal}
  /\ dialed' = dialed /\ dials' \in Nat /\ dials' <= dials
  /\ UNCHANGED <<begins, begun, ends, ended, handle, worker, post, over>>

QuitNow == quit /\ modal' \in {modal, NoModal}

\* A COMMIT or ROLLBACK starts.
EndStarts(kind) ==
  /\ tx.handle # None /\ tx.busy = "none" /\ ~run.running
  /\ tx' = [tx EXCEPT !.busy = kind]
  /\ ends' = ends \cup {End(tx.handle, kind)}
  /\ modal' = NoModal
  /\ UNCHANGED <<conns, begins, begun, ended, handle, script, over>>

RunStarts(n) ==
  /\ ~run.running /\ tx.busy = "none"
  /\ startQuery(n)
  /\ modal' = NoModal
  /\ UNCHANGED <<conns, txn, over>>

\* The reply to BEGIN: nobody wants it, it failed, or the mirror takes it.
BegunStale(msg) ==
  /\ ends' = IF msg.handle = None THEN ends ELSE ends \cup {End(msg.handle, "stale")}
  /\ tx' = tx
BegunFailed(msg) == msg.handle = None /\ tx.handle = None /\ tx' = NoTx /\ ends' = ends
BegunTaken(msg) ==
  /\ msg.handle # None /\ tx # NoTx /\ tx.driver = msg.driver /\ tx.handle = None
  /\ tx' = [driver |-> tx.driver, handle |-> msg.handle, state |-> "active", used |-> tx.used,
            busy |-> "none"]
  /\ ends' = ends
BegunReduced(msg) ==
  /\ begun' = begun \ {msg}
  /\ BegunStale(msg) \/ BegunFailed(msg) \/ BegunTaken(msg)
  /\ UNCHANGED <<conns, modal, begins, ended, handle, script, over>>

\* The reply to COMMIT or ROLLBACK: nobody waits for it, it is over, or the
\* COMMIT failed.
EndIgnored(msg) == (msg.kind = "stale" \/ tx.handle # msg.handle) /\ tx' = tx /\ modal' = modal
EndOver(msg) ==
  /\ msg.kind # "stale" /\ tx.handle = msg.handle /\ (msg.kind # "commit" \/ msg.ok)
  /\ tx' = NoTx /\ modal' = modal
EndFails(msg) ==
  /\ msg.kind = "commit" /\ tx # NoTx /\ tx.handle = msg.handle
  /\ tx' = [driver |-> tx.driver, handle |-> tx.handle, state |-> msg.state, used |-> tx.used,
            busy |-> "none"]
  /\ modal' = "info"
EndReduced(msg) ==
  /\ ended' = ended \ {msg}
  /\ EndIgnored(msg) \/ EndOver(msg) \/ EndFails(msg)
  /\ UNCHANGED <<conns, begins, begun, ends, handle, script, over>>

\* What a worker sent: of no transaction of the mirror's, of the mirror's,
\* or of a run that is over.
StmtPassed(r) ==
  /\ r = run.id /\ run.running /\ (tx = NoTx \/ worker[r].tx = None)
  /\ tx' = tx /\ post' = [post EXCEPT ![r] = "none"]
StmtNoted(r) ==
  /\ r = run.id /\ run.running /\ tx # NoTx /\ worker[r].tx # None /\ tx.handle = worker[r].tx
  /\ tx' = [driver |-> tx.driver, handle |-> tx.handle, state |-> post[r], used |-> TRUE,
            busy |-> tx.busy]
  /\ post' = [post EXCEPT ![r] = "none"]
StmtReduced(r) ==
  /\ post[r] \notin {"none", "over", "unread"}
  /\ StmtPassed(r) \/ StmtNoted(r)
  /\ UNCHANGED <<conns, modal, begins, begun, ends, ended, handle, run, worker, over>>

Shapes ==
  \/ Asked
  \/ \E d \in Sessions \cup {None} : Replaced(d)
  \/ QuitNow
  \/ \E kind \in {"commit", "rollback"} : EndStarts(kind)
  \/ \E n \in 1..MaxStmts : RunStarts(n)
  \/ beginTx \/ cancelQuery
  \/ \E d \in Sessions : CloseReads(d) \/ CloseEnds(d)
  \/ \E d \in Sessions, h \in Txs : BeginServed(d, h)
  \/ \E e \in ends : EndServed(e)
  \/ \E r \in Runs : WorkerChecks(r) \/ WorkerExecutes(r) \/ WorkerSends(r) \/ WorkerFinishes(r)
  \/ \E msg \in begun : BegunReduced(msg)
  \/ \E msg \in ended : EndReduced(msg)
  \/ \E r \in Runs : StmtReduced(r) \/ finishQuery(r)

\* Every step of the session has one of these shapes.
LEMMA StepShapes ==
  ASSUME SessionInv, [Next]_vars
  PROVE  Shapes
<1> USE ConstantsAssumption DEF SessionInv, TxInv, DialInv, RunInv
<1>1. /\ dialed \in 0..MaxDials /\ dials \in Nat /\ dials <= dialed /\ modal \in Typed
      /\ None \notin Sessions
  BY DEF TypeOK, Typed
<1>2. CASE Dial \/ ConfirmConnect \/ ConnectFailed
  <2>1. Asked
    BY <1>1, <1>2 DEF Dial, ConfirmConnect, ConnectFailed, Ready, StartDial, Asked, Typed, NoModal
  <2> QED
    BY <2>1 DEF Shapes
<1>3. CASE Dismiss \/ UNCHANGED vars
  <2>1. Asked
    BY <1>1, <1>3 DEF Dismiss, Asked, Typed, NoModal, vars, conns
  <2> QED
    BY <2>1 DEF Shapes
<1>4. CASE Disconnect
  <2>1. Asked \/ Replaced(None)
    BY <1>1, <1>4 DEF Disconnect, disconnectActive, Replaced, Asked, Typed, conns
  <2> QED
    BY <2>1 DEF Shapes
<1>5. CASE ConfirmDisconnect
  <2>1. Replaced(None)
    BY <1>1, <1>5 DEF ConfirmDisconnect, disconnectActive, Replaced
  <2> QED
    BY <2>1 DEF Shapes
<1>6. ASSUME NEW d \in Sessions, Connected(d)
      PROVE  Shapes
  <2>1. Replaced(d)
    BY <1>1, <1>6 DEF Connected, Replaced
  <2> QED
    BY <2>1 DEF Shapes
<1>7. CASE Quit \/ ConfirmQuit
  <2>1. Asked \/ QuitNow
    BY <1>1, <1>7 DEF Quit, ConfirmQuit, Asked, QuitNow, Typed, conns
  <2> QED
    BY <2>1 DEF Shapes
<1>8. CASE confirmCommitTx
  <2>1. Asked
    BY <1>1, <1>8 DEF confirmCommitTx, txUnavailable, Asked, Typed, conns
  <2> QED
    BY <2>1 DEF Shapes
<1>9. CASE confirmRollbackTx
  <2>1. Asked \/ EndStarts("rollback")
    BY <1>1, <1>9 DEF confirmRollbackTx, Ready, txUnavailable, StartEnd, Asked, EndStarts, Typed, conns, txn
  <2> QED
    BY <2>1 DEF Shapes
<1>10. CASE ConfirmCommit
  <2>1. Asked \/ EndStarts("commit")
    BY <1>1, <1>10 DEF ConfirmCommit, StartEnd, Asked, EndStarts, Typed, NoModal, conns, txn
  <2> QED
    BY <2>1 DEF Shapes
<1>11. CASE ConfirmRollback
  <2>1. Asked \/ EndStarts("rollback")
    BY <1>1, <1>11 DEF ConfirmRollback, StartEnd, Asked, EndStarts, Typed, NoModal, conns, txn
  <2> QED
    BY <2>1 DEF Shapes
<1>12. ASSUME NEW kind \in {"plain", "params", "unguarded"}, NEW n \in 1..MaxStmts, submitQuery(kind, n)
       PROVE  Shapes
  <2>1. Asked \/ RunStarts(n)
    BY <1>1, <1>12 DEF submitQuery, MayRun, Ready, Asked, RunStarts, Typed, NoModal, conns
  <2> QED
    BY <2>1 DEF Shapes
<1>13. CASE ConfirmParams
  <2>1. Asked \/ RunStarts(1)
    BY <1>1, <1>13 DEF ConfirmParams, Asked, RunStarts, Typed, NoModal, conns
  <2> QED
    BY <2>1 DEF Shapes
<1>14. CASE ConfirmRun
  <2>1. PICK n \in 1..MaxStmts : RunStarts(n)
    BY <1>1, <1>14 DEF ConfirmRun, RunStarts, NoModal
  <2> QED
    BY <2>1 DEF Shapes
<1>15. CASE beginTx \/ cancelQuery
  BY <1>15 DEF Shapes
<1>16. CASE Commands
  BY <1>16 DEF Commands, Shapes
<1>17. ASSUME NEW msg \in begun, applyTxBegun(msg)
       PROVE  Shapes
  <2>1. BegunReduced(msg)
    <3>1. CASE tx = NoTx \/ tx.driver # msg.driver \/ tx.handle # None
      BY <1>17, <3>1 DEF applyTxBegun, StaleBegun, BegunReduced, BegunStale
    <3>2. CASE ~(tx = NoTx \/ tx.driver # msg.driver \/ tx.handle # None)
      <4>1. CASE msg.handle = None
        BY <1>17, <3>2, <4>1 DEF applyTxBegun, BegunReduced, BegunFailed
      <4>2. CASE msg.handle # None
        <5>1. /\ tx' = [tx EXCEPT !.handle = msg.handle, !.state = "active", !.busy = "none"]
              /\ ends' = ends /\ begun' = begun \ {msg}
              /\ UNCHANGED <<conns, modal, begins, ended, handle, script, over>>
          BY <1>17, <3>2, <4>2 DEF applyTxBegun
        <5>2. BegunTaken(msg)
          BY <3>2, <4>2, <5>1 DEF BegunTaken, TypeOK
        <5> QED
          BY <5>1, <5>2 DEF BegunReduced
      <4> QED
        BY <4>1, <4>2
    <3> QED
      BY <3>1, <3>2
  <2> QED
    BY <2>1 DEF Shapes
<1>18. ASSUME NEW msg \in ended, applyTxEnded(msg)
       PROVE  Shapes
  <2>1. EndReduced(msg)
    <3>0. msg.handle \in Txs
      BY DEF TypeOK
    <3>1. CASE msg.kind = "stale" \/ tx = NoTx \/ tx.handle # msg.handle
      BY <1>1, <1>18, <3>0, <3>1 DEF applyTxEnded, EndReduced, EndIgnored, NoTx
    <3>2. CASE ~(msg.kind = "stale" \/ tx = NoTx \/ tx.handle # msg.handle)
      <4>1. CASE ~(msg.kind = "commit" /\ ~msg.ok)
        BY <1>18, <3>2, <4>1 DEF applyTxEnded, EndReduced, EndOver
      <4>2. CASE msg.kind = "commit" /\ ~msg.ok
        <5>1. /\ tx' = [tx EXCEPT !.busy = "none", !.state = msg.state]
              /\ modal' = "info" /\ ended' = ended \ {msg}
              /\ UNCHANGED <<conns, begins, begun, ends, handle, script, over>>
          BY <1>18, <3>2, <4>2 DEF applyTxEnded, CommitFailed
        <5>2. EndFails(msg)
          BY <3>2, <4>2, <5>1 DEF EndFails, TypeOK
        <5> QED
          BY <5>1, <5>2 DEF EndReduced
      <4> QED
        BY <4>1, <4>2
    <3> QED
      BY <3>1, <3>2
  <2> QED
    BY <2>1 DEF Shapes
<1>19. ASSUME NEW r \in Runs, applyQueryStmt(r)
       PROVE  Shapes
  <2>1. r = run.id /\ run.running
    BY <1>19 DEF applyQueryStmt
  <2>2. /\ post[r] \notin {"none", "over", "unread"}
        /\ tx' = IF tx # NoTx /\ worker[r].tx # None /\ tx.handle = worker[r].tx
                 THEN [tx EXCEPT !.state = post[r], !.used = TRUE] ELSE tx
        /\ post' = [post EXCEPT ![r] = "none"]
        /\ UNCHANGED <<conns, modal, begins, begun, ends, ended, handle, run, worker, over>>
    BY <1>19, <2>1 DEF applyQueryStmt, noteTxStatement
  <2>3. CASE tx # NoTx /\ worker[r].tx # None /\ tx.handle = worker[r].tx
    BY <2>1, <2>2, <2>3 DEF StmtReduced, StmtNoted, TypeOK, Shapes
  <2>4. CASE ~(tx # NoTx /\ worker[r].tx # None /\ tx.handle = worker[r].tx)
    <3>1. tx = NoTx \/ worker[r].tx = None
      BY <2>1, <2>4
    <3>2. StmtReduced(r)
      BY <2>1, <2>2, <2>4, <3>1 DEF StmtReduced, StmtPassed
    <3> QED
      BY <3>2 DEF Shapes
  <2> QED
    BY <2>3, <2>4
<1>20. CASE Messages
  BY <1>2, <1>6, <1>17, <1>18, <1>19, <1>20 DEF Messages, Shapes
<1> QED
  BY <1>2, <1>3, <1>4, <1>5, <1>7, <1>8, <1>9, <1>10, <1>11, <1>12, <1>13, <1>14, <1>15, <1>16, <1>20
     DEF Next, Keys, Confirms

-----------------------------------------------------------------------------
(* Each part of the invariant is kept by each of them.                     *)

WorkerType == [at : {"none", "check", "exec", "send", "finish", "gone"},
               driver : Sessions \cup {None}, tx : Txs \cup {None}, left : 0..MaxStmts,
               failed : BOOLEAN, seen : TxStates \cup {"outside"}]

\* A COMMIT or ROLLBACK leaves its handle in a state and says which; it is
\* over unless a COMMIT failed on a transaction that was still open.
LEMMA EndOutcome ==
  ASSUME NEW e \in ends, TypeOK, EndServed(e)
  PROVE  \E s \in TxStates :
           /\ handle' = [handle EXCEPT ![e.handle].state = s]
           /\ ended' = ended \cup {[handle |-> e.handle, kind |-> e.kind, ok |-> s = "done", state |-> s]}
           /\ e.kind # "commit" \/ handle[e.handle].state = "done" => s = "done"
<1>1. PICK s \in {"done"} \cup IF e.kind = "commit" /\ handle[e.handle].state # "done"
                               THEN {"active", "aborted", "lost"} ELSE {} :
        /\ handle' = [handle EXCEPT ![e.handle].state = s]
        /\ ended' = ended \cup {Reply(e, s = "done")}
  BY DEF EndServed
<1>2. s \in TxStates /\ (e.kind # "commit" \/ handle[e.handle].state = "done" => s = "done")
  BY DEF TxStates
<1>3. handle'[e.handle].state = s
  BY <1>1 DEF TypeOK
<1> QED
  BY <1>1, <1>2, <1>3 DEF Reply

\* A statement leaves its handle in a state, and its worker knows which.
LEMMA StmtOutcome ==
  ASSUME NEW r \in Runs, TypeOK, WorkerExecutes(r),
         worker[r].tx # None => handle[worker[r].tx].state # "unused"
  PROVE  \E s \in TxStates \cup {"outside"}, f \in BOOLEAN :
           /\ handle' = IF worker[r].tx = None THEN handle
                        ELSE [handle EXCEPT ![worker[r].tx].state = s]
           /\ worker[r].tx # None => s # "outside"
           /\ worker' = [worker EXCEPT ![r].at = "send", ![r].left = worker[r].left - 1,
                                       ![r].failed = f, ![r].seen = s]
<1> DEFINE now == IF worker[r].tx = None THEN "outside" ELSE handle[worker[r].tx].state
<1>1. PICK end \in StmtEnds(now) :
        /\ handle' = IF worker[r].tx = None THEN handle
                     ELSE [handle EXCEPT ![worker[r].tx].state = end.state]
        /\ worker' = [worker EXCEPT ![r].at = "send", ![r].left = @ - 1,
                                    ![r].failed = end.fails, ![r].seen = end.state]
  BY DEF WorkerExecutes
<1>2. now \in TxStates \cup {"outside"} /\ (worker[r].tx # None => now # "outside")
  BY DEF TypeOK, TxStates
<1> HIDE DEF now
<1>3. /\ end.state \in TxStates \cup {"outside"} /\ end.fails \in BOOLEAN
      /\ worker[r].tx # None => end.state # "outside"
  <2>1. \E s \in {now, "active", "aborted", "lost"}, f \in BOOLEAN :
          /\ end = [state |-> s, fails |-> f]
          /\ now = "outside" => s = "outside"
    BY <1>1 DEF StmtEnds
  <2>2. /\ end.state \in {now, "active", "aborted", "lost"} /\ end.fails \in BOOLEAN
        /\ now = "outside" => end.state = "outside"
    BY <2>1
  <2> QED
    BY <1>2, <2>2 DEF TxStates
<1>4. worker' = [worker EXCEPT ![r].at = "send", ![r].left = worker[r].left - 1,
                               ![r].failed = end.fails, ![r].seen = end.state]
  BY <1>1 DEF TypeOK
<1> QED
  BY <1>1, <1>3, <1>4

\* Every variable keeps its type.
LEMMA TypeKept ==
  ASSUME SessionInv, Shapes
  PROVE  TypeOK'
<1> USE ConstantsAssumption DEF SessionInv, TxInv, TypeOK, NoTx, NoModal, RunInv, SeenInv, LiveInv,
   BegunInv, EndsInv, DialInv, TxStates, Alive
<1>1. CASE Asked
  BY <1>1 DEF Asked, Typed, txn, script
<1>2. ASSUME NEW d \in Sessions \cup {None}, Replaced(d)
      PROVE  TypeOK'
  BY <1>2 DEF Replaced, resetBrowse, Leave
<1>3. CASE QuitNow
  BY <1>3 DEF QuitNow, quit, script
<1>4. ASSUME NEW kind \in {"commit", "rollback"}, EndStarts(kind)
      PROVE  TypeOK'
  BY <1>4 DEF EndStarts, End, conns, script
<1>5. ASSUME NEW n \in 1..MaxStmts, RunStarts(n)
      PROVE  TypeOK'
  <2>1. /\ worker' = [worker EXCEPT ![run.id + 1] = [NoWorker EXCEPT !.at = "check", !.driver = live,
                                                    !.tx = tx.handle, !.left = n]]
        /\ run' = [running |-> TRUE, id |-> run.id + 1, cancelled |-> FALSE] /\ run.id + 1 \in Runs
        /\ post' = post
    BY <1>5 DEF RunStarts, startQuery
  <2>2. live \in Sessions \cup {None} /\ tx.handle \in Txs \cup {None} /\ n \in 0..MaxStmts
    OBVIOUS
  <2>3. [NoWorker EXCEPT !.at = "check", !.driver = live, !.tx = tx.handle, !.left = n] \in WorkerType
    BY ONLY <2>2 DEF NoWorker, WorkerType
  <2>4. worker' \in [Runs -> WorkerType] /\ run' \in [running : BOOLEAN, id : Runs \cup {0}, cancelled : BOOLEAN]
    BY <2>1, <2>3 DEF WorkerType
  <2> QED
    BY <1>5, <2>1, <2>4 DEF RunStarts, WorkerType, conns, txn
<1>6. CASE beginTx
  BY <1>6 DEF beginTx, Ready, conns, script
<1>7. CASE cancelQuery
  BY <1>7 DEF cancelQuery, conns, txn
<1>8. ASSUME NEW d \in Sessions, CloseReads(d)
      PROVE  TypeOK'
  BY <1>8 DEF CloseReads, Executing, script
<1>9. ASSUME NEW d \in Sessions, CloseEnds(d)
      PROVE  TypeOK'
  BY <1>9 DEF CloseEnds, txn, script
<1>10. ASSUME NEW d \in Sessions, NEW h \in Txs, BeginServed(d, h)
      PROVE  TypeOK'
  BY <1>10 DEF BeginServed, conns, script
<1>11. ASSUME NEW e \in ends, EndServed(e)
      PROVE  TypeOK'
  <2>1. PICK s \in TxStates :
          /\ handle' = [handle EXCEPT ![e.handle].state = s]
          /\ ended' = ended \cup {[handle |-> e.handle, kind |-> e.kind, ok |-> s = "done", state |-> s]}
    BY ONLY <1>11, TypeOK, EndOutcome
  <2>2. handle' \in [Txs -> [driver : Sessions \cup {None}, state : TxStates \cup {"unused"}]]
    BY <2>1
  <2>3. ended' \subseteq [handle : Txs, kind : {"commit", "rollback", "stale"},
                        ok : BOOLEAN, state : TxStates]
    <3>1. e.handle \in Txs /\ e.kind \in {"commit", "rollback", "stale"}
      OBVIOUS
    <3>2. ended \subseteq [handle : Txs, kind : {"commit", "rollback", "stale"},
                          ok : BOOLEAN, state : TxStates]
      OBVIOUS
    <3>3. [handle |-> e.handle, kind |-> e.kind, ok |-> s = "done", state |-> s]
            \in [handle : Txs, kind : {"commit", "rollback", "stale"}, ok : BOOLEAN, state : TxStates]
      BY ONLY <3>1, s \in TxStates
    <3> QED
      BY ONLY <2>1, <3>2, <3>3
  <2> QED
    BY <1>11, <2>2, <2>3 DEF EndServed, conns, script
<1>12. ASSUME NEW r \in Runs, WorkerChecks(r)
      PROVE  TypeOK'
  <2>1. PICK at \in {"finish", "exec"} : worker' = [worker EXCEPT ![r].at = at]
    BY <1>12 DEF WorkerChecks
  <2>2. worker \in [Runs -> WorkerType]
    BY DEF WorkerType
  <2>3. worker' \in [Runs -> WorkerType]
    BY ONLY <2>1, <2>2 DEF WorkerType
  <2> QED
    BY <1>12, <2>3 DEF WorkerChecks, WorkerType, conns, txn
<1>13. ASSUME NEW r \in Runs, WorkerExecutes(r)
      PROVE  TypeOK'
  <2>1. worker[r].left \in 1..MaxStmts /\ worker[r].left - 1 \in 0..MaxStmts
    BY <1>13 DEF WorkerExecutes
  <2>2. PICK s \in TxStates \cup {"outside"}, f \in BOOLEAN :
          /\ handle' = IF worker[r].tx = None THEN handle
                       ELSE [handle EXCEPT ![worker[r].tx].state = s]
          /\ worker[r].tx # None => s # "outside"
          /\ worker' = [worker EXCEPT ![r].at = "send", ![r].left = worker[r].left - 1,
                                      ![r].failed = f, ![r].seen = s]
    BY <1>13, StmtOutcome
  <2>3. handle' \in [Txs -> [driver : Sessions \cup {None}, state : TxStates \cup {"unused"}]]
    BY <2>2
  <2>4. worker \in [Runs -> WorkerType]
    BY DEF WorkerType
  <2>5. worker' \in [Runs -> WorkerType]
    BY ONLY <2>1, <2>2, <2>4 DEF WorkerType
  <2>6. UNCHANGED <<live, dialed, dials, phase, modal, tx, begins, begun, ends, ended, run, post, over>>
    BY <1>13 DEF WorkerExecutes, conns
  <2>7. TypeOK
    BY DEF SessionInv
  <2> QED
    BY ONLY <2>3, <2>5, <2>6, <2>7 DEF TypeOK, WorkerType
<1>14. ASSUME NEW r \in Runs, WorkerSends(r)
      PROVE  TypeOK'
  <2>1. PICK at \in {"finish", "check"} : worker' = [worker EXCEPT ![r].at = at]
    BY <1>14 DEF WorkerSends
  <2>2. worker \in [Runs -> WorkerType]
    BY DEF WorkerType
  <2>3. worker' \in [Runs -> WorkerType]
    BY ONLY <2>1, <2>2 DEF WorkerType
  <2> QED
    BY <1>14, <2>3 DEF WorkerSends, WorkerType, conns, txn
<1>15. ASSUME NEW r \in Runs, WorkerFinishes(r)
      PROVE  TypeOK'
  <2>1. PICK at \in {"gone"} : worker' = [worker EXCEPT ![r].at = at]
    BY <1>15 DEF WorkerFinishes
  <2>2. worker \in [Runs -> WorkerType]
    BY DEF WorkerType
  <2>3. worker' \in [Runs -> WorkerType]
    BY ONLY <2>1, <2>2 DEF WorkerType
  <2> QED
    BY <1>15, <2>3 DEF WorkerFinishes, WorkerType, conns, txn
<1>16. ASSUME NEW msg \in begun, BegunReduced(msg), BegunStale(msg)
      PROVE  TypeOK'
  BY <1>16 DEF BegunReduced, BegunStale, End, conns, script
<1>17. ASSUME NEW msg \in begun, BegunReduced(msg), BegunFailed(msg)
      PROVE  TypeOK'
  BY <1>17 DEF BegunReduced, BegunFailed, conns, script
<1>18. ASSUME NEW msg \in begun, BegunReduced(msg), BegunTaken(msg)
      PROVE  TypeOK'
  BY <1>18 DEF BegunReduced, BegunTaken, conns, script
<1>19. ASSUME NEW msg \in ended, EndReduced(msg), EndIgnored(msg)
      PROVE  TypeOK'
  BY <1>19 DEF EndReduced, EndIgnored, conns, script
<1>20. ASSUME NEW msg \in ended, EndReduced(msg), EndOver(msg)
      PROVE  TypeOK'
  BY <1>20 DEF EndReduced, EndOver, conns, script
<1>21. ASSUME NEW msg \in ended, EndReduced(msg), EndFails(msg)
      PROVE  TypeOK'
  BY <1>21 DEF EndReduced, EndFails, conns, script
<1>22. ASSUME NEW r \in Runs, StmtReduced(r), StmtPassed(r)
      PROVE  TypeOK'
  BY <1>22 DEF StmtReduced, StmtPassed, conns
<1>23. ASSUME NEW r \in Runs, StmtReduced(r), StmtNoted(r)
      PROVE  TypeOK'
  BY <1>23 DEF StmtReduced, StmtNoted, conns
<1>24. ASSUME NEW r \in Runs, finishQuery(r)
      PROVE  TypeOK'
  <2>1. run' = IF r = run.id THEN [run EXCEPT !.running = FALSE] ELSE run
    BY <1>24 DEF finishQuery
  <2>2. run' \in [running : BOOLEAN, id : Runs \cup {0}, cancelled : BOOLEAN]
    BY <2>1
  <2>3. post' \in [Runs -> TxStates \cup {"outside", "none", "over", "unread"}]
    BY <1>24 DEF finishQuery
  <2> QED
    BY <1>24, <2>2, <2>3 DEF finishQuery, conns, txn
<1> QED
  BY <1>1, <1>2, <1>3, <1>4, <1>5, <1>6, <1>7, <1>8, <1>9, <1>10, <1>11, <1>12, <1>13, <1>14, <1>15,
     <1>16, <1>17, <1>18, <1>19, <1>20, <1>21, <1>22, <1>23, <1>24
     DEF Shapes, BegunReduced, EndReduced, StmtReduced

\* The dials in flight are among those started.
LEMMA DialKept ==
  ASSUME SessionInv, Shapes
  PROVE  DialInv'
<1>1. CASE Asked \/ \E d \in Sessions \cup {None} : Replaced(d)
  BY <1>1 DEF Asked, Replaced, DialInv, SessionInv, TxInv, TypeOK
<1>2. CASE UNCHANGED <<dialed, dials>>
  BY <1>2 DEF DialInv, SessionInv, TxInv
<1> QED
  BY <1>1, <1>2 DEF Shapes, QuitNow, quit, EndStarts, RunStarts, beginTx, cancelQuery, CloseReads, CloseEnds,
     BeginServed, EndServed, WorkerChecks, WorkerExecutes, WorkerSends, WorkerFinishes, BegunReduced,
     EndReduced, StmtReduced, finishQuery, conns

\* One run at a time.
LEMMA RunKept ==
  ASSUME SessionInv, Shapes
  PROVE  RunInv'
<1> USE ConstantsAssumption DEF SessionInv, TxInv, TypeOK, NoTx, NoModal, RunInv, LiveInv, Alive, TxStates
<1>1. CASE Asked
  BY <1>1 DEF Asked, Typed, txn, script
<1>2. ASSUME NEW d \in Sessions \cup {None}, Replaced(d)
      PROVE  RunInv'
  BY <1>2 DEF Replaced, resetBrowse, Leave
<1>3. CASE QuitNow
  BY <1>3 DEF QuitNow, quit, script
<1>4. ASSUME NEW kind \in {"commit", "rollback"}, EndStarts(kind)
      PROVE  RunInv'
  BY <1>4 DEF EndStarts, End, conns, script
<1>5. ASSUME NEW n \in 1..MaxStmts, RunStarts(n)
      PROVE  RunInv'
  BY <1>5 DEF RunStarts, startQuery, NoWorker, conns, txn
<1>6. CASE beginTx
  BY <1>6 DEF beginTx, Ready, conns, script
<1>7. CASE cancelQuery
  BY <1>7 DEF cancelQuery, conns, txn
<1>8. ASSUME NEW d \in Sessions, CloseReads(d)
      PROVE  RunInv'
  BY <1>8 DEF CloseReads, Executing, script
<1>9. ASSUME NEW d \in Sessions, CloseEnds(d)
      PROVE  RunInv'
  BY <1>9 DEF CloseEnds, txn, script
<1>10. ASSUME NEW d \in Sessions, NEW h \in Txs, BeginServed(d, h)
      PROVE  RunInv'
  BY <1>10 DEF BeginServed, conns, script
<1>11. ASSUME NEW e \in ends, EndServed(e)
      PROVE  RunInv'
  BY <1>11 DEF EndServed, Executing, Reply, conns, script
<1>12. ASSUME NEW r \in Runs, WorkerChecks(r)
      PROVE  RunInv'
  BY <1>12 DEF WorkerChecks, conns, txn
<1>13. ASSUME NEW r \in Runs, WorkerExecutes(r)
      PROVE  RunInv'
  BY <1>13 DEF WorkerExecutes, StmtEnds, conns
<1>14. ASSUME NEW r \in Runs, WorkerSends(r)
      PROVE  RunInv'
  BY <1>14 DEF WorkerSends, conns, txn
<1>15. ASSUME NEW r \in Runs, WorkerFinishes(r)
      PROVE  RunInv'
  BY <1>15 DEF WorkerFinishes, conns, txn
<1>16. ASSUME NEW msg \in begun, BegunReduced(msg), BegunStale(msg)
      PROVE  RunInv'
  BY <1>16 DEF BegunReduced, BegunStale, End, conns, script
<1>17. ASSUME NEW msg \in begun, BegunReduced(msg), BegunFailed(msg)
      PROVE  RunInv'
  BY <1>17 DEF BegunReduced, BegunFailed, conns, script
<1>18. ASSUME NEW msg \in begun, BegunReduced(msg), BegunTaken(msg)
      PROVE  RunInv'
  BY <1>18 DEF BegunReduced, BegunTaken, conns, script
<1>19. ASSUME NEW msg \in ended, EndReduced(msg), EndIgnored(msg)
      PROVE  RunInv'
  BY <1>19 DEF EndReduced, EndIgnored, conns, script
<1>20. ASSUME NEW msg \in ended, EndReduced(msg), EndOver(msg)
      PROVE  RunInv'
  BY <1>20 DEF EndReduced, EndOver, conns, script
<1>21. ASSUME NEW msg \in ended, EndReduced(msg), EndFails(msg)
      PROVE  RunInv'
  BY <1>21 DEF EndReduced, EndFails, conns, script
<1>22. ASSUME NEW r \in Runs, StmtReduced(r), StmtPassed(r)
      PROVE  RunInv'
  BY <1>22 DEF StmtReduced, StmtPassed, conns
<1>23. ASSUME NEW r \in Runs, StmtReduced(r), StmtNoted(r)
      PROVE  RunInv'
  BY <1>23 DEF StmtReduced, StmtNoted, conns
<1>24. ASSUME NEW r \in Runs, finishQuery(r)
      PROVE  RunInv'
  BY <1>24 DEF finishQuery, conns, txn
<1> QED
  BY <1>1, <1>2, <1>3, <1>4, <1>5, <1>6, <1>7, <1>8, <1>9, <1>10, <1>11, <1>12, <1>13, <1>14, <1>15,
     <1>16, <1>17, <1>18, <1>19, <1>20, <1>21, <1>22, <1>23, <1>24
     DEF Shapes, BegunReduced, EndReduced, StmtReduced

\* A worker inside a transaction sees states of its handle.
LEMMA SeenKept ==
  ASSUME SessionInv, Shapes
  PROVE  SeenInv'
<1> USE ConstantsAssumption DEF SessionInv, TxInv, TypeOK, SeenInv, LiveInv, TxStates, NoTx
<1>1. CASE Asked
  BY <1>1 DEF Asked, Typed, txn, script
<1>2. ASSUME NEW d \in Sessions \cup {None}, Replaced(d)
      PROVE  SeenInv'
  BY <1>2 DEF Replaced, resetBrowse, Leave
<1>3. CASE QuitNow
  BY <1>3 DEF QuitNow, quit, script
<1>4. ASSUME NEW kind \in {"commit", "rollback"}, EndStarts(kind)
      PROVE  SeenInv'
  BY <1>4 DEF EndStarts, End, conns, script
<1>5. ASSUME NEW n \in 1..MaxStmts, RunStarts(n)
      PROVE  SeenInv'
  <2>1. /\ worker' = [worker EXCEPT ![run.id + 1] = [NoWorker EXCEPT !.at = "check", !.driver = live,
                                                   !.tx = tx.handle, !.left = n]]
        /\ post' = post /\ handle' = handle /\ run.id + 1 \in Runs
    BY <1>5 DEF RunStarts, startQuery, txn
  <2>2. post[run.id + 1] = "none"
    BY <2>1 DEF RunInv
  <2>3. worker'[run.id + 1].tx = tx.handle /\ worker'[run.id + 1].at = "check"
    BY <2>1 DEF NoWorker
  <2> QED
    BY <2>1, <2>2, <2>3
<1>6. CASE beginTx
  BY <1>6 DEF beginTx, Ready, conns, script
<1>7. CASE cancelQuery
  BY <1>7 DEF cancelQuery, conns, txn
<1>8. ASSUME NEW d \in Sessions, CloseReads(d)
      PROVE  SeenInv'
  BY <1>8 DEF CloseReads, Executing, script
<1>9. ASSUME NEW d \in Sessions, CloseEnds(d)
      PROVE  SeenInv'
  BY <1>9 DEF CloseEnds, txn, script
<1>10. ASSUME NEW d \in Sessions, NEW h \in Txs, BeginServed(d, h)
      PROVE  SeenInv'
  BY <1>10 DEF BeginServed, conns, script
<1>11. ASSUME NEW e \in ends, EndServed(e)
      PROVE  SeenInv'
  BY <1>11 DEF EndServed, Executing, Reply, conns, script
<1>12. ASSUME NEW r \in Runs, WorkerChecks(r)
      PROVE  SeenInv'
  BY <1>12 DEF WorkerChecks, conns, txn
<1>13. ASSUME NEW r \in Runs, WorkerExecutes(r)
      PROVE  SeenInv'
  BY <1>13 DEF WorkerExecutes, StmtEnds, conns
<1>14. ASSUME NEW r \in Runs, WorkerSends(r)
      PROVE  SeenInv'
  BY <1>14 DEF WorkerSends, conns, txn
<1>15. ASSUME NEW r \in Runs, WorkerFinishes(r)
      PROVE  SeenInv'
  BY <1>15 DEF WorkerFinishes, conns, txn
<1>16. ASSUME NEW msg \in begun, BegunReduced(msg), BegunStale(msg)
      PROVE  SeenInv'
  BY <1>16 DEF BegunReduced, BegunStale, End, conns, script
<1>17. ASSUME NEW msg \in begun, BegunReduced(msg), BegunFailed(msg)
      PROVE  SeenInv'
  BY <1>17 DEF BegunReduced, BegunFailed, conns, script
<1>18. ASSUME NEW msg \in begun, BegunReduced(msg), BegunTaken(msg)
      PROVE  SeenInv'
  BY <1>18 DEF BegunReduced, BegunTaken, conns, script
<1>19. ASSUME NEW msg \in ended, EndReduced(msg), EndIgnored(msg)
      PROVE  SeenInv'
  BY <1>19 DEF EndReduced, EndIgnored, conns, script
<1>20. ASSUME NEW msg \in ended, EndReduced(msg), EndOver(msg)
      PROVE  SeenInv'
  BY <1>20 DEF EndReduced, EndOver, conns, script
<1>21. ASSUME NEW msg \in ended, EndReduced(msg), EndFails(msg)
      PROVE  SeenInv'
  BY <1>21 DEF EndReduced, EndFails, conns, script
<1>22. ASSUME NEW r \in Runs, StmtReduced(r), StmtPassed(r)
      PROVE  SeenInv'
  BY <1>22 DEF StmtReduced, StmtPassed, conns
<1>23. ASSUME NEW r \in Runs, StmtReduced(r), StmtNoted(r)
      PROVE  SeenInv'
  BY <1>23 DEF StmtReduced, StmtNoted, conns
<1>24. ASSUME NEW r \in Runs, finishQuery(r)
      PROVE  SeenInv'
  BY <1>24 DEF finishQuery, conns, txn
<1> QED
  BY <1>1, <1>2, <1>3, <1>4, <1>5, <1>6, <1>7, <1>8, <1>9, <1>10, <1>11, <1>12, <1>13, <1>14, <1>15,
     <1>16, <1>17, <1>18, <1>19, <1>20, <1>21, <1>22, <1>23, <1>24
     DEF Shapes, BegunReduced, EndReduced, StmtReduced

\* The mirror is of a transaction on the live driver.
LEMMA LiveKept ==
  ASSUME SessionInv, Shapes
  PROVE  LiveInv'
<1> USE ConstantsAssumption DEF SessionInv, TxInv, TypeOK, NoTx, LiveInv, BegunInv, EndsInv, SeenInv, TxStates
<1>1. CASE Asked
  BY <1>1 DEF Asked, Typed, txn, script
<1>2. ASSUME NEW d \in Sessions \cup {None}, Replaced(d)
      PROVE  LiveInv'
  BY <1>2 DEF Replaced, resetBrowse, Leave
<1>3. CASE QuitNow
  BY <1>3 DEF QuitNow, quit, script
<1>4. ASSUME NEW kind \in {"commit", "rollback"}, EndStarts(kind)
      PROVE  LiveInv'
  BY <1>4 DEF EndStarts, End, conns, script
<1>5. ASSUME NEW n \in 1..MaxStmts, RunStarts(n)
      PROVE  LiveInv'
  BY <1>5 DEF RunStarts, startQuery, NoWorker, conns, txn
<1>6. CASE beginTx
  BY <1>6 DEF beginTx, Ready, conns, script
<1>7. CASE cancelQuery
  BY <1>7 DEF cancelQuery, conns, txn
<1>8. ASSUME NEW d \in Sessions, CloseReads(d)
      PROVE  LiveInv'
  BY <1>8 DEF CloseReads, Executing, script
<1>9. ASSUME NEW d \in Sessions, CloseEnds(d)
      PROVE  LiveInv'
  BY <1>9 DEF CloseEnds, txn, script
<1>10. ASSUME NEW d \in Sessions, NEW h \in Txs, BeginServed(d, h)
      PROVE  LiveInv'
  BY <1>10 DEF BeginServed, conns, script
<1>11. ASSUME NEW e \in ends, EndServed(e)
      PROVE  LiveInv'
  BY <1>11 DEF EndServed, Executing, Reply, conns, script
<1>12. ASSUME NEW r \in Runs, WorkerChecks(r)
      PROVE  LiveInv'
  BY <1>12 DEF WorkerChecks, conns, txn
<1>13. ASSUME NEW r \in Runs, WorkerExecutes(r)
      PROVE  LiveInv'
  BY <1>13 DEF WorkerExecutes, StmtEnds, conns
<1>14. ASSUME NEW r \in Runs, WorkerSends(r)
      PROVE  LiveInv'
  BY <1>14 DEF WorkerSends, conns, txn
<1>15. ASSUME NEW r \in Runs, WorkerFinishes(r)
      PROVE  LiveInv'
  BY <1>15 DEF WorkerFinishes, conns, txn
<1>16. ASSUME NEW msg \in begun, BegunReduced(msg), BegunStale(msg)
      PROVE  LiveInv'
  BY <1>16 DEF BegunReduced, BegunStale, End, conns, script
<1>17. ASSUME NEW msg \in begun, BegunReduced(msg), BegunFailed(msg)
      PROVE  LiveInv'
  BY <1>17 DEF BegunReduced, BegunFailed, conns, script
<1>18. ASSUME NEW msg \in begun, BegunReduced(msg), BegunTaken(msg)
      PROVE  LiveInv'
  BY <1>18 DEF BegunReduced, BegunTaken, conns, script
<1>19. ASSUME NEW msg \in ended, EndReduced(msg), EndIgnored(msg)
      PROVE  LiveInv'
  BY <1>19 DEF EndReduced, EndIgnored, conns, script
<1>20. ASSUME NEW msg \in ended, EndReduced(msg), EndOver(msg)
      PROVE  LiveInv'
  BY <1>20 DEF EndReduced, EndOver, conns, script
<1>21. ASSUME NEW msg \in ended, EndReduced(msg), EndFails(msg)
      PROVE  LiveInv'
  BY <1>21 DEF EndReduced, EndFails, conns, script
<1>22. ASSUME NEW r \in Runs, StmtReduced(r), StmtPassed(r)
      PROVE  LiveInv'
  BY <1>22 DEF StmtReduced, StmtPassed, conns
<1>23. ASSUME NEW r \in Runs, StmtReduced(r), StmtNoted(r)
      PROVE  LiveInv'
  BY <1>23 DEF StmtReduced, StmtNoted, conns
<1>24. ASSUME NEW r \in Runs, finishQuery(r)
      PROVE  LiveInv'
  BY <1>24 DEF finishQuery, conns, txn
<1> QED
  BY <1>1, <1>2, <1>3, <1>4, <1>5, <1>6, <1>7, <1>8, <1>9, <1>10, <1>11, <1>12, <1>13, <1>14, <1>15,
     <1>16, <1>17, <1>18, <1>19, <1>20, <1>21, <1>22, <1>23, <1>24
     DEF Shapes, BegunReduced, EndReduced, StmtReduced

\* A fresh handle is nobody's.
LEMMA BegunKept ==
  ASSUME SessionInv, Shapes
  PROVE  BegunInv'
<1> USE ConstantsAssumption DEF SessionInv, TxInv, TypeOK, NoTx, BegunInv, LiveInv, SeenInv, EndsInv,
   EndedInv, TxStates
<1>1. CASE Asked
  BY <1>1 DEF Asked, Typed, txn, script
<1>2. ASSUME NEW d \in Sessions \cup {None}, Replaced(d)
      PROVE  BegunInv'
  <2>1. /\ tx' = NoTx /\ NoTx.handle = None /\ run'.id = run.id
        /\ tx.handle # None => live # None /\ handle[tx.handle].driver = live
        /\ UNCHANGED <<begins, begun, ends, ended, handle, worker, over>>
    BY <1>2 DEF Replaced, resetBrowse
  <2>2. /\ live # None => phase'[live] = "closing"
        /\ \A s \in Sessions : phase[s] # "unused" /\ s # live => phase'[s] = phase[s]
    BY <1>2 DEF Replaced, Leave
  <2>3. SUFFICES ASSUME NEW msg \in begun, msg.handle # None
                 PROVE  /\ phase'[msg.driver] # "unused"
                        /\ phase'[msg.driver] = "open" => handle[msg.handle].state = "active"
    BY <2>1
  <2>4. /\ msg.driver \in Sessions /\ phase[msg.driver] # "unused"
        /\ phase[msg.driver] = "open" => handle[msg.handle].state = "active"
    <3>1. msg.driver \in Sessions
      BY msg \in begun DEF TypeOK
    <3> QED
      BY <2>3, <3>1
  <2>5. CASE msg.driver = live
    BY <2>2, <2>4, <2>5
  <2>6. CASE msg.driver # live
    BY <2>2, <2>4, <2>6
  <2> QED
    BY <2>5, <2>6
<1>3. CASE QuitNow
  BY <1>3 DEF QuitNow, quit, script
<1>4. ASSUME NEW kind \in {"commit", "rollback"}, EndStarts(kind)
      PROVE  BegunInv'
  BY <1>4 DEF EndStarts, End, conns, script
<1>5. ASSUME NEW n \in 1..MaxStmts, RunStarts(n)
      PROVE  BegunInv'
  BY <1>5 DEF RunStarts, startQuery, NoWorker, conns, txn
<1>6. CASE beginTx
  BY <1>6 DEF beginTx, Ready, conns, script
<1>7. CASE cancelQuery
  BY <1>7 DEF cancelQuery, conns, txn
<1>8. ASSUME NEW d \in Sessions, CloseReads(d)
      PROVE  BegunInv'
  BY <1>8 DEF CloseReads, Executing, script
<1>9. ASSUME NEW d \in Sessions, CloseEnds(d)
      PROVE  BegunInv'
  BY <1>9 DEF CloseEnds, txn, script
<1>10. ASSUME NEW d \in Sessions, NEW h \in Txs, BeginServed(d, h)
      PROVE  BegunInv'
  BY <1>10 DEF BeginServed, conns, script
<1>11. ASSUME NEW e \in ends, EndServed(e)
      PROVE  BegunInv'
  BY <1>11 DEF EndServed, Executing, Reply, conns, script
<1>12. ASSUME NEW r \in Runs, WorkerChecks(r)
      PROVE  BegunInv'
  BY <1>12 DEF WorkerChecks, conns, txn
<1>13. ASSUME NEW r \in Runs, WorkerExecutes(r)
      PROVE  BegunInv'
  BY <1>13 DEF WorkerExecutes, StmtEnds, conns
<1>14. ASSUME NEW r \in Runs, WorkerSends(r)
      PROVE  BegunInv'
  BY <1>14 DEF WorkerSends, conns, txn
<1>15. ASSUME NEW r \in Runs, WorkerFinishes(r)
      PROVE  BegunInv'
  BY <1>15 DEF WorkerFinishes, conns, txn
<1>16. ASSUME NEW msg \in begun, BegunReduced(msg), BegunStale(msg)
      PROVE  BegunInv'
  BY <1>16 DEF BegunReduced, BegunStale, End, conns, script
<1>17. ASSUME NEW msg \in begun, BegunReduced(msg), BegunFailed(msg)
      PROVE  BegunInv'
  BY <1>17 DEF BegunReduced, BegunFailed, conns, script
<1>18. ASSUME NEW msg \in begun, BegunReduced(msg), BegunTaken(msg)
      PROVE  BegunInv'
  BY <1>18 DEF BegunReduced, BegunTaken, conns, script
<1>19. ASSUME NEW msg \in ended, EndReduced(msg), EndIgnored(msg)
      PROVE  BegunInv'
  BY <1>19 DEF EndReduced, EndIgnored, conns, script
<1>20. ASSUME NEW msg \in ended, EndReduced(msg), EndOver(msg)
      PROVE  BegunInv'
  BY <1>20 DEF EndReduced, EndOver, conns, script
<1>21. ASSUME NEW msg \in ended, EndReduced(msg), EndFails(msg)
      PROVE  BegunInv'
  BY <1>21 DEF EndReduced, EndFails, conns, script
<1>22. ASSUME NEW r \in Runs, StmtReduced(r), StmtPassed(r)
      PROVE  BegunInv'
  BY <1>22 DEF StmtReduced, StmtPassed, conns
<1>23. ASSUME NEW r \in Runs, StmtReduced(r), StmtNoted(r)
      PROVE  BegunInv'
  BY <1>23 DEF StmtReduced, StmtNoted, conns
<1>24. ASSUME NEW r \in Runs, finishQuery(r)
      PROVE  BegunInv'
  BY <1>24 DEF finishQuery, conns, txn
<1> QED
  BY <1>1, <1>2, <1>3, <1>4, <1>5, <1>6, <1>7, <1>8, <1>9, <1>10, <1>11, <1>12, <1>13, <1>14, <1>15,
     <1>16, <1>17, <1>18, <1>19, <1>20, <1>21, <1>22, <1>23, <1>24
     DEF Shapes, BegunReduced, EndReduced, StmtReduced

\* An end in flight is the only one of its handle.
LEMMA EndsKept ==
  ASSUME SessionInv, Shapes
  PROVE  EndsInv'
<1> USE ConstantsAssumption DEF SessionInv, TxInv, TypeOK, NoTx, BegunInv, LiveInv, RunInv, EndsInv,
   EndedInv, Alive, TxStates
<1>1. CASE Asked
  BY <1>1 DEF Asked, Typed, txn, script
<1>2. ASSUME NEW d \in Sessions \cup {None}, Replaced(d)
      PROVE  EndsInv'
  <2>1. /\ tx' = NoTx /\ NoTx.handle = None /\ run'.id = run.id
        /\ tx.handle # None => live # None /\ handle[tx.handle].driver = live
        /\ UNCHANGED <<begins, begun, ends, ended, handle, worker, over>>
    BY <1>2 DEF Replaced, resetBrowse
  <2>2. /\ live # None => phase'[live] = "closing"
        /\ \A s \in Sessions : phase[s] # "unused" /\ s # live => phase'[s] = phase[s]
    BY <1>2 DEF Replaced, Leave
  <2>3. SUFFICES ASSUME NEW e \in ends, e.kind # "stale"
                 PROVE  \/ phase'[handle[e.handle].driver] = "closing"
                        \/ handle[e.handle].state = "done"
    BY <2>1
  <2>4. CASE e.handle = tx.handle
    BY <2>1, <2>2, <2>4
  <2>5. CASE phase[handle[e.handle].driver] = "closing"
    <3>1. handle[e.handle].driver # live /\ handle[e.handle].driver \in Sessions
      BY <2>1, <2>2, <2>3, <2>5
    <3> QED
      BY <2>2, <2>5, <3>1
  <2> QED
    BY <2>3, <2>4, <2>5
<1>3. CASE QuitNow
  BY <1>3 DEF QuitNow, quit, script
<1>4. ASSUME NEW kind \in {"commit", "rollback"}, EndStarts(kind)
      PROVE  EndsInv'
  BY <1>4 DEF EndStarts, End, conns, script
<1>5. ASSUME NEW n \in 1..MaxStmts, RunStarts(n)
      PROVE  EndsInv'
  BY <1>5 DEF RunStarts, startQuery, NoWorker, conns, txn
<1>6. CASE beginTx
  BY <1>6 DEF beginTx, Ready, conns, script
<1>7. CASE cancelQuery
  BY <1>7 DEF cancelQuery, conns, txn
<1>8. ASSUME NEW d \in Sessions, CloseReads(d)
      PROVE  EndsInv'
  BY <1>8 DEF CloseReads, Executing, script
<1>9. ASSUME NEW d \in Sessions, CloseEnds(d)
      PROVE  EndsInv'
  BY <1>9 DEF CloseEnds, txn, script
<1>10. ASSUME NEW d \in Sessions, NEW h \in Txs, BeginServed(d, h)
      PROVE  EndsInv'
  BY <1>10 DEF BeginServed, conns, script
<1>11. ASSUME NEW e \in ends, EndServed(e)
      PROVE  EndsInv'
  BY <1>11 DEF EndServed, Executing, Reply, conns, script
<1>12. ASSUME NEW r \in Runs, WorkerChecks(r)
      PROVE  EndsInv'
  BY <1>12 DEF WorkerChecks, conns, txn
<1>13. ASSUME NEW r \in Runs, WorkerExecutes(r)
      PROVE  EndsInv'
  BY <1>13 DEF WorkerExecutes, StmtEnds, conns
<1>14. ASSUME NEW r \in Runs, WorkerSends(r)
      PROVE  EndsInv'
  BY <1>14 DEF WorkerSends, conns, txn
<1>15. ASSUME NEW r \in Runs, WorkerFinishes(r)
      PROVE  EndsInv'
  BY <1>15 DEF WorkerFinishes, conns, txn
<1>16. ASSUME NEW msg \in begun, BegunReduced(msg), BegunStale(msg)
      PROVE  EndsInv'
  BY <1>16 DEF BegunReduced, BegunStale, End, conns, script
<1>17. ASSUME NEW msg \in begun, BegunReduced(msg), BegunFailed(msg)
      PROVE  EndsInv'
  BY <1>17 DEF BegunReduced, BegunFailed, conns, script
<1>18. ASSUME NEW msg \in begun, BegunReduced(msg), BegunTaken(msg)
      PROVE  EndsInv'
  BY <1>18 DEF BegunReduced, BegunTaken, conns, script
<1>19. ASSUME NEW msg \in ended, EndReduced(msg), EndIgnored(msg)
      PROVE  EndsInv'
  BY <1>19 DEF EndReduced, EndIgnored, conns, script
<1>20. ASSUME NEW msg \in ended, EndReduced(msg), EndOver(msg)
      PROVE  EndsInv'
  BY <1>20 DEF EndReduced, EndOver, conns, script
<1>21. ASSUME NEW msg \in ended, EndReduced(msg), EndFails(msg)
      PROVE  EndsInv'
  BY <1>21 DEF EndReduced, EndFails, conns, script
<1>22. ASSUME NEW r \in Runs, StmtReduced(r), StmtPassed(r)
      PROVE  EndsInv'
  BY <1>22 DEF StmtReduced, StmtPassed, conns
<1>23. ASSUME NEW r \in Runs, StmtReduced(r), StmtNoted(r)
      PROVE  EndsInv'
  BY <1>23 DEF StmtReduced, StmtNoted, conns
<1>24. ASSUME NEW r \in Runs, finishQuery(r)
      PROVE  EndsInv'
  BY <1>24 DEF finishQuery, conns, txn
<1> QED
  BY <1>1, <1>2, <1>3, <1>4, <1>5, <1>6, <1>7, <1>8, <1>9, <1>10, <1>11, <1>12, <1>13, <1>14, <1>15,
     <1>16, <1>17, <1>18, <1>19, <1>20, <1>21, <1>22, <1>23, <1>24
     DEF Shapes, BegunReduced, EndReduced, StmtReduced

\* A reply is true until it is reduced.
LEMMA EndedKept ==
  ASSUME SessionInv, Shapes
  PROVE  EndedInv'
<1> USE ConstantsAssumption DEF SessionInv, TxInv, TypeOK, NoTx, BegunInv, LiveInv, RunInv, EndsInv,
   EndedInv, Alive, TxStates
<1>1. CASE Asked
  BY <1>1 DEF Asked, Typed, txn, script
<1>2. ASSUME NEW d \in Sessions \cup {None}, Replaced(d)
      PROVE  EndedInv'
  BY <1>2 DEF Replaced, resetBrowse, Leave
<1>3. CASE QuitNow
  BY <1>3 DEF QuitNow, quit, script
<1>4. ASSUME NEW kind \in {"commit", "rollback"}, EndStarts(kind)
      PROVE  EndedInv'
  BY <1>4 DEF EndStarts, End, conns, script
<1>5. ASSUME NEW n \in 1..MaxStmts, RunStarts(n)
      PROVE  EndedInv'
  BY <1>5 DEF RunStarts, startQuery, NoWorker, conns, txn
<1>6. CASE beginTx
  BY <1>6 DEF beginTx, Ready, conns, script
<1>7. CASE cancelQuery
  BY <1>7 DEF cancelQuery, conns, txn
<1>8. ASSUME NEW d \in Sessions, CloseReads(d)
      PROVE  EndedInv'
  BY <1>8 DEF CloseReads, Executing, script
<1>9. ASSUME NEW d \in Sessions, CloseEnds(d)
      PROVE  EndedInv'
  BY <1>9 DEF CloseEnds, txn, script
<1>10. ASSUME NEW d \in Sessions, NEW h \in Txs, BeginServed(d, h)
      PROVE  EndedInv'
  BY <1>10 DEF BeginServed, conns, script
<1>11. ASSUME NEW e \in ends, EndServed(e)
      PROVE  EndedInv'
  <2>1. PICK s \in TxStates :
          /\ handle' = [handle EXCEPT ![e.handle].state = s]
          /\ ended' = ended \cup {[handle |-> e.handle, kind |-> e.kind, ok |-> s = "done", state |-> s]}
          /\ e.kind # "commit" \/ handle[e.handle].state = "done" => s = "done"
    BY ONLY <1>11, TypeOK, EndOutcome
  <2>2. /\ e.handle \in Txs /\ handle'[e.handle].state = s
        /\ \A h \in Txs : h # e.handle => handle'[h] = handle[h]
    BY <2>1
  <2>3. ends' = ends \ {e} /\ UNCHANGED <<tx, worker>>
    BY <1>11 DEF EndServed, script
  <2>4. ASSUME NEW m \in ended
        PROVE  /\ handle'[m.handle].state # "unused"
               /\ m.kind # "stale" =>
                    /\ m.handle = tx.handle => tx.busy # "none" /\ m.state = handle'[m.handle].state
                    /\ m.kind # "commit" \/ m.ok => handle'[m.handle].state = "done"
                    /\ e.kind # "stale" => m.handle # e.handle
                    /\ \A f \in ends' : f.kind # "stale" => f.handle # m.handle
                    /\ \A r \in Runs : worker[r].tx = m.handle => ~Alive(r)
    <3>1. CASE m.handle # e.handle
      BY <2>2, <2>3, <3>1
    <3>2. CASE m.handle = e.handle
      BY <2>1, <2>2, <2>3, <3>2
    <3> QED
      BY <3>1, <3>2
  <2>5. e.kind # "stale" =>
             /\ e.handle = tx.handle => tx.busy # "none"
             /\ e.kind # "commit" => s = "done"
             /\ \A f \in ends' : f.kind # "stale" => f.handle # e.handle
             /\ \A r \in Runs : worker[r].tx = e.handle => ~Alive(r)
    BY <2>1, <2>3
  <2>6. \A n, m \in ended : m.kind # "stale" /\ n.kind # "stale" /\ n.handle = m.handle => n = m
    OBVIOUS
  <2>7. \A r \in Runs : Alive(r)' <=> Alive(r)
    BY <2>3
  <2>8. s # "unused"
    OBVIOUS
  <2> DEFINE reply == [handle |-> e.handle, kind |-> e.kind, ok |-> s = "done", state |-> s]
  <2>9. /\ reply.handle = e.handle /\ reply.kind = e.kind /\ (reply.ok <=> s = "done") /\ reply.state = s
        /\ \A m \in ended' : m \in ended \/ m = reply
    BY <2>1
  <2> HIDE DEF reply
  <2>10. SUFFICES ASSUME NEW m \in ended'
                  PROVE  /\ handle'[m.handle].state # "unused"
                         /\ m.kind # "stale" =>
                             /\ m.handle = tx.handle => tx.busy # "none" /\ m.state = handle'[m.handle].state
                             /\ m.kind # "commit" \/ m.ok => handle'[m.handle].state = "done"
                             /\ \A n \in ended' : n.kind # "stale" /\ n.handle = m.handle => n = m
                             /\ \A f \in ends' : f.kind # "stale" => f.handle # m.handle
                             /\ \A r \in Runs : worker[r].tx = m.handle => ~Alive(r)
    BY <2>3
  <2>11. CASE m \in ended
    BY ONLY <2>4, <2>6, <2>9, <2>11
  <2>12. CASE m = reply
    BY ONLY <2>2, <2>4, <2>5, <2>8, <2>9, <2>12
  <2> QED
    BY <2>9, <2>11, <2>12
<1>12. ASSUME NEW r \in Runs, WorkerChecks(r)
      PROVE  EndedInv'
  BY <1>12 DEF WorkerChecks, conns, txn
<1>13. ASSUME NEW r \in Runs, WorkerExecutes(r)
      PROVE  EndedInv'
  BY <1>13 DEF WorkerExecutes, StmtEnds, conns
<1>14. ASSUME NEW r \in Runs, WorkerSends(r)
      PROVE  EndedInv'
  BY <1>14 DEF WorkerSends, conns, txn
<1>15. ASSUME NEW r \in Runs, WorkerFinishes(r)
      PROVE  EndedInv'
  BY <1>15 DEF WorkerFinishes, conns, txn
<1>16. ASSUME NEW msg \in begun, BegunReduced(msg), BegunStale(msg)
      PROVE  EndedInv'
  BY <1>16 DEF BegunReduced, BegunStale, End, conns, script
<1>17. ASSUME NEW msg \in begun, BegunReduced(msg), BegunFailed(msg)
      PROVE  EndedInv'
  BY <1>17 DEF BegunReduced, BegunFailed, conns, script
<1>18. ASSUME NEW msg \in begun, BegunReduced(msg), BegunTaken(msg)
      PROVE  EndedInv'
  BY <1>18 DEF BegunReduced, BegunTaken, conns, script
<1>19. ASSUME NEW msg \in ended, EndReduced(msg), EndIgnored(msg)
      PROVE  EndedInv'
  BY <1>19 DEF EndReduced, EndIgnored, conns, script
<1>20. ASSUME NEW msg \in ended, EndReduced(msg), EndOver(msg)
      PROVE  EndedInv'
  BY <1>20 DEF EndReduced, EndOver, conns, script
<1>21. ASSUME NEW msg \in ended, EndReduced(msg), EndFails(msg)
      PROVE  EndedInv'
  BY <1>21 DEF EndReduced, EndFails, conns, script
<1>22. ASSUME NEW r \in Runs, StmtReduced(r), StmtPassed(r)
      PROVE  EndedInv'
  BY <1>22 DEF StmtReduced, StmtPassed, conns
<1>23. ASSUME NEW r \in Runs, StmtReduced(r), StmtNoted(r)
      PROVE  EndedInv'
  BY <1>23 DEF StmtReduced, StmtNoted, conns
<1>24. ASSUME NEW r \in Runs, finishQuery(r)
      PROVE  EndedInv'
  BY <1>24 DEF finishQuery, conns, txn
<1> QED
  BY <1>1, <1>2, <1>3, <1>4, <1>5, <1>6, <1>7, <1>8, <1>9, <1>10, <1>11, <1>12, <1>13, <1>14, <1>15,
     <1>16, <1>17, <1>18, <1>19, <1>20, <1>21, <1>22, <1>23, <1>24
     DEF Shapes, BegunReduced, EndReduced, StmtReduced

\* The newest report of a script is the state of its handle.
LEMMA ScriptKept ==
  ASSUME SessionInv, Shapes
  PROVE  ScriptInv'
<1> USE ConstantsAssumption DEF SessionInv, TxInv, TypeOK, NoTx, BegunInv, LiveInv, RunInv, EndsInv,
   EndedInv, SeenInv, ScriptInv, MirrorTruth, Alive, TxStates
<1>1. CASE Asked
  BY <1>1 DEF Asked, Typed, txn, script
<1>2. ASSUME NEW d \in Sessions \cup {None}, Replaced(d)
      PROVE  ScriptInv'
  BY <1>2 DEF Replaced, resetBrowse, Leave
<1>3. CASE QuitNow
  BY <1>3 DEF QuitNow, quit, script
<1>4. ASSUME NEW kind \in {"commit", "rollback"}, EndStarts(kind)
      PROVE  ScriptInv'
  BY <1>4 DEF EndStarts, End, conns, script
<1>5. ASSUME NEW n \in 1..MaxStmts, RunStarts(n)
      PROVE  ScriptInv'
  BY <1>5 DEF RunStarts, startQuery, NoWorker, conns, txn
<1>6. CASE beginTx
  BY <1>6 DEF beginTx, Ready, conns, script
<1>7. CASE cancelQuery
  BY <1>7 DEF cancelQuery, conns, txn
<1>8. ASSUME NEW d \in Sessions, CloseReads(d)
      PROVE  ScriptInv'
  BY <1>8 DEF CloseReads, Executing, script
<1>9. ASSUME NEW d \in Sessions, CloseEnds(d)
      PROVE  ScriptInv'
  BY <1>9 DEF CloseEnds, txn, script
<1>10. ASSUME NEW d \in Sessions, NEW h \in Txs, BeginServed(d, h)
      PROVE  ScriptInv'
  BY <1>10 DEF BeginServed, conns, script
<1>11. ASSUME NEW e \in ends, EndServed(e)
      PROVE  ScriptInv'
  BY <1>11 DEF EndServed, Executing, Reply, conns, script
<1>12. ASSUME NEW r \in Runs, WorkerChecks(r)
      PROVE  ScriptInv'
  BY <1>12 DEF WorkerChecks, conns, txn
<1>13. ASSUME NEW r \in Runs, WorkerExecutes(r)
      PROVE  ScriptInv'
  BY <1>13 DEF WorkerExecutes, StmtEnds, conns
<1>14. ASSUME NEW r \in Runs, WorkerSends(r)
      PROVE  ScriptInv'
  BY <1>14 DEF WorkerSends, conns, txn
<1>15. ASSUME NEW r \in Runs, WorkerFinishes(r)
      PROVE  ScriptInv'
  BY <1>15 DEF WorkerFinishes, conns, txn
<1>16. ASSUME NEW msg \in begun, BegunReduced(msg), BegunStale(msg)
      PROVE  ScriptInv'
  BY <1>16 DEF BegunReduced, BegunStale, End, conns, script
<1>17. ASSUME NEW msg \in begun, BegunReduced(msg), BegunFailed(msg)
      PROVE  ScriptInv'
  BY <1>17 DEF BegunReduced, BegunFailed, conns, script
<1>18. ASSUME NEW msg \in begun, BegunReduced(msg), BegunTaken(msg)
      PROVE  ScriptInv'
  BY <1>18 DEF BegunReduced, BegunTaken, conns, script
<1>19. ASSUME NEW msg \in ended, EndReduced(msg), EndIgnored(msg)
      PROVE  ScriptInv'
  BY <1>19 DEF EndReduced, EndIgnored, conns, script
<1>20. ASSUME NEW msg \in ended, EndReduced(msg), EndOver(msg)
      PROVE  ScriptInv'
  BY <1>20 DEF EndReduced, EndOver, conns, script
<1>21. ASSUME NEW msg \in ended, EndReduced(msg), EndFails(msg)
      PROVE  ScriptInv'
  BY <1>21 DEF EndReduced, EndFails, conns, script
<1>22. ASSUME NEW r \in Runs, StmtReduced(r), StmtPassed(r)
      PROVE  ScriptInv'
  BY <1>22 DEF StmtReduced, StmtPassed, conns
<1>23. ASSUME NEW r \in Runs, StmtReduced(r), StmtNoted(r)
      PROVE  ScriptInv'
  BY <1>23 DEF StmtReduced, StmtNoted, conns
<1>24. ASSUME NEW r \in Runs, finishQuery(r)
      PROVE  ScriptInv'
  BY <1>24 DEF finishQuery, conns, txn
<1> QED
  BY <1>1, <1>2, <1>3, <1>4, <1>5, <1>6, <1>7, <1>8, <1>9, <1>10, <1>11, <1>12, <1>13, <1>14, <1>15,
     <1>16, <1>17, <1>18, <1>19, <1>20, <1>21, <1>22, <1>23, <1>24
     DEF Shapes, BegunReduced, EndReduced, StmtReduced

\* The mirror is the handle.
LEMMA MirrorKept ==
  ASSUME SessionInv, Shapes
  PROVE  MirrorTruth'
<1> USE ConstantsAssumption DEF SessionInv, TxInv, TypeOK, NoTx, BegunInv, LiveInv, RunInv, EndsInv,
   EndedInv, SeenInv, ScriptInv, MirrorTruth, Alive, TxStates
<1>1. CASE Asked
  BY <1>1 DEF Asked, Typed, txn, script
<1>2. ASSUME NEW d \in Sessions \cup {None}, Replaced(d)
      PROVE  MirrorTruth'
  BY <1>2 DEF Replaced, resetBrowse, Leave
<1>3. CASE QuitNow
  BY <1>3 DEF QuitNow, quit, script
<1>4. ASSUME NEW kind \in {"commit", "rollback"}, EndStarts(kind)
      PROVE  MirrorTruth'
  BY <1>4 DEF EndStarts, End, conns, script
<1>5. ASSUME NEW n \in 1..MaxStmts, RunStarts(n)
      PROVE  MirrorTruth'
  BY <1>5 DEF RunStarts, startQuery, NoWorker, conns, txn
<1>6. CASE beginTx
  BY <1>6 DEF beginTx, Ready, conns, script
<1>7. CASE cancelQuery
  BY <1>7 DEF cancelQuery, conns, txn
<1>8. ASSUME NEW d \in Sessions, CloseReads(d)
      PROVE  MirrorTruth'
  BY <1>8 DEF CloseReads, Executing, script
<1>9. ASSUME NEW d \in Sessions, CloseEnds(d)
      PROVE  MirrorTruth'
  BY <1>9 DEF CloseEnds, txn, script
<1>10. ASSUME NEW d \in Sessions, NEW h \in Txs, BeginServed(d, h)
      PROVE  MirrorTruth'
  BY <1>10 DEF BeginServed, conns, script
<1>11. ASSUME NEW e \in ends, EndServed(e)
      PROVE  MirrorTruth'
  BY <1>11 DEF EndServed, Executing, Reply, conns, script
<1>12. ASSUME NEW r \in Runs, WorkerChecks(r)
      PROVE  MirrorTruth'
  BY <1>12 DEF WorkerChecks, conns, txn
<1>13. ASSUME NEW r \in Runs, WorkerExecutes(r)
      PROVE  MirrorTruth'
  BY <1>13 DEF WorkerExecutes, StmtEnds, conns
<1>14. ASSUME NEW r \in Runs, WorkerSends(r)
      PROVE  MirrorTruth'
  BY <1>14 DEF WorkerSends, conns, txn
<1>15. ASSUME NEW r \in Runs, WorkerFinishes(r)
      PROVE  MirrorTruth'
  BY <1>15 DEF WorkerFinishes, conns, txn
<1>16. ASSUME NEW msg \in begun, BegunReduced(msg), BegunStale(msg)
      PROVE  MirrorTruth'
  BY <1>16 DEF BegunReduced, BegunStale, End, conns, script
<1>17. ASSUME NEW msg \in begun, BegunReduced(msg), BegunFailed(msg)
      PROVE  MirrorTruth'
  BY <1>17 DEF BegunReduced, BegunFailed, conns, script
<1>18. ASSUME NEW msg \in begun, BegunReduced(msg), BegunTaken(msg)
      PROVE  MirrorTruth'
  BY <1>18 DEF BegunReduced, BegunTaken, conns, script
<1>19. ASSUME NEW msg \in ended, EndReduced(msg), EndIgnored(msg)
      PROVE  MirrorTruth'
  BY <1>19 DEF EndReduced, EndIgnored, conns, script
<1>20. ASSUME NEW msg \in ended, EndReduced(msg), EndOver(msg)
      PROVE  MirrorTruth'
  BY <1>20 DEF EndReduced, EndOver, conns, script
<1>21. ASSUME NEW msg \in ended, EndReduced(msg), EndFails(msg)
      PROVE  MirrorTruth'
  BY <1>21 DEF EndReduced, EndFails, conns, script
<1>22. ASSUME NEW r \in Runs, StmtReduced(r), StmtPassed(r)
      PROVE  MirrorTruth'
  BY <1>22 DEF StmtReduced, StmtPassed, conns
<1>23. ASSUME NEW r \in Runs, StmtReduced(r), StmtNoted(r)
      PROVE  MirrorTruth'
  BY <1>23 DEF StmtReduced, StmtNoted, conns
<1>24. ASSUME NEW r \in Runs, finishQuery(r)
      PROVE  MirrorTruth'
  BY <1>24 DEF finishQuery, conns, txn
<1> QED
  BY <1>1, <1>2, <1>3, <1>4, <1>5, <1>6, <1>7, <1>8, <1>9, <1>10, <1>11, <1>12, <1>13, <1>14, <1>15,
     <1>16, <1>17, <1>18, <1>19, <1>20, <1>21, <1>22, <1>23, <1>24
     DEF Shapes, BegunReduced, EndReduced, StmtReduced

\* A transaction open on the server can be reached.
LEMMA OrphanKept ==
  ASSUME SessionInv, Shapes
  PROVE  NoOrphan'
<1> USE ConstantsAssumption DEF SessionInv, TxInv, TypeOK, NoTx, BegunInv, LiveInv, RunInv, EndsInv,
   EndedInv, NoOrphan, TxStates
<1>1. CASE Asked
  BY <1>1 DEF Asked, Typed, txn, script
<1>2. ASSUME NEW d \in Sessions \cup {None}, Replaced(d)
      PROVE  NoOrphan'
  <2>1. /\ tx' = NoTx /\ NoTx.handle = None /\ run'.id = run.id
        /\ tx.handle # None => live # None /\ handle[tx.handle].driver = live
        /\ UNCHANGED <<begins, begun, ends, ended, handle, worker, over>>
    BY <1>2 DEF Replaced, resetBrowse
  <2>2. /\ live # None => phase'[live] = "closing"
        /\ \A s \in Sessions : phase[s] # "unused" /\ s # live => phase'[s] = phase[s]
    BY <1>2 DEF Replaced, Leave
  <2>3. SUFFICES ASSUME NEW h \in Txs, ~over, handle[h].state \in {"active", "aborted"}
                 PROVE  \/ \E msg \in begun : msg.handle = h
                        \/ \E e \in ends : e.handle = h
                        \/ phase'[handle[h].driver] = "closing"
    BY <2>1
  <2>4. CASE tx.handle = h
    BY <2>1, <2>2, <2>4
  <2>5. CASE phase[handle[h].driver] = "closing"
    <3>1. handle[h].driver # live /\ handle[h].driver \in Sessions
      BY <2>1, <2>2, <2>3, <2>5
    <3> QED
      BY <2>2, <2>5, <3>1
  <2> QED
    BY <2>3, <2>4, <2>5
<1>3. CASE QuitNow
  BY <1>3 DEF QuitNow, quit, script
<1>4. ASSUME NEW kind \in {"commit", "rollback"}, EndStarts(kind)
      PROVE  NoOrphan'
  BY <1>4 DEF EndStarts, End, conns, script
<1>5. ASSUME NEW n \in 1..MaxStmts, RunStarts(n)
      PROVE  NoOrphan'
  BY <1>5 DEF RunStarts, startQuery, NoWorker, conns, txn
<1>6. CASE beginTx
  BY <1>6 DEF beginTx, Ready, conns, script
<1>7. CASE cancelQuery
  BY <1>7 DEF cancelQuery, conns, txn
<1>8. ASSUME NEW d \in Sessions, CloseReads(d)
      PROVE  NoOrphan'
  BY <1>8 DEF CloseReads, Executing, script
<1>9. ASSUME NEW d \in Sessions, CloseEnds(d)
      PROVE  NoOrphan'
  BY <1>9 DEF CloseEnds, txn, script
<1>10. ASSUME NEW d \in Sessions, NEW h \in Txs, BeginServed(d, h)
      PROVE  NoOrphan'
  <2>1. ends' = ends /\ tx' = tx /\ phase' = phase /\ over' = over
    BY <1>10 DEF BeginServed, conns
  <2>2. CASE handle' = handle /\ begun \subseteq begun'
    BY <2>1, <2>2
  <2>3. CASE /\ handle[h].state = "unused" /\ handle' = [handle EXCEPT ![h] = [driver |-> d, state |-> "active"]]
             /\ begun' = begun \cup {[driver |-> d, handle |-> h]}
    <3>1. SUFFICES ASSUME NEW g \in Txs, ~over, handle'[g].state \in {"active", "aborted"}
                   PROVE  \/ tx.handle = g
                          \/ \E msg \in begun' : msg.handle = g
                          \/ \E e \in ends : e.handle = g
                          \/ phase[handle'[g].driver] = "closing"
      BY <2>1
    <3>2. CASE g = h
      <4>1. [driver |-> d, handle |-> h] \in begun' /\ [driver |-> d, handle |-> h].handle = h
        BY <2>3
      <4> QED
        BY <3>2, <4>1
    <3>3. CASE g # h
      BY <2>3, <3>1, <3>3
    <3> QED
      BY <3>2, <3>3
  <2> QED
    BY <1>10, <2>2, <2>3 DEF BeginServed
<1>11. ASSUME NEW e \in ends, EndServed(e)
      PROVE  NoOrphan'
  BY <1>11 DEF EndServed, Executing, Reply, conns, script
<1>12. ASSUME NEW r \in Runs, WorkerChecks(r)
      PROVE  NoOrphan'
  BY <1>12 DEF WorkerChecks, conns, txn
<1>13. ASSUME NEW r \in Runs, WorkerExecutes(r)
      PROVE  NoOrphan'
  BY <1>13 DEF WorkerExecutes, StmtEnds, conns
<1>14. ASSUME NEW r \in Runs, WorkerSends(r)
      PROVE  NoOrphan'
  BY <1>14 DEF WorkerSends, conns, txn
<1>15. ASSUME NEW r \in Runs, WorkerFinishes(r)
      PROVE  NoOrphan'
  BY <1>15 DEF WorkerFinishes, conns, txn
<1>16. ASSUME NEW msg \in begun, BegunReduced(msg), BegunStale(msg)
      PROVE  NoOrphan'
  <2>1. /\ UNCHANGED <<tx, handle, phase, over>> /\ begun' = begun \ {msg} /\ ends \subseteq ends'
        /\ msg.handle # None => End(msg.handle, "stale") \in ends' /\ End(msg.handle, "stale").handle = msg.handle
    BY <1>16 DEF BegunReduced, BegunStale, End, conns
  <2>2. \A h \in Txs : (\E m \in begun : m.handle = h) => (\E m \in begun' : m.handle = h) \/ msg.handle = h
    BY <2>1
  <2> QED
    BY <2>1, <2>2
<1>17. ASSUME NEW msg \in begun, BegunReduced(msg), BegunFailed(msg)
      PROVE  NoOrphan'
  BY <1>17 DEF BegunReduced, BegunFailed, conns, script
<1>18. ASSUME NEW msg \in begun, BegunReduced(msg), BegunTaken(msg)
      PROVE  NoOrphan'
  BY <1>18 DEF BegunReduced, BegunTaken, conns, script
<1>19. ASSUME NEW msg \in ended, EndReduced(msg), EndIgnored(msg)
      PROVE  NoOrphan'
  BY <1>19 DEF EndReduced, EndIgnored, conns, script
<1>20. ASSUME NEW msg \in ended, EndReduced(msg), EndOver(msg)
      PROVE  NoOrphan'
  BY <1>20 DEF EndReduced, EndOver, conns, script
<1>21. ASSUME NEW msg \in ended, EndReduced(msg), EndFails(msg)
      PROVE  NoOrphan'
  BY <1>21 DEF EndReduced, EndFails, conns, script
<1>22. ASSUME NEW r \in Runs, StmtReduced(r), StmtPassed(r)
      PROVE  NoOrphan'
  BY <1>22 DEF StmtReduced, StmtPassed, conns
<1>23. ASSUME NEW r \in Runs, StmtReduced(r), StmtNoted(r)
      PROVE  NoOrphan'
  BY <1>23 DEF StmtReduced, StmtNoted, conns
<1>24. ASSUME NEW r \in Runs, finishQuery(r)
      PROVE  NoOrphan'
  BY <1>24 DEF finishQuery, conns, txn
<1> QED
  BY <1>1, <1>2, <1>3, <1>4, <1>5, <1>6, <1>7, <1>8, <1>9, <1>10, <1>11, <1>12, <1>13, <1>14, <1>15,
     <1>16, <1>17, <1>18, <1>19, <1>20, <1>21, <1>22, <1>23, <1>24
     DEF Shapes, BegunReduced, EndReduced, StmtReduced

-----------------------------------------------------------------------------
\* The program starts with nothing open and nothing running.
LEMMA SessionInit == Init => SessionInv
<1> USE ConstantsAssumption
<1> SUFFICES ASSUME Init PROVE SessionInv
  OBVIOUS
<1>1. TypeOK
  <2>1. NoWorker \in WorkerType
    BY DEF NoWorker, WorkerType
  <2>2. worker \in [Runs -> WorkerType]
    BY <2>1 DEF Init
  <2>3. handle \in [Txs -> [driver : Sessions \cup {None}, state : TxStates \cup {"unused"}]]
    BY DEF Init
  <2>4. tx \in [driver : Sessions \cup {None}, handle : Txs \cup {None}, state : TxStates \cup {"none"},
                used : BOOLEAN, busy : {"none", "begin", "commit", "rollback"}]
    BY DEF Init, NoTx
  <2>5. run \in [running : BOOLEAN, id : Runs \cup {0}, cancelled : BOOLEAN]
    BY DEF Init
  <2>6. /\ live \in Sessions \cup {None} /\ dialed \in 0..MaxDials /\ dials \in 0..MaxDials
        /\ phase \in [Sessions -> {"unused", "open", "closing", "drained", "closed"}]
        /\ post \in [Runs -> TxStates \cup {"outside", "none", "over", "unread"}]
    BY DEF Init
  <2> QED
    BY <2>2, <2>3, <2>4, <2>5, <2>6 DEF Init, TypeOK, WorkerType, NoModal
<1>2. \A r \in Runs : ~Alive(r) /\ post[r] = "none" /\ worker[r].tx = None /\ worker[r].at = "none"
  BY DEF Init, Alive, NoWorker
<1>3. \A h \in Txs : handle[h].state = "unused"
  BY DEF Init
<1>4. /\ DialInv /\ RunInv /\ SeenInv /\ LiveInv /\ BegunInv /\ EndsInv /\ EndedInv
      /\ ScriptInv /\ MirrorTruth /\ NoOrphan
  BY <1>2, <1>3 DEF Init, NoTx, NoModal, DialInv, RunInv, SeenInv, LiveInv, BegunInv, EndsInv, EndedInv,
                    ScriptInv, MirrorTruth, NoOrphan
<1> QED
  BY <1>1, <1>4 DEF SessionInv, TxInv

\* Every step keeps the invariant.
LEMMA SessionStep == SessionInv /\ [Next]_vars => SessionInv'
<1> SUFFICES ASSUME SessionInv, [Next]_vars PROVE SessionInv'
  OBVIOUS
<1>1. Shapes
  BY StepShapes
<1> QED
  BY <1>1, TypeKept, DialKept, RunKept, SeenKept, LiveKept, BegunKept, EndsKept, EndedKept, ScriptKept,
     MirrorKept, OrphanKept DEF SessionInv, TxInv

(* The inductive invariant holds of every behaviour of the update loop: the *)
(* mirror, the driver's handle and the messages in flight tell one story    *)
(* (tx.go, query.go, model.go).                                             *)
THEOREM SessionInvariant == Spec => []SessionInv
<1>1. Init => SessionInv
  BY SessionInit
<1>2. SessionInv /\ [Next]_vars => SessionInv'
  BY SessionStep
<1> QED
  BY <1>1, <1>2, PTL DEF Spec

(* What the editor shows of its transaction is what the handle knows, and   *)
(* no transaction stays open on the server unreachable, whatever replies    *)
(* come late and whatever driver took over meanwhile (tx.go                 *)
(* noteTxStatement, applyTxBegun, applyTxCommitted).                        *)
THEOREM TransactionIsTrue == Spec => []TxTruth
<1>1. SessionInv => TxTruth
  BY DEF SessionInv, TxInv, TxTruth
<1> QED
  BY <1>1, SessionInvariant, PTL

\* At most one worker is alive, the one of the run on record.
LEMMA OneAlive == SessionInv => OneWorker
<1> SUFFICES ASSUME SessionInv PROVE OneWorker
  OBVIOUS
<1> DEFINE alive == {r \in Runs : worker[r].at \notin {"none", "gone"}}
<1>1. \A r \in alive : r = run.id
  BY DEF SessionInv, TxInv, RunInv, Alive
<1>2. CASE alive = {}
  BY <1>2, FS_EmptySet DEF OneWorker
<1>3. CASE alive # {}
  <2>1. alive = {run.id}
    BY <1>1, <1>3
  <2>2. Cardinality(alive) = 1
    BY <2>1, FS_Singleton
  <2> QED
    BY <2>2 DEF OneWorker
<1> QED
  BY <1>2, <1>3

(* One script runs at a time, through cancelled runs and replaced           *)
(* connections, and never beside the COMMIT or ROLLBACK of its transaction  *)
(* (query.go queryRun, tx.go txUnavailable).                                *)
THEOREM ScriptsRunAlone == Spec => []RunsAlone
<1>1. SessionInv => RunsAlone
  BY OneAlive DEF SessionInv, TxInv, RunsAlone, EndsInv, EndsAlone, Alive
<1> QED
  BY <1>1, SessionInvariant, PTL
=============================================================================
