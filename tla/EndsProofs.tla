------------------------------ MODULE EndsProofs ------------------------------
(***************************************************************************)
(* Theorems about what a session begins and must end, for any goroutines:  *)
(* InteractiveTx for every set of handles, every choice of engines and     *)
(* every bound on the calls, Tunnel for every set of connections and of    *)
(* goroutines that close it.                                               *)
(***************************************************************************)
EXTENDS InteractiveTx, Tunnel, TLAPS


Srvs == {"none", "open", "aborted", "idle", "gone"}
Fates == {"none", "undecided", "committed", "rolledBack"}
States == {"none", "Active", "Aborted", "Lost", "Closed"}
Calls == AllQueries \cup {"commit", "rollback"}
OpenStates == {"Active", "Aborted", "Lost"}

-----------------------------------------------------------------------------
(* The lock invariant: who is where, and what the two mutexes protect.      *)

Busy == {"sent", "replied", "detach"}   \* inside a handle's mu

\* A goroutine is on a handle exactly while it is inside a call.
OnInv == \A p \in Procs :
  IF pc[p] \in {"beginSent", "lock"} \cup Busy THEN on[p] \in Handles ELSE on[p] = NoTx

OpInv == \A p \in Procs :
  pc[p] \in {"lock"} \cup Busy => op[p] \in Calls /\ state[on[p]] # "none"

\* mu is held by exactly the goroutine that is busy on the handle.
MuInv ==
  /\ \A p \in Procs : pc[p] \in Busy => mu[on[p]] = p
  /\ \A h \in Handles : mu[h] # NoProc => pc[mu[h]] \in Busy /\ on[mu[h]] = h

\* Nobody but the holder of mu closes a handle.
HeldInv == \A p \in Procs :
  /\ pc[p] \in {"sent", "replied"} => state[on[p]] \in OpenStates
  /\ pc[p] = "detach" => state[on[p]] = "Closed"

\* A BEGIN in flight holds txMu on a session without a handle.
BeginInv == \A p \in Procs :
  pc[p] = "beginSent" => txMu = p /\ cur = NoTx /\ state[on[p]] = "none"

\* The session knows the handle that is open.
CurInv ==
  /\ \A h \in Handles : state[h] \in OpenStates => cur = h
  /\ cur \in Handles => state[cur] # "none"

\* The server's side of a handle: undecided exactly while it is in a transaction.
ServerInv == \A h \in Handles :
  /\ (state[h] = "none") <=> (srv[h] = "none")
  /\ (state[h] = "none") <=> (fate[h] = "none")
  /\ (fate[h] = "undecided") <=> (srv[h] \in {"open", "aborted"})

\* A COMMIT or ROLLBACK that answered success left no transaction behind.
ReplyInv == \A p \in Procs :
  pc[p] = "replied" /\ op[p] \in {"commit", "rollback"} /\ reply[p] = "ok"
    => srv[on[p]] \in {"idle", "gone"}

ClosedInv ==
  /\ \A h \in Handles : state[h] = "Closed" => srv[h] \in {"idle", "gone"}
  /\ \A h \in pooled : state[h] = "Closed"
  /\ \A h \in Handles : answer[h] # "none" => state[h] = "Closed"

LockInv ==
  /\ OnInv /\ OpInv /\ MuInv /\ HeldInv /\ BeginInv
  /\ CurInv /\ ServerInv /\ ReplyInv /\ ClosedInv

IndInv == TypeOK /\ LockInv

-----------------------------------------------------------------------------

\* What the server may do keeps the session and the reply within their types.
LEMMA OutcomesType ==
  ASSUME TypeOK, NEW h \in Handles, NEW o, NEW out \in Outcomes(h, o)
  PROVE  /\ out.srv \in Srvs
         /\ out.fate \in Fates
         /\ out.reply \in Replies
<1>1. /\ srv[h] \in Srvs
      /\ fate[h] \in Fates
  BY DEF TypeOK, Srvs, Fates
<1>2. CASE o = "commit"
  <2>1. out \in CommitOutcomes(h)
    BY <1>2 DEF Outcomes
  <2> QED
    BY <1>1, <2>1 DEF CommitOutcomes, CommitErrors, Broken, Open, Ended, Outcome,
       Srvs, Fates, Replies
<1>3. CASE o = "rollback"
  <2>1. out \in RollbackOutcomes(h)
    BY <1>3 DEF Outcomes
  <2> QED
    BY <1>1, <2>1 DEF RollbackOutcomes, Broken, Ended, Outcome, Srvs, Fates, Replies
<1>4. CASE o \notin {"commit", "rollback"}
  <2>1. out \in StmtOutcomes(h, o)
    BY <1>4 DEF Outcomes
  <2> QED
    BY <1>1, <2>1 DEF StmtOutcomes, ErrorOutcomes, UnseenOutcomes, Broken, Open, Aborted,
       Ended, Outcome, Srvs, Fates, Replies
<1> QED
  BY <1>2, <1>3, <1>4

\* The monitors answer with a state of an open handle.
LEMMA AfterType ==
  ASSUME NEW h, NEW r
  PROVE  /\ After(h, r) \in {"Active", "Aborted", "Lost"}
         /\ AfterCommit(h, r) \in {"Active", "Aborted", "Lost"}
  BY DEF After, AfterCommit, PgAfter, MysqlAfter, SqliteAfter, DuckdbAfter, GenericAfter

\* What the server may do to a handle that has begun keeps ServerInv and ReplyInv.
LEMMA OutcomesDecide ==
  ASSUME TypeOK, LockInv, NEW h \in Handles, state[h] # "none", NEW o,
         NEW out \in Outcomes(h, o)
  PROVE  /\ out.srv # "none" /\ out.fate # "none"
         /\ (out.fate = "undecided") <=> (out.srv \in {"open", "aborted"})
         /\ o \in {"commit", "rollback"} /\ out.reply = "ok" => out.srv \in {"idle", "gone"}
         /\ fate[h] # "undecided" => out.fate = fate[h]
<1>1. /\ srv[h] \in Srvs \ {"none"}
      /\ fate[h] \in Fates \ {"none"}
      /\ (fate[h] = "undecided") <=> (srv[h] \in {"open", "aborted"})
  BY DEF TypeOK, LockInv, ServerInv, Srvs, Fates
<1>2. CASE o = "commit"
  <2>1. out \in CommitOutcomes(h)
    BY <1>2 DEF Outcomes
  <2> QED
    BY <1>1, <2>1 DEF CommitOutcomes, CommitErrors, Broken, Open, Ended, Outcome, Srvs, Fates
<1>3. CASE o = "rollback"
  <2>1. out \in RollbackOutcomes(h)
    BY <1>3 DEF Outcomes
  <2> QED
    BY <1>1, <2>1 DEF RollbackOutcomes, Broken, Ended, Outcome, Srvs, Fates
<1>4. CASE o \notin {"commit", "rollback"}
  <2>1. out \in StmtOutcomes(h, o)
    BY <1>4 DEF Outcomes
  <2> QED
    BY <1>1, <1>4, <2>1 DEF StmtOutcomes, ErrorOutcomes, UnseenOutcomes, Broken, Open, Aborted,
       Ended, Outcome, Srvs, Fates
<1> QED
  BY <1>2, <1>3, <1>4

\* The invariant holds before anything was called.
LEMMA InitInd == Init => IndInv
<1> SUFFICES ASSUME Init PROVE IndInv
  OBVIOUS
<1>1. TypeOK
  BY ConstantsAssumption DEF Init, TypeOK, PCs, Replies
<1>2. LockInv
  BY ConstantsAssumption DEF Init, LockInv, OnInv, OpInv, MuInv, HeldInv, BeginInv, CurInv,
     ServerInv, ReplyInv, ClosedInv, Busy, OpenStates
<1> QED
  BY <1>1, <1>2 DEF IndInv

\* Every step keeps the lock invariant, whatever the engine does.
LEMMA IndStep == IndInv /\ [Next]_vars => IndInv'
<1> SUFFICES ASSUME IndInv, [Next]_vars PROVE IndInv'
  OBVIOUS
<1> USE ConstantsAssumption
    DEF IndInv, LockInv, TypeOK, PCs, Replies, session, callers, handle, server
<1>1. ASSUME NEW p \in Procs, BeginCall(p) \/ CloseCall(p)
      PROVE  IndInv'
  <2>1. TypeOK'
    BY <1>1 DEF BeginCall, CloseCall, OnInv, Busy
  <2>2. (OnInv /\ OpInv /\ MuInv /\ HeldInv)'
    BY <1>1 DEF BeginCall, CloseCall, OnInv, OpInv, MuInv, HeldInv, BeginInv, Busy,
       OpenStates
  <2>3. (BeginInv /\ CurInv)'
    BY <1>1 DEF BeginCall, CloseCall, OnInv, HeldInv, BeginInv, CurInv, Busy, OpenStates
  <2>4. (ServerInv /\ ReplyInv /\ ClosedInv)'
    BY <1>1 DEF BeginCall, CloseCall, OnInv, OpInv, MuInv, HeldInv, BeginInv, ServerInv,
       ReplyInv, ClosedInv, Busy, OpenStates
  <2> QED
    BY <2>1, <2>2, <2>3, <2>4
<1>2. ASSUME NEW p \in Procs, BeginRefused(p)
      PROVE  IndInv'
  <2>1. TypeOK'
    BY <1>2 DEF BeginRefused, OnInv, Busy
  <2>2. (OnInv /\ OpInv /\ MuInv /\ HeldInv)'
    BY <1>2 DEF BeginRefused, OnInv, OpInv, MuInv, HeldInv, BeginInv, Busy, OpenStates
  <2>3. (BeginInv /\ CurInv)'
    BY <1>2 DEF BeginRefused, OnInv, HeldInv, BeginInv, CurInv, Busy, OpenStates
  <2>4. (ServerInv /\ ReplyInv /\ ClosedInv)'
    BY <1>2 DEF BeginRefused, OnInv, OpInv, MuInv, HeldInv, BeginInv, ServerInv,
       ReplyInv, ClosedInv, Busy, OpenStates
  <2> QED
    BY <2>1, <2>2, <2>3, <2>4
<1>3. ASSUME NEW p \in Procs, NEW h \in Handles, BeginSend(p, h)
      PROVE  IndInv'
  <2>1. TypeOK'
    BY <1>3 DEF BeginSend, OnInv, Busy
  <2>2. (OnInv /\ OpInv /\ MuInv /\ HeldInv)'
    BY <1>3 DEF BeginSend, OnInv, OpInv, MuInv, HeldInv, BeginInv, Busy, OpenStates
  <2>3. (BeginInv /\ CurInv)'
    BY <1>3 DEF BeginSend, OnInv, HeldInv, BeginInv, CurInv, Busy, OpenStates
  <2>4. (ServerInv /\ ReplyInv /\ ClosedInv)'
    BY <1>3 DEF BeginSend, OnInv, OpInv, MuInv, HeldInv, BeginInv, ServerInv, ReplyInv,
       ClosedInv, Busy, OpenStates
  <2> QED
    BY <2>1, <2>2, <2>3, <2>4
<1>4. ASSUME NEW p \in Procs, BeginDone(p)
      PROVE  IndInv'
  <2>1. TypeOK'
    BY <1>4 DEF BeginDone, OnInv, Busy
  <2>2. (OnInv /\ OpInv /\ MuInv /\ HeldInv)'
    BY <1>4 DEF BeginDone, OnInv, OpInv, MuInv, HeldInv, BeginInv, Busy, OpenStates
  <2>3. (BeginInv /\ CurInv)'
    BY <1>4 DEF BeginDone, OnInv, HeldInv, BeginInv, CurInv, Busy, OpenStates
  <2>4. (ServerInv /\ ReplyInv /\ ClosedInv)'
    BY <1>4 DEF BeginDone, OnInv, OpInv, MuInv, HeldInv, BeginInv, ServerInv, ReplyInv,
       ClosedInv, Busy, OpenStates
  <2> QED
    BY <2>1, <2>2, <2>3, <2>4
<1>5. ASSUME NEW p \in Procs, BeginFailed(p)
      PROVE  IndInv'
  <2>1. TypeOK'
    BY <1>5 DEF BeginFailed, OnInv, Busy
  <2>2. (OnInv /\ OpInv /\ MuInv /\ HeldInv)'
    BY <1>5 DEF BeginFailed, OnInv, OpInv, MuInv, HeldInv, BeginInv, Busy, OpenStates
  <2>3. (BeginInv /\ CurInv)'
    BY <1>5 DEF BeginFailed, OnInv, HeldInv, BeginInv, CurInv, Busy, OpenStates
  <2>4. (ServerInv /\ ReplyInv /\ ClosedInv)'
    BY <1>5 DEF BeginFailed, OnInv, OpInv, MuInv, HeldInv, BeginInv, ServerInv,
       ReplyInv, ClosedInv, Busy, OpenStates
  <2> QED
    BY <2>1, <2>2, <2>3, <2>4
<1>6. ASSUME NEW p \in Procs, NEW h \in Handles, NEW o \in Ops, Call(p, h, o)
      PROVE  IndInv'
  <2>1. TypeOK'
    BY <1>6 DEF Call, Ops, Calls, OnInv, Busy
  <2>2. (OnInv /\ OpInv /\ MuInv /\ HeldInv)'
    BY <1>6 DEF Call, Ops, Calls, OnInv, OpInv, MuInv, HeldInv, BeginInv, Busy,
       OpenStates
  <2>3. (BeginInv /\ CurInv)'
    BY <1>6 DEF Call, Ops, Calls, OnInv, HeldInv, BeginInv, CurInv, Busy, OpenStates
  <2>4. (ServerInv /\ ReplyInv /\ ClosedInv)'
    BY <1>6 DEF Call, Ops, Calls, OnInv, OpInv, MuInv, HeldInv, BeginInv, ServerInv,
       ReplyInv, ClosedInv, Busy, OpenStates
  <2> QED
    BY <2>1, <2>2, <2>3, <2>4
<1>7. ASSUME NEW p \in Procs, Refused(p)
      PROVE  IndInv'
  <2>1. TypeOK'
    BY <1>7 DEF Refused, Return, OnInv, Busy
  <2>2. (OnInv /\ OpInv /\ MuInv /\ HeldInv)'
    BY <1>7 DEF Refused, Return, OnInv, OpInv, MuInv, HeldInv, BeginInv, Busy,
       OpenStates
  <2>3. (BeginInv /\ CurInv)'
    BY <1>7 DEF Refused, Return, OnInv, HeldInv, BeginInv, CurInv, Busy, OpenStates
  <2>4. (ServerInv /\ ReplyInv /\ ClosedInv)'
    BY <1>7 DEF Refused, Return, OnInv, OpInv, MuInv, HeldInv, BeginInv, ServerInv,
       ReplyInv, ClosedInv, Busy, OpenStates
  <2> QED
    BY <2>1, <2>2, <2>3, <2>4
<1>8. ASSUME NEW p \in Procs, Send(p)
      PROVE  IndInv'
  <2>1. TypeOK'
    BY <1>8 DEF Send, Refuses, Calls, OnInv, Busy
  <2>2. (OnInv /\ OpInv /\ MuInv /\ HeldInv)'
    BY <1>8 DEF Send, Refuses, Calls, OnInv, OpInv, MuInv, HeldInv, BeginInv, Busy,
       OpenStates
  <2>3. (BeginInv /\ CurInv)'
    BY <1>8 DEF Send, Refuses, Calls, OnInv, HeldInv, BeginInv, CurInv, Busy, OpenStates
  <2>4. (ServerInv /\ ReplyInv /\ ClosedInv)'
    BY <1>8 DEF Send, Refuses, Calls, OnInv, OpInv, MuInv, HeldInv, BeginInv, ServerInv,
       ReplyInv, ClosedInv, Busy, OpenStates
  <2> QED
    BY <2>1, <2>2, <2>3, <2>4
<1>9. ASSUME NEW p \in Procs, Settle(p)
      PROVE  IndInv'
  <2>1. TypeOK'
    BY <1>9, AfterType DEF Settle, Return, OnInv, Busy
  <2>2. (OnInv /\ OpInv /\ MuInv /\ HeldInv)'
    BY <1>9, AfterType DEF Settle, Return, OnInv, OpInv, MuInv, HeldInv, BeginInv, Busy,
       OpenStates
  <2>3. (BeginInv /\ CurInv)'
    BY <1>9, AfterType DEF Settle, Return, OnInv, HeldInv, BeginInv, CurInv, Busy,
       OpenStates
  <2>4. (ServerInv /\ ReplyInv /\ ClosedInv)'
    BY <1>9, AfterType DEF Settle, Return, OnInv, OpInv, MuInv, HeldInv, BeginInv,
       ServerInv, ReplyInv, ClosedInv, Busy, OpenStates
  <2> QED
    BY <2>1, <2>2, <2>3, <2>4
<1>10. ASSUME NEW p \in Procs, CommitFailed(p)
      PROVE  IndInv'
  <2>1. TypeOK'
    BY <1>10, AfterType DEF CommitFailed, Return, OnInv, Busy
  <2>2. (OnInv /\ OpInv /\ MuInv /\ HeldInv)'
    BY <1>10, AfterType DEF CommitFailed, Return, OnInv, OpInv, MuInv, HeldInv,
       BeginInv, Busy, OpenStates
  <2>3. (BeginInv /\ CurInv)'
    BY <1>10, AfterType DEF CommitFailed, Return, OnInv, HeldInv, BeginInv, CurInv,
       Busy, OpenStates
  <2>4. (ServerInv /\ ReplyInv /\ ClosedInv)'
    BY <1>10, AfterType DEF CommitFailed, Return, OnInv, OpInv, MuInv, HeldInv,
       BeginInv, ServerInv, ReplyInv, ClosedInv, Busy, OpenStates
  <2> QED
    BY <2>1, <2>2, <2>3, <2>4
<1>11. ASSUME NEW p \in Procs, CommitDone(p)
      PROVE  IndInv'
  <2>1. TypeOK'
    BY <1>11 DEF CommitDone, Finish, OnInv, Busy
  <2>2. (OnInv /\ OpInv /\ MuInv /\ HeldInv)'
    BY <1>11 DEF CommitDone, Finish, OnInv, OpInv, MuInv, HeldInv, BeginInv, Busy,
       OpenStates
  <2>3. (BeginInv /\ CurInv)'
    BY <1>11 DEF CommitDone, Finish, OnInv, HeldInv, BeginInv, CurInv, Busy, OpenStates
  <2>4. (ServerInv /\ ReplyInv /\ ClosedInv)'
    BY <1>11 DEF CommitDone, Finish, OnInv, OpInv, MuInv, HeldInv, BeginInv, ServerInv,
       ReplyInv, ClosedInv, Busy, OpenStates
  <2> QED
    BY <2>1, <2>2, <2>3, <2>4
<1>12. ASSUME NEW p \in Procs, RollbackDone(p)
      PROVE  IndInv'
  <2>1. TypeOK'
    BY <1>12 DEF RollbackDone, Finish, OnInv, Busy
  <2>2. (OnInv /\ OpInv /\ MuInv /\ HeldInv)'
    BY <1>12 DEF RollbackDone, Finish, OnInv, OpInv, MuInv, HeldInv, BeginInv, Busy,
       OpenStates
  <2>3. (BeginInv /\ CurInv)'
    BY <1>12 DEF RollbackDone, Finish, OnInv, HeldInv, BeginInv, CurInv, Busy,
       OpenStates
  <2>4. (ServerInv /\ ReplyInv /\ ClosedInv)'
    BY <1>12 DEF RollbackDone, Finish, OnInv, OpInv, MuInv, HeldInv, BeginInv,
       ServerInv, ReplyInv, ClosedInv, Busy, OpenStates
  <2> QED
    BY <2>1, <2>2, <2>3, <2>4
<1>13. ASSUME NEW p \in Procs, Detach(p)
      PROVE  IndInv'
  <2>1. TypeOK'
    BY <1>13 DEF Detach, Return, OnInv, Busy
  <2>2. (OnInv /\ OpInv /\ MuInv /\ HeldInv)'
    BY <1>13 DEF Detach, Return, OnInv, OpInv, MuInv, HeldInv, BeginInv, Busy,
       OpenStates
  <2>3. (BeginInv /\ CurInv)'
    BY <1>13 DEF Detach, Return, OnInv, HeldInv, BeginInv, CurInv, Busy, OpenStates
  <2>4. (ServerInv /\ ReplyInv /\ ClosedInv)'
    BY <1>13 DEF Detach, Return, OnInv, OpInv, MuInv, HeldInv, BeginInv, ServerInv,
       ReplyInv, ClosedInv, Busy, OpenStates
  <2> QED
    BY <2>1, <2>2, <2>3, <2>4
<1>14. ASSUME NEW p \in Procs, CloseRead(p)
      PROVE  IndInv'
  <2>1. TypeOK'
    BY <1>14 DEF CloseRead, Calls, OnInv, Busy
  <2>2. (OnInv /\ OpInv /\ MuInv /\ HeldInv)'
    BY <1>14 DEF CloseRead, Calls, OnInv, OpInv, MuInv, HeldInv, BeginInv, CurInv, Busy,
       OpenStates
  <2>3. (BeginInv /\ CurInv)'
    BY <1>14 DEF CloseRead, Calls, OnInv, HeldInv, BeginInv, CurInv, Busy, OpenStates
  <2>4. (ServerInv /\ ReplyInv /\ ClosedInv)'
    BY <1>14 DEF CloseRead, Calls, OnInv, OpInv, MuInv, HeldInv, BeginInv, ServerInv,
       ReplyInv, ClosedInv, Busy, OpenStates
  <2> QED
    BY <2>1, <2>2, <2>3, <2>4
<1>15. ASSUME NEW p \in Procs, CloseDb(p) \/ CloseNil(p)
      PROVE  IndInv'
  <2>1. TypeOK'
    BY <1>15 DEF CloseDb, CloseNil, OnInv, Busy
  <2>2. (OnInv /\ OpInv /\ MuInv /\ HeldInv)'
    BY <1>15 DEF CloseDb, CloseNil, OnInv, OpInv, MuInv, HeldInv, BeginInv, Busy,
       OpenStates
  <2>3. (BeginInv /\ CurInv)'
    BY <1>15 DEF CloseDb, CloseNil, OnInv, HeldInv, BeginInv, CurInv, Busy, OpenStates
  <2>4. (ServerInv /\ ReplyInv /\ ClosedInv)'
    BY <1>15 DEF CloseDb, CloseNil, OnInv, OpInv, MuInv, HeldInv, BeginInv, ServerInv,
       ReplyInv, ClosedInv, Busy, OpenStates
  <2> QED
    BY <2>1, <2>2, <2>3, <2>4
<1>16. ASSUME NEW p \in Procs, Serve(p)
      PROVE  IndInv'
  <2> DEFINE h == on[p]
  <2>1. h \in Handles /\ state[h] # "none" /\ mu[h] = p /\ state[h] \in OpenStates
    BY <1>16 DEF Serve, OnInv, OpInv, MuInv, HeldInv, Busy
  <2>2. PICK out \in Outcomes(h, op[p]) :
          /\ srv' = [srv EXCEPT ![h] = out.srv]
          /\ fate' = [fate EXCEPT ![h] = out.fate]
          /\ reply' = [reply EXCEPT ![p] = out.reply]
          /\ stray' = IF srv[h] = "idle" /\ out.reply = "ok" /\ op[p] \in AllQueries
                      THEN stray \cup {h} ELSE stray
    BY <1>16 DEF Serve
  <2>3. /\ pc[p] = "sent" /\ pc' = [pc EXCEPT ![p] = "replied"]
        /\ UNCHANGED <<session, calls, on, op, handle, pooled>>
    BY <1>16 DEF Serve
  <2>4. out.srv \in Srvs /\ out.fate \in Fates /\ out.reply \in Replies
    BY <2>1, <2>2, OutcomesType
  <2>5. /\ out.srv # "none" /\ out.fate # "none"
        /\ (out.fate = "undecided") <=> (out.srv \in {"open", "aborted"})
        /\ op[p] \in {"commit", "rollback"} /\ out.reply = "ok" => out.srv \in {"idle", "gone"}
    BY <2>1, <2>2, OutcomesDecide
  <2> HIDE DEF h
  <2>6. TypeOK'
    BY <2>1, <2>2, <2>3, <2>4 DEF Srvs, Fates
  <2>7. (OnInv /\ OpInv /\ MuInv /\ HeldInv /\ BeginInv /\ CurInv)'
    BY <2>1, <2>3 DEF OnInv, OpInv, MuInv, HeldInv, BeginInv, CurInv, Busy
  <2>8. ServerInv'
    BY <2>1, <2>2, <2>3, <2>4, <2>5 DEF ServerInv, Srvs, Fates
  <2>9. ReplyInv'
    <3> SUFFICES ASSUME NEW q \in Procs, pc'[q] = "replied",
                        op[q] \in {"commit", "rollback"}, reply'[q] = "ok"
                 PROVE  srv'[on[q]] \in {"idle", "gone"}
      BY <2>3 DEF ReplyInv
    <3>1. CASE q = p
      BY <2>1, <2>2, <2>5, <3>1 DEF h
    <3>2. CASE q # p
      <4>1. pc[q] = "replied" /\ reply[q] = "ok"
        BY <2>2, <2>3, <3>2
      <4>2. on[q] \in Handles /\ on[q] # h
        BY <2>1, <3>2, <4>1 DEF OnInv, MuInv, Busy
      <4> QED
        BY <2>1, <2>2, <4>1, <4>2 DEF ReplyInv
    <3> QED
      BY <3>1, <3>2
  <2>10. ClosedInv'
    BY <2>1, <2>2, <2>3 DEF ClosedInv, OpenStates
  <2> QED
    BY <2>6, <2>7, <2>8, <2>9, <2>10
<1>17. ASSUME NEW h \in Handles, Drop(h)
      PROVE  IndInv'
  BY <1>17 DEF Drop, OnInv, OpInv, MuInv, HeldInv, BeginInv, CurInv, ServerInv,
     ReplyInv, ClosedInv, Busy, OpenStates
<1>18. CASE UNCHANGED vars
  BY <1>18 DEF vars, OnInv, OpInv, MuInv, HeldInv, BeginInv, CurInv, ServerInv,
     ReplyInv, ClosedInv, Busy, OpenStates
<1> QED
  BY <1>1, <1>2, <1>3, <1>4, <1>5, <1>6, <1>7, <1>8, <1>9, <1>10, <1>11, <1>12, <1>13,
     <1>14, <1>15, <1>16, <1>17, <1>18 DEF Next, Step

\* Every variable keeps its type, and the lock invariant holds, in every
\* behaviour: the reader needs it to know who may touch what.
THEOREM LockInvariant == Spec => []IndInv
<1>1. Init => IndInv
  BY InitInd
<1>2. IndInv /\ [Next]_vars => IndInv'
  BY IndStep
<1> QED
  BY <1>1, <1>2, PTL DEF Spec

\* Type correctness (TypeOK of the runs).
THEOREM TypeCorrect == Spec => []TypeOK
<1>1. IndInv => TypeOK
  BY DEF IndInv
<1> QED
  BY <1>1, LockInvariant, PTL

\* What the server holds for the session is what the session has registered:
\* conn.tx is never overwritten while a transaction is open, and finish never
\* forgets a handle before its transaction has ended.
THEOREM RegisteredTx == Spec => []Reachable
<1>1. IndInv => Reachable
  BY DEF IndInv, LockInv, TypeOK, CurInv, ServerInv, ClosedInv, Reachable, OpenStates
<1> QED
  BY <1>1, LockInvariant, PTL

\* No connection goes back to the pool with a transaction on it, even when
\* ROLLBACK fails or the engine has ended the transaction unseen.
THEOREM CleanPool == Spec => []PooledClean
<1>1. IndInv => PooledClean
  BY DEF IndInv, LockInv, TypeOK, ClosedInv, PooledClean
<1> QED
  BY <1>1, LockInvariant, PTL

-----------------------------------------------------------------------------
(* The truth invariant: what a handle believes against what the server did. *)
(* It holds for every engine but MySQL whatever the engine hides, and for   *)
(* MySQL when no statement ends the transaction unseen.                     *)

Trusted == "mysql" \in Engines => Phenomena = {}

\* What a state claims about the server, up to a connection lost since.
Sound(h, s) ==
  /\ s = "Active" => srv[h] = "open" \/ (srv[h] = "gone" /\ fate[h] = "rolledBack")
  /\ s = "Aborted" => srv[h] = "aborted" \/ (srv[h] = "gone" /\ fate[h] = "rolledBack")

\* Until the server has run something, the state is sound.
RestInv == \A h \in Handles :
  mu[h] = NoProc \/ pc[mu[h]] = "sent" => Sound(h, state[h])

\* Only what the state admits is at the server.
AdmitInv == \A p \in Procs : pc[p] = "sent" =>
  /\ op[p] = "commit" => state[on[p]] = "Active"
  /\ op[p] \in AllQueries => state[on[p]] \in {"Active", "Aborted"}

\* The monitor's verdict on a reply is sound.
VerdictInv == \A p \in Procs : pc[p] = "replied" =>
  /\ op[p] \in AllQueries => Sound(on[p], After(on[p], reply[p]))
  /\ op[p] = "commit" /\ reply[p] = "ok" => fate[on[p]] = "committed"
  /\ op[p] = "commit" /\ reply[p] # "ok" => Sound(on[p], AfterCommit(on[p], reply[p]))

\* Only these engines abort a transaction without ending it.
AbortInv == \A h \in Handles : srv[h] = "aborted" => engine \in {"postgres", "duckdb"}

TruthInv == RestInv /\ AdmitInv /\ VerdictInv /\ AbortInv /\ CommitTruth /\ NoStray

FullInv == IndInv /\ TruthInv

\* The reply of a statement or a COMMIT sent in a sound state gets a sound verdict.
LEMMA VerdictSound ==
  ASSUME Trusted, IndInv, AbortInv, NEW h \in Handles, NEW o \in Calls,
         o \in AllQueries => state[h] \in {"Active", "Aborted"},
         o = "commit" => state[h] = "Active",
         Sound(h, state[h]),
         NEW out \in Outcomes(h, o), engine' = engine,
         srv'[h] = out.srv, fate'[h] = out.fate
  PROVE  /\ o \in AllQueries => Sound(h, After(h, out.reply))'
         /\ o = "commit" /\ out.reply = "ok" => out.fate = "committed"
         /\ o = "commit" /\ out.reply # "ok" => Sound(h, AfterCommit(h, out.reply))'
         /\ out.srv = "aborted" => engine \in {"postgres", "duckdb"}
         /\ o \in AllQueries => srv[h] # "idle"
<1>1. engine \in Engines /\ engine \in AllEngines
  BY ConstantsAssumption DEF IndInv, TypeOK
<1>2. /\ srv[h] \in Srvs /\ fate[h] \in Fates
      /\ (fate[h] = "undecided") <=> (srv[h] \in {"open", "aborted"})
      /\ srv[h] = "aborted" => engine \in {"postgres", "duckdb"}
  BY DEF IndInv, LockInv, TypeOK, ServerInv, AbortInv, Srvs, Fates
<1>3. CASE o = "commit"
  <2>1. out \in CommitOutcomes(h)
    BY <1>3 DEF Outcomes
  <2>2. srv[h] = "open" \/ (srv[h] = "gone" /\ fate[h] = "rolledBack")
    BY <1>3 DEF Sound
  <2> QED
    BY <1>1, <1>2, <1>3, <2>1, <2>2 DEF CommitOutcomes, CommitErrors, Broken, Open, Ended,
       Outcome, AllEngines, AllQueries, Networked, Sound, AfterCommit, After, PgAfter,
       SqliteAfter, GenericAfter
<1>4. CASE o \in AllQueries
  <2>1. out \in StmtOutcomes(h, o)
    BY <1>4 DEF Outcomes, AllQueries
  <2>2. srv[h] \in {"open", "aborted", "gone"}
    BY <1>4 DEF Sound
  <2>3. CASE srv[h] = "open"
    <3>1. \/ out \in {Open("ok")} \cup ErrorOutcomes \cup Broken(h)
          \/ engine = "postgres" /\ out = Aborted("ok")
      BY <1>1, <2>1, <2>3 DEF StmtOutcomes, UnseenOutcomes, Trusted
    <3> QED
      BY <1>1, <1>2, <1>4, <2>3, <3>1 DEF ErrorOutcomes, Broken, Open, Aborted, Ended, Outcome,
         AllEngines, AllQueries, Networked, Sound, After, PgAfter, MysqlAfter, SqliteAfter,
         DuckdbAfter, GenericAfter
  <2>4. CASE srv[h] = "aborted"
    BY <1>1, <1>2, <1>4, <2>1, <2>4 DEF StmtOutcomes, Broken, Open, Aborted, Outcome,
       AllEngines, AllQueries, Networked, Sound, After, PgAfter, DuckdbAfter
  <2>5. CASE srv[h] = "gone"
    BY <1>1, <1>2, <1>4, <2>1, <2>5 DEF StmtOutcomes, Outcome,
       AllEngines, AllQueries, Sound, After, PgAfter, MysqlAfter, SqliteAfter,
       DuckdbAfter, GenericAfter
  <2> QED
    BY <2>2, <2>3, <2>4, <2>5
<1>5. CASE o = "rollback"
  <2>1. out \in RollbackOutcomes(h)
    BY <1>5 DEF Outcomes
  <2> QED
    BY <1>1, <1>2, <1>5, <2>1 DEF RollbackOutcomes, Broken, Ended, Outcome, AllQueries
<1> QED
  BY <1>3, <1>4, <1>5 DEF Calls

\* What the labels say is true before anything was said.
LEMMA TruthInit == Init => TruthInv
  BY DEF Init, TruthInv, RestInv, AdmitInv, VerdictInv, AbortInv, CommitTruth, NoStray, Sound

\* Every step keeps the truth invariant.
LEMMA TruthStep ==
  ASSUME Trusted, FullInv, [Next]_vars
  PROVE  TruthInv'
<1> USE ConstantsAssumption
    DEF FullInv, TruthInv, IndInv, LockInv, TypeOK, session, callers, handle, server
<1>1. ASSUME NEW p \in Procs, BeginCall(p) \/ CloseCall(p)
      PROVE  TruthInv'
  <2>1. (RestInv /\ AdmitInv)'
    BY <1>1, AfterType DEF BeginCall, CloseCall, RestInv, AdmitInv, VerdictInv, OnInv,
       OpInv, MuInv, HeldInv, BeginInv, ServerInv, ClosedInv, Busy, OpenStates, Sound
  <2>2. VerdictInv'
    BY <1>1 DEF BeginCall, CloseCall, VerdictInv, OnInv, MuInv, HeldInv, BeginInv,
       ClosedInv, Busy, OpenStates, Sound, After, AfterCommit, PgAfter, MysqlAfter,
       SqliteAfter, DuckdbAfter, GenericAfter
  <2>3. (AbortInv /\ CommitTruth /\ NoStray)'
    BY <1>1 DEF BeginCall, CloseCall, VerdictInv, AbortInv, CommitTruth, NoStray, OnInv,
       BeginInv, ServerInv, Busy
  <2> QED
    BY <2>1, <2>2, <2>3
<1>2. ASSUME NEW p \in Procs, BeginRefused(p) \/ BeginFailed(p)
      PROVE  TruthInv'
  <2>1. (RestInv /\ AdmitInv)'
    BY <1>2, AfterType DEF BeginRefused, BeginFailed, RestInv, AdmitInv, VerdictInv,
       OnInv, OpInv, MuInv, HeldInv, BeginInv, ServerInv, ClosedInv, Busy, OpenStates,
       Sound
  <2>2. VerdictInv'
    BY <1>2 DEF BeginRefused, BeginFailed, VerdictInv, OnInv, MuInv, HeldInv, BeginInv,
       ClosedInv, Busy, OpenStates, Sound, After, AfterCommit, PgAfter, MysqlAfter,
       SqliteAfter, DuckdbAfter, GenericAfter
  <2>3. (AbortInv /\ CommitTruth /\ NoStray)'
    BY <1>2 DEF BeginRefused, BeginFailed, VerdictInv, AbortInv, CommitTruth, NoStray,
       OnInv, BeginInv, ServerInv, Busy
  <2> QED
    BY <2>1, <2>2, <2>3
<1>3. ASSUME NEW p \in Procs, NEW h \in Handles, BeginSend(p, h)
      PROVE  TruthInv'
  <2>1. (RestInv /\ AdmitInv)'
    BY <1>3, AfterType DEF BeginSend, RestInv, AdmitInv, VerdictInv, OnInv, OpInv,
       MuInv, HeldInv, BeginInv, ServerInv, ClosedInv, Busy, OpenStates, Sound
  <2>2. VerdictInv'
    BY <1>3 DEF BeginSend, VerdictInv, OnInv, MuInv, HeldInv, BeginInv, ClosedInv, Busy,
       OpenStates, Sound, After, AfterCommit, PgAfter, MysqlAfter, SqliteAfter,
       DuckdbAfter, GenericAfter
  <2>3. (AbortInv /\ CommitTruth /\ NoStray)'
    BY <1>3 DEF BeginSend, VerdictInv, AbortInv, CommitTruth, NoStray, OnInv, BeginInv,
       ServerInv, Busy
  <2> QED
    BY <2>1, <2>2, <2>3
<1>4. ASSUME NEW p \in Procs, BeginDone(p)
      PROVE  TruthInv'
  <2>1. (RestInv /\ AdmitInv)'
    BY <1>4, AfterType DEF BeginDone, RestInv, AdmitInv, VerdictInv, OnInv, OpInv,
       MuInv, HeldInv, BeginInv, ServerInv, ClosedInv, Busy, OpenStates, Sound
  <2>2. VerdictInv'
    BY <1>4 DEF BeginDone, VerdictInv, OnInv, MuInv, HeldInv, BeginInv, ClosedInv, Busy,
       OpenStates, Sound, After, AfterCommit, PgAfter, MysqlAfter, SqliteAfter,
       DuckdbAfter, GenericAfter
  <2>3. (AbortInv /\ CommitTruth /\ NoStray)'
    BY <1>4 DEF BeginDone, VerdictInv, AbortInv, CommitTruth, NoStray, OnInv, BeginInv,
       ServerInv, Busy
  <2> QED
    BY <2>1, <2>2, <2>3
<1>5. ASSUME NEW p \in Procs, NEW h \in Handles, NEW o \in Ops, Call(p, h, o)
      PROVE  TruthInv'
  <2>1. (RestInv /\ AdmitInv)'
    BY <1>5, AfterType DEF Call, RestInv, AdmitInv, VerdictInv, OnInv, OpInv, MuInv,
       HeldInv, BeginInv, ServerInv, ClosedInv, Busy, OpenStates, Sound
  <2>2. VerdictInv'
    BY <1>5 DEF Call, VerdictInv, OnInv, MuInv, HeldInv, BeginInv, ClosedInv, Busy,
       OpenStates, Sound, After, AfterCommit, PgAfter, MysqlAfter, SqliteAfter,
       DuckdbAfter, GenericAfter
  <2>3. (AbortInv /\ CommitTruth /\ NoStray)'
    BY <1>5 DEF Call, VerdictInv, AbortInv, CommitTruth, NoStray, OnInv, BeginInv,
       ServerInv, Busy
  <2> QED
    BY <2>1, <2>2, <2>3
<1>6. ASSUME NEW p \in Procs, Refused(p)
      PROVE  TruthInv'
  <2>1. (RestInv /\ AdmitInv)'
    BY <1>6, AfterType DEF Refused, Return, RestInv, AdmitInv, VerdictInv, OnInv, OpInv,
       MuInv, HeldInv, BeginInv, ServerInv, ClosedInv, Busy, OpenStates, Sound
  <2>2. VerdictInv'
    BY <1>6 DEF Refused, Return, VerdictInv, OnInv, MuInv, HeldInv, BeginInv, ClosedInv,
       Busy, OpenStates, Sound, After, AfterCommit, PgAfter, MysqlAfter, SqliteAfter,
       DuckdbAfter, GenericAfter
  <2>3. (AbortInv /\ CommitTruth /\ NoStray)'
    BY <1>6 DEF Refused, Return, VerdictInv, AbortInv, CommitTruth, NoStray, OnInv,
       BeginInv, ServerInv, Busy
  <2> QED
    BY <2>1, <2>2, <2>3
<1>7. ASSUME NEW p \in Procs, Send(p)
      PROVE  TruthInv'
  <2>1. (RestInv /\ AdmitInv)'
    BY <1>7, AfterType DEF Send, Refuses, Calls, AllQueries, RestInv, AdmitInv,
       VerdictInv, OnInv, OpInv, MuInv, HeldInv, BeginInv, ServerInv, ClosedInv, Busy,
       OpenStates, Sound
  <2>2. VerdictInv'
    BY <1>7 DEF Send, Refuses, Calls, AllQueries, VerdictInv, OnInv, MuInv, HeldInv,
       BeginInv, ClosedInv, Busy, OpenStates, Sound, After, AfterCommit, PgAfter,
       MysqlAfter, SqliteAfter, DuckdbAfter, GenericAfter
  <2>3. (AbortInv /\ CommitTruth /\ NoStray)'
    BY <1>7 DEF Send, Refuses, Calls, AllQueries, VerdictInv, AbortInv, CommitTruth,
       NoStray, OnInv, BeginInv, ServerInv, Busy
  <2> QED
    BY <2>1, <2>2, <2>3
<1>8. ASSUME NEW p \in Procs, Settle(p)
      PROVE  TruthInv'
  <2>1. (RestInv /\ AdmitInv)'
    BY <1>8, AfterType DEF Settle, Return, AllQueries, RestInv, AdmitInv, VerdictInv,
       OnInv, OpInv, MuInv, HeldInv, BeginInv, ServerInv, ClosedInv, Busy, OpenStates,
       Sound
  <2>2. VerdictInv'
    BY <1>8 DEF Settle, Return, AllQueries, VerdictInv, OnInv, MuInv, HeldInv, BeginInv,
       ClosedInv, Busy, OpenStates, Sound, After, AfterCommit, PgAfter, MysqlAfter,
       SqliteAfter, DuckdbAfter, GenericAfter
  <2>3. (AbortInv /\ CommitTruth /\ NoStray)'
    BY <1>8 DEF Settle, Return, AllQueries, VerdictInv, AbortInv, CommitTruth, NoStray,
       OnInv, BeginInv, ServerInv, Busy
  <2> QED
    BY <2>1, <2>2, <2>3
<1>9. ASSUME NEW p \in Procs, CommitFailed(p)
      PROVE  TruthInv'
  <2>1. (RestInv /\ AdmitInv)'
    BY <1>9, AfterType DEF CommitFailed, Return, AllQueries, RestInv, AdmitInv,
       VerdictInv, OnInv, OpInv, MuInv, HeldInv, BeginInv, ServerInv, ClosedInv, Busy,
       OpenStates, Sound
  <2>2. VerdictInv'
    BY <1>9 DEF CommitFailed, Return, AllQueries, VerdictInv, OnInv, MuInv, HeldInv,
       BeginInv, ClosedInv, Busy, OpenStates, Sound, After, AfterCommit, PgAfter,
       MysqlAfter, SqliteAfter, DuckdbAfter, GenericAfter
  <2>3. (AbortInv /\ CommitTruth /\ NoStray)'
    BY <1>9 DEF CommitFailed, Return, AllQueries, VerdictInv, AbortInv, CommitTruth,
       NoStray, OnInv, BeginInv, ServerInv, Busy
  <2> QED
    BY <2>1, <2>2, <2>3
<1>10. ASSUME NEW p \in Procs, CommitDone(p)
      PROVE  TruthInv'
  <2>1. (RestInv /\ AdmitInv)'
    BY <1>10, AfterType DEF CommitDone, Finish, RestInv, AdmitInv, VerdictInv, OnInv,
       OpInv, MuInv, HeldInv, BeginInv, ServerInv, ClosedInv, Busy, OpenStates, Sound
  <2>2. VerdictInv'
    BY <1>10 DEF CommitDone, Finish, VerdictInv, OnInv, MuInv, HeldInv, BeginInv,
       ClosedInv, Busy, OpenStates, Sound, After, AfterCommit, PgAfter, MysqlAfter,
       SqliteAfter, DuckdbAfter, GenericAfter
  <2>3. (AbortInv /\ CommitTruth /\ NoStray)'
    BY <1>10 DEF CommitDone, Finish, VerdictInv, AbortInv, CommitTruth, NoStray, OnInv,
       BeginInv, ServerInv, Busy
  <2> QED
    BY <2>1, <2>2, <2>3
<1>11. ASSUME NEW p \in Procs, RollbackDone(p)
      PROVE  TruthInv'
  <2>1. (RestInv /\ AdmitInv)'
    BY <1>11, AfterType DEF RollbackDone, Finish, RestInv, AdmitInv, VerdictInv, OnInv,
       OpInv, MuInv, HeldInv, BeginInv, ServerInv, ClosedInv, Busy, OpenStates, Sound
  <2>2. VerdictInv'
    BY <1>11 DEF RollbackDone, Finish, VerdictInv, OnInv, MuInv, HeldInv, BeginInv,
       ClosedInv, Busy, OpenStates, Sound, After, AfterCommit, PgAfter, MysqlAfter,
       SqliteAfter, DuckdbAfter, GenericAfter
  <2>3. (AbortInv /\ CommitTruth /\ NoStray)'
    BY <1>11 DEF RollbackDone, Finish, VerdictInv, AbortInv, CommitTruth, NoStray,
       OnInv, BeginInv, ServerInv, Busy
  <2> QED
    BY <2>1, <2>2, <2>3
<1>12. ASSUME NEW p \in Procs, Detach(p)
      PROVE  TruthInv'
  <2>1. (RestInv /\ AdmitInv)'
    BY <1>12, AfterType DEF Detach, Return, RestInv, AdmitInv, VerdictInv, OnInv, OpInv,
       MuInv, HeldInv, BeginInv, ServerInv, ClosedInv, Busy, OpenStates, Sound
  <2>2. VerdictInv'
    BY <1>12 DEF Detach, Return, VerdictInv, OnInv, MuInv, HeldInv, BeginInv, ClosedInv,
       Busy, OpenStates, Sound, After, AfterCommit, PgAfter, MysqlAfter, SqliteAfter,
       DuckdbAfter, GenericAfter
  <2>3. (AbortInv /\ CommitTruth /\ NoStray)'
    BY <1>12 DEF Detach, Return, VerdictInv, AbortInv, CommitTruth, NoStray, OnInv,
       BeginInv, ServerInv, Busy
  <2> QED
    BY <2>1, <2>2, <2>3
<1>13. ASSUME NEW p \in Procs, CloseRead(p)
      PROVE  TruthInv'
  <2>1. (RestInv /\ AdmitInv)'
    BY <1>13, AfterType DEF CloseRead, RestInv, AdmitInv, VerdictInv, OnInv, OpInv,
       MuInv, HeldInv, BeginInv, ServerInv, ClosedInv, Busy, OpenStates, Sound
  <2>2. VerdictInv'
    BY <1>13 DEF CloseRead, VerdictInv, OnInv, MuInv, HeldInv, BeginInv, ClosedInv,
       Busy, OpenStates, Sound, After, AfterCommit, PgAfter, MysqlAfter, SqliteAfter,
       DuckdbAfter, GenericAfter
  <2>3. (AbortInv /\ CommitTruth /\ NoStray)'
    BY <1>13 DEF CloseRead, VerdictInv, AbortInv, CommitTruth, NoStray, OnInv, BeginInv,
       ServerInv, Busy
  <2> QED
    BY <2>1, <2>2, <2>3
<1>14. ASSUME NEW p \in Procs, CloseDb(p) \/ CloseNil(p)
      PROVE  TruthInv'
  <2>1. (RestInv /\ AdmitInv)'
    BY <1>14, AfterType DEF CloseDb, CloseNil, RestInv, AdmitInv, VerdictInv, OnInv,
       OpInv, MuInv, HeldInv, BeginInv, ServerInv, ClosedInv, Busy, OpenStates, Sound
  <2>2. VerdictInv'
    BY <1>14 DEF CloseDb, CloseNil, VerdictInv, OnInv, MuInv, HeldInv, BeginInv,
       ClosedInv, Busy, OpenStates, Sound, After, AfterCommit, PgAfter, MysqlAfter,
       SqliteAfter, DuckdbAfter, GenericAfter
  <2>3. (AbortInv /\ CommitTruth /\ NoStray)'
    BY <1>14 DEF CloseDb, CloseNil, VerdictInv, AbortInv, CommitTruth, NoStray, OnInv,
       BeginInv, ServerInv, Busy
  <2> QED
    BY <2>1, <2>2, <2>3
<1>15. ASSUME NEW p \in Procs, Serve(p)
       PROVE  TruthInv'
  <2> DEFINE h == on[p]
  <2>1. /\ h \in Handles /\ state[h] # "none" /\ mu[h] = p /\ op[p] \in Calls
        /\ Sound(h, state[h])
        /\ op[p] = "commit" => state[h] = "Active"
        /\ op[p] \in AllQueries => state[h] \in {"Active", "Aborted"}
    BY <1>15 DEF Serve, OnInv, OpInv, MuInv, HeldInv, RestInv, AdmitInv, Busy
  <2>2. PICK out \in Outcomes(h, op[p]) :
          /\ srv' = [srv EXCEPT ![h] = out.srv]
          /\ fate' = [fate EXCEPT ![h] = out.fate]
          /\ reply' = [reply EXCEPT ![p] = out.reply]
          /\ stray' = IF srv[h] = "idle" /\ out.reply = "ok" /\ op[p] \in AllQueries
                      THEN stray \cup {h} ELSE stray
    BY <1>15 DEF Serve
  <2>3. /\ pc[p] = "sent" /\ pc' = [pc EXCEPT ![p] = "replied"]
        /\ UNCHANGED <<session, calls, on, op, handle, pooled>>
    BY <1>15 DEF Serve
  <2>4. srv'[h] = out.srv /\ fate'[h] = out.fate /\ reply'[p] = out.reply
    BY <2>1, <2>2
  <2>5. /\ op[p] \in AllQueries => Sound(h, After(h, out.reply))'
        /\ op[p] = "commit" /\ out.reply = "ok" => out.fate = "committed"
        /\ op[p] = "commit" /\ out.reply # "ok" => Sound(h, AfterCommit(h, out.reply))'
        /\ out.srv = "aborted" => engine \in {"postgres", "duckdb"}
        /\ op[p] \in AllQueries => srv[h] # "idle"
    BY <2>1, <2>2, <2>3, <2>4, VerdictSound
  <2>6. fate[h] # "undecided" => out.fate = fate[h]
    BY <2>1, <2>2, OutcomesDecide
  \* Another goroutine with a reply is on another handle.
  <2>7. \A q \in Procs : pc[q] = "replied" => q # p /\ on[q] \in Handles /\ on[q] # h
    BY <2>1, <2>3 DEF OnInv, MuInv, Busy
  <2>8. (RestInv /\ AdmitInv)'
    BY <2>1, <2>2, <2>3 DEF RestInv, AdmitInv, MuInv, Sound
  <2>9. VerdictInv'
    <3> SUFFICES ASSUME NEW q \in Procs, pc'[q] = "replied"
                 PROVE
                   /\ op[q] \in AllQueries => Sound(on[q], After(on[q], reply[q]))'
                   /\ op[q] = "commit" /\ reply'[q] = "ok" => fate'[on[q]] = "committed"
                   /\ op[q] = "commit" /\ reply'[q] # "ok"
                        => Sound(on[q], AfterCommit(on[q], reply[q]))'
      BY <2>3 DEF VerdictInv
    <3>1. CASE q = p
      BY <2>3, <2>4, <2>5, <3>1
    <3>2. CASE q # p
      <4>1. pc[q] = "replied"
        BY <2>3, <3>2
      <4>2. on[q] \in Handles /\ on[q] # h
        BY <2>7, <4>1
      <4>3. /\ srv'[on[q]] = srv[on[q]] /\ fate'[on[q]] = fate[on[q]]
            /\ reply'[q] = reply[q] /\ on'[q] = on[q] /\ engine' = engine
        BY <2>2, <2>3, <3>2, <4>2
      <4> QED
        BY <4>1, <4>3 DEF VerdictInv, Sound, After, AfterCommit, PgAfter, MysqlAfter,
           SqliteAfter, DuckdbAfter, GenericAfter
    <3> QED
      BY <3>1, <3>2
  <2>10. (AbortInv /\ CommitTruth /\ NoStray)'
    BY <2>1, <2>2, <2>3, <2>5, <2>6 DEF AbortInv, CommitTruth, NoStray
  <2> QED
    BY <2>8, <2>9, <2>10
<1>16. ASSUME NEW h \in Handles, Drop(h)
       PROVE  TruthInv'
  <2>1. (RestInv /\ AdmitInv)'
    BY <1>16 DEF Drop, RestInv, AdmitInv, ServerInv, Sound
  <2>2. VerdictInv'
    BY <1>16 DEF Drop, VerdictInv, OnInv, ServerInv, Busy, Sound, Networked, After, AfterCommit,
       PgAfter, MysqlAfter, SqliteAfter, DuckdbAfter, GenericAfter
  <2>3. (AbortInv /\ CommitTruth /\ NoStray)'
    BY <1>16 DEF Drop, AbortInv, CommitTruth, NoStray
  <2> QED
    BY <2>1, <2>2, <2>3
<1>17. CASE UNCHANGED vars
  BY <1>17 DEF vars, RestInv, AdmitInv, VerdictInv, AbortInv, CommitTruth, NoStray, Sound,
     After, AfterCommit, PgAfter, MysqlAfter, SqliteAfter, DuckdbAfter, GenericAfter
<1> QED
  BY <1>1, <1>2, <1>3, <1>4, <1>5, <1>6, <1>7, <1>8, <1>9, <1>10, <1>11, <1>12, <1>13,
     <1>14, <1>15, <1>16, <1>17 DEF Next, Step

\* The invariant behind the truth of the labels holds of every behaviour.
THEOREM TruthInvariant == ASSUME Trusted PROVE Spec => []FullInv
<1>1. Init => FullInv
  BY InitInd, TruthInit DEF FullInv
<1>2. FullInv /\ [Next]_vars => FullInv'
  BY IndStep, TruthStep DEF FullInv
<1> QED
  BY <1>1, <1>2, PTL DEF Spec

\* Commit never reports success for a transaction the server did not commit.
THEOREM CommitIsTrue == ASSUME Trusted PROVE Spec => []CommitTruth
<1>1. FullInv => CommitTruth
  BY DEF FullInv, TruthInv
<1> QED
  BY <1>1, TruthInvariant, PTL

\* Between calls the handle's state is true of the server.
THEOREM StateIsTrue == ASSUME Trusted PROVE Spec => []StateTruth
<1>1. FullInv => StateTruth
  BY DEF FullInv, TruthInv, IndInv, LockInv, TypeOK, ServerInv, RestInv, Sound, StateTruth
<1> QED
  BY <1>1, TruthInvariant, PTL

\* No statement sent through a handle runs outside its transaction.
THEOREM NothingStrays == ASSUME Trusted PROVE Spec => []NoStray
<1>1. FullInv => NoStray
  BY DEF FullInv, TruthInv
<1> QED
  BY <1>1, TruthInvariant, PTL

-----------------------------------------------------------------------------
(* The goroutines, locks and connections implement TxContract.              *)

\* Every step of the goroutines is one of the contract, or none of it.
LEMMA ContractStep ==
  ASSUME Trusted, FullInv, [Next]_vars
  PROVE  [Contract!Next]_<<fate, answer>>
<1> USE DEF FullInv, IndInv, LockInv, TypeOK, session, callers, handle, server
<1>1. ASSUME NEW p \in Procs, BeginDone(p)
      PROVE  Contract!Next
  <2>1. on[p] \in Handles /\ fate[on[p]] = "none" /\ cur = NoTx
    BY <1>1 DEF BeginDone, OnInv, BeginInv, ServerInv
  <2>2. \A g \in Handles : fate[g] # "undecided"
    BY <2>1, ConstantsAssumption DEF ServerInv, ClosedInv, CurInv, OpenStates
  <2>3. Contract!Open(on[p])
    BY <1>1, <2>1, <2>2 DEF BeginDone, Contract!Open
  <2> QED
    BY <2>1, <2>3 DEF Contract!Next
<1>2. ASSUME NEW p \in Procs, Serve(p)
      PROVE  [Contract!Next]_<<fate, answer>>
  <2>1. on[p] \in Handles /\ state[on[p]] # "none"
    BY <1>2 DEF Serve, OnInv, OpInv, Busy
  <2>2. PICK out \in Outcomes(on[p], op[p]) : fate' = [fate EXCEPT ![on[p]] = out.fate]
    BY <1>2 DEF Serve
  <2>3. /\ out.fate \in Fates /\ out.fate # "none"
        /\ fate[on[p]] # "undecided" => out.fate = fate[on[p]]
    BY <2>1, <2>2, OutcomesType, OutcomesDecide
  <2>4. answer' = answer
    BY <1>2 DEF Serve
  <2>5. CASE out.fate = fate[on[p]]
    BY <2>1, <2>2, <2>4, <2>5
  <2>6. CASE out.fate # fate[on[p]]
    <3>1. fate[on[p]] = "undecided" /\ out.fate \in {"committed", "rolledBack"}
      BY <2>3, <2>6 DEF Fates
    <3>2. Contract!Decide(on[p])
      BY <2>2, <2>4, <3>1 DEF Contract!Decide
    <3> QED
      BY <2>1, <3>2 DEF Contract!Next
  <2> QED
    BY <2>5, <2>6
<1>3. ASSUME NEW p \in Procs, CommitDone(p)
      PROVE  Contract!Next
  <2>1. on[p] \in Handles /\ fate[on[p]] = "committed" /\ answer[on[p]] = "none"
    BY <1>3 DEF CommitDone, OnInv, HeldInv, ClosedInv, TruthInv, VerdictInv, Busy, OpenStates
  <2>2. Contract!TellCommitted(on[p])
    BY <1>3, <2>1 DEF CommitDone, Finish, Contract!TellCommitted
  <2> QED
    BY <2>1, <2>2 DEF Contract!Next
<1>4. ASSUME NEW p \in Procs, RollbackDone(p)
      PROVE  Contract!Next
  <2>1. /\ on[p] \in Handles /\ fate[on[p]] # "none" /\ answer[on[p]] = "none"
        /\ fate[on[p]] = "undecided" => reply[p] # "ok"
    BY <1>4 DEF RollbackDone, OnInv, HeldInv, ServerInv, ReplyInv, ClosedInv, Busy, OpenStates
  <2>2. Contract!TellClosed(on[p])
    BY <1>4, <2>1 DEF RollbackDone, Finish, Contract!TellClosed
  <2> QED
    BY <2>1, <2>2 DEF Contract!Next
<1>5. ASSUME NEW p \in Procs, CloseDb(p)
      PROVE  UNCHANGED <<fate, answer>>
  BY <1>5 DEF CloseDb, ServerInv, ClosedInv
<1>6. ASSUME NEW h \in Handles, Drop(h)
      PROVE  [Contract!Next]_<<fate, answer>>
  <2>1. CASE fate[h] = "undecided"
    <3>1. Contract!Decide(h)
      BY <1>6, <2>1 DEF Drop, Contract!Decide
    <3> QED
      BY <3>1 DEF Contract!Next
  <2>2. CASE fate[h] # "undecided"
    BY <1>6, <2>2 DEF Drop
  <2> QED
    BY <2>1, <2>2
<1>7. ASSUME NEW p \in Procs,
             \/ BeginCall(p) \/ CloseCall(p) \/ BeginRefused(p) \/ BeginFailed(p)
             \/ Refused(p) \/ Send(p) \/ Settle(p) \/ CommitFailed(p)
             \/ Detach(p) \/ CloseRead(p) \/ CloseNil(p)
             \/ \E h \in Handles : BeginSend(p, h)
             \/ \E h \in Handles, o \in Ops : Call(p, h, o)
      PROVE  UNCHANGED <<fate, answer>>
  BY <1>7 DEF BeginCall, CloseCall, BeginRefused, BeginFailed, Refused, Send, Settle,
     CommitFailed, Detach, CloseRead, CloseNil, BeginSend, Call
<1>8. CASE UNCHANGED vars
  BY <1>8 DEF vars
<1> QED
  BY <1>1, <1>2, <1>3, <1>4, <1>5, <1>6, <1>7, <1>8 DEF Next, Step

\* At most one transaction is undecided, each is decided once, and what the
\* callers are told of it is true.
THEOREM ImplementsContract == ASSUME Trusted PROVE Spec => ContractSpec
<1>1. Init => Contract!Init
  BY DEF Init, Contract!Init
<1>2. FullInv /\ [Next]_vars => [Contract!Next]_<<fate, answer>>
  BY ContractStep
<1> QED
  BY <1>1, <1>2, TruthInvariant, PTL DEF Spec, ContractSpec, Contract!Spec

-----------------------------------------------------------------------------
(* The inductive invariant.                                                *)

Ends == {"none", "open", "closed"}

TunnelType ==
  /\ opening \in {"resolve", "auth", "dial", "handshake", "up", "failed"}
  /\ socket \in Ends /\ agent \in Ends /\ listener \in Ends
  /\ closed \in BOOLEAN /\ fclosed \in BOOLEAN
  /\ conns \subseteq Conns /\ snapshot \subseteq Conns
  /\ shutting \in [Closers -> {"idle", "waiting", "conns", "agent", "returned"}]
  /\ dial \in [Conns -> {"idle", "asked", "opening", "opened", "open", "failed", "spliced",
                         "closing", "closed"}]
  /\ chan \in [Conns -> Ends]
  /\ fclose \in {"idle", "closing", "waiting", "returned"}
  /\ acceptor \in Spliced \cup {"none", "accept", "done"}
  /\ fconns \subseteq Spliced
  /\ local \in [Spliced -> Ends]
  /\ copies \in [Spliced -> SUBSET {"up", "down"}]

\* Open holds a socket only from the step that made it, and neither once it
\* failed.
OpenInv ==
  /\ opening \in {"resolve", "auth", "dial", "failed"} => socket # "open"
  /\ opening \in {"resolve", "auth", "failed"} => agent # "open"

\* One caller closes; the others wait for it, and before it nobody is there.
\* What it closed stays closed.
CloseInv ==
  /\ closed => opening = "up"
  /\ \A c \in Closers : shutting[c] # "idle" => closed
  /\ \A c, d \in Closers : shutting[c] \in {"conns", "agent"} /\ shutting[d] \in {"conns", "agent", "returned"}
       => c = d
  /\ \A c \in Closers : shutting[c] \in {"agent", "returned"} =>
       socket # "open" /\ \A i \in Conns : chan[i] # "open"
  /\ \A c \in Closers : shutting[c] = "returned" => agent # "open"

\* Every end the tool has open is the acceptor's or the forward's, and only
\* a connection of the forward is copied. What Forward.Close closed stays so.
ForwardInv ==
  /\ listener = "none" => fclose = "idle" /\ acceptor = "none"
  /\ fclose # "idle" => fclosed
  /\ fclose \in {"waiting", "returned"} => listener = "closed"
  /\ \A i \in Spliced : local[i] = "open" => i \in fconns \/ acceptor = i
  /\ \A i \in Spliced : local[i] = "none" \/ acceptor = i => i \notin fconns
  /\ \A i \in Spliced : acceptor = i => local[i] # "none"
  /\ \A i \in Spliced : copies[i] # {} => i \in fconns /\ dial[i] = "spliced"
  /\ fclose = "returned" => acceptor = "done" /\ fconns = {}

TunnelInv == TunnelType /\ OpenInv /\ CloseInv /\ Tracked /\ ForwardInv

-----------------------------------------------------------------------------
(* Each part of the invariant is kept by each step.                        *)

\* Every variable keeps its type.
LEMMA TypeKept ==
  ASSUME TunnelInv, [TunnelNext]_tunnelVars
  PROVE  TunnelType'
<1> USE TunnelConstants DEF TunnelInv, Conns, TunnelType, Ends
<1>1. CASE OpenTunnel /\ Resolve
  BY <1>1 DEF OpenTunnel, Resolve, OpenFails, closeVars, forwardVars, spliceVars
<1>2. CASE OpenTunnel /\ authMethods
  BY <1>2 DEF OpenTunnel, authMethods, OpenFails, closeVars, forwardVars, spliceVars
<1>3. CASE OpenTunnel /\ dialHost
  BY <1>3 DEF OpenTunnel, dialHost, OpenFails, closeExtra, closeVars, forwardVars, spliceVars
<1>4. CASE OpenTunnel /\ handshake
  BY <1>4 DEF OpenTunnel, handshake, OpenFails, closeExtra, closeVars, forwardVars, spliceVars
<1>5. ASSUME NEW i \in Conns, DriverDials(i)
      PROVE  TunnelType'
  BY <1>5 DEF DriverDials, openVars, closeVars, forwardVars, spliceVars
<1>6. ASSUME NEW i \in Conns, DialContext(i), dialCheck(i), UNCHANGED conns
      PROVE  TunnelType'
  BY <1>6 DEF DialContext, dialCheck, openVars, forwardVars, spliceVars
<1>7. ASSUME NEW i \in Conns, DialContext(i), dialChannel(i), UNCHANGED conns
      PROVE  TunnelType'
  BY <1>7 DEF DialContext, dialChannel, DialRefused, openVars, forwardVars, spliceVars
<1>8. ASSUME NEW i \in Conns, DialContext(i), dialEnds(i), UNCHANGED conns
      PROVE  TunnelType'
  BY <1>8 DEF DialContext, dialEnds, DialRefused, openVars, forwardVars, spliceVars
<1>9. ASSUME NEW i \in Conns, DialContext(i), dialTrack(i)
      PROVE  TunnelType'
  BY <1>9 DEF DialContext, dialTrack, DialRefused, openVars, forwardVars, spliceVars
<1>10. ASSUME NEW i \in Conns, DriverCloses(i)
      PROVE  TunnelType'
  BY <1>10 DEF DriverCloses, Untrack, openVars, forwardVars, spliceVars
<1>11. ASSUME NEW i \in Conns, ConnCloses(i)
      PROVE  TunnelType'
  BY <1>11 DEF ConnCloses, openVars, closeVars, forwardVars, spliceVars
<1>12. ASSUME NEW c \in Closers, TunnelClose(c)
      PROVE  TunnelType'
  BY <1>12 DEF TunnelClose, Closer, openVars, forwardVars, spliceVars
<1>13. ASSUME NEW c \in Closers, NEW i \in Conns, TunnelClosesConn(c, i)
      PROVE  TunnelType'
  BY <1>13 DEF TunnelClosesConn, openVars, forwardVars, spliceVars
<1>14. ASSUME NEW c \in Closers, TunnelClosesClient(c)
      PROVE  TunnelType'
  BY <1>14 DEF TunnelClosesClient, Closer, forwardVars, spliceVars
<1>15. ASSUME NEW c \in Closers, TunnelClosed(c)
      PROVE  TunnelType'
  BY <1>15 DEF TunnelClosed, closeExtra, forwardVars, spliceVars
<1>16. ASSUME NEW c \in Closers, TunnelClosedBefore(c)
      PROVE  TunnelType'
  BY <1>16 DEF TunnelClosedBefore, Closer, openVars, forwardVars, spliceVars
<1>17. CASE Listen
  BY <1>17 DEF Listen, openVars, closeVars, spliceVars
<1>18. ASSUME NEW i \in Spliced, Accept(i)
      PROVE  TunnelType'
  BY <1>18 DEF Accept, openVars, closeVars, spliceVars
<1>19. CASE AcceptEnds
  BY <1>19 DEF AcceptEnds, openVars, closeVars, spliceVars
<1>20. ASSUME NEW i \in Spliced, Accepted(i)
      PROVE  TunnelType'
  BY <1>20 DEF Accepted, openVars, closeVars, spliceVars
<1>21. ASSUME NEW i \in Spliced, splice(i)
      PROVE  TunnelType'
  BY <1>21 DEF splice, openVars, closeVars, forwardVars
<1>22. ASSUME NEW i \in Spliced, ToolWrote(i)
      PROVE  TunnelType'
  BY <1>22 DEF ToolWrote, openVars, closeVars, forwardVars
<1>23. ASSUME NEW i \in Spliced, ServerAnswered(i)
      PROVE  TunnelType'
  BY <1>23 DEF ServerAnswered, openVars, closeVars, forwardVars
<1>24. ASSUME NEW i \in Spliced, copyUp(i)
      PROVE  TunnelType'
  BY <1>24 DEF copyUp, openVars, forwardVars
<1>25. ASSUME NEW i \in Spliced, copyDown(i)
      PROVE  TunnelType'
  BY <1>25 DEF copyDown, openVars, closeVars, forwardVars
<1>26. ASSUME NEW i \in Spliced, spliceEnds(i)
      PROVE  TunnelType'
  BY <1>26 DEF spliceEnds, Untrack, openVars, spliceVars
<1>27. CASE ForwardClose
  BY <1>27 DEF ForwardClose, openVars, closeVars, spliceVars
<1>28. CASE ForwardCloses
  BY <1>28 DEF ForwardCloses, openVars, closeVars, spliceVars
<1>29. CASE ForwardWaited
  BY <1>29 DEF ForwardWaited, openVars, closeVars, spliceVars
<1>30. CASE UNCHANGED tunnelVars
  BY <1>30 DEF tunnelVars
<1> QED
  BY <1>1, <1>2, <1>3, <1>4, <1>5, <1>6, <1>7, <1>8, <1>9, <1>10, <1>11, <1>12, <1>13, <1>14,
     <1>15, <1>16, <1>17, <1>18, <1>19, <1>20, <1>21, <1>22, <1>23, <1>24, <1>25, <1>26, <1>27, <1>28, <1>29, <1>30
     DEF TunnelNext, OpenTunnel, DialContext, ForwardSteps, closerRuns

\* Open holds what it made.
LEMMA OpenKept ==
  ASSUME TunnelInv, [TunnelNext]_tunnelVars
  PROVE  OpenInv'
<1> USE TunnelConstants DEF TunnelInv, Conns, TunnelType, Ends, OpenInv, CloseInv
<1>1. CASE OpenTunnel /\ Resolve
  BY <1>1 DEF OpenTunnel, Resolve, OpenFails, closeVars, forwardVars, spliceVars
<1>2. CASE OpenTunnel /\ authMethods
  BY <1>2 DEF OpenTunnel, authMethods, OpenFails, closeVars, forwardVars, spliceVars
<1>3. CASE OpenTunnel /\ dialHost
  BY <1>3 DEF OpenTunnel, dialHost, OpenFails, closeExtra, closeVars, forwardVars, spliceVars
<1>4. CASE OpenTunnel /\ handshake
  BY <1>4 DEF OpenTunnel, handshake, OpenFails, closeExtra, closeVars, forwardVars, spliceVars
<1>5. ASSUME NEW i \in Conns, DriverDials(i)
      PROVE  OpenInv'
  BY <1>5 DEF DriverDials, openVars, closeVars, forwardVars, spliceVars
<1>6. ASSUME NEW i \in Conns, DialContext(i), dialCheck(i), UNCHANGED conns
      PROVE  OpenInv'
  BY <1>6 DEF DialContext, dialCheck, openVars, forwardVars, spliceVars
<1>7. ASSUME NEW i \in Conns, DialContext(i), dialChannel(i), UNCHANGED conns
      PROVE  OpenInv'
  BY <1>7 DEF DialContext, dialChannel, DialRefused, openVars, forwardVars, spliceVars
<1>8. ASSUME NEW i \in Conns, DialContext(i), dialEnds(i), UNCHANGED conns
      PROVE  OpenInv'
  BY <1>8 DEF DialContext, dialEnds, DialRefused, openVars, forwardVars, spliceVars
<1>9. ASSUME NEW i \in Conns, DialContext(i), dialTrack(i)
      PROVE  OpenInv'
  BY <1>9 DEF DialContext, dialTrack, DialRefused, openVars, forwardVars, spliceVars
<1>10. ASSUME NEW i \in Conns, DriverCloses(i)
      PROVE  OpenInv'
  BY <1>10 DEF DriverCloses, Untrack, openVars, forwardVars, spliceVars
<1>11. ASSUME NEW i \in Conns, ConnCloses(i)
      PROVE  OpenInv'
  BY <1>11 DEF ConnCloses, openVars, closeVars, forwardVars, spliceVars
<1>12. ASSUME NEW c \in Closers, TunnelClose(c)
      PROVE  OpenInv'
  BY <1>12 DEF TunnelClose, Closer, openVars, forwardVars, spliceVars
<1>13. ASSUME NEW c \in Closers, NEW i \in Conns, TunnelClosesConn(c, i)
      PROVE  OpenInv'
  BY <1>13 DEF TunnelClosesConn, openVars, forwardVars, spliceVars
<1>14. ASSUME NEW c \in Closers, TunnelClosesClient(c)
      PROVE  OpenInv'
  BY <1>14 DEF TunnelClosesClient, Closer, forwardVars, spliceVars
<1>15. ASSUME NEW c \in Closers, TunnelClosed(c)
      PROVE  OpenInv'
  BY <1>15 DEF TunnelClosed, closeExtra, forwardVars, spliceVars
<1>16. ASSUME NEW c \in Closers, TunnelClosedBefore(c)
      PROVE  OpenInv'
  BY <1>16 DEF TunnelClosedBefore, Closer, openVars, forwardVars, spliceVars
<1>17. CASE Listen
  BY <1>17 DEF Listen, openVars, closeVars, spliceVars
<1>18. ASSUME NEW i \in Spliced, Accept(i)
      PROVE  OpenInv'
  BY <1>18 DEF Accept, openVars, closeVars, spliceVars
<1>19. CASE AcceptEnds
  BY <1>19 DEF AcceptEnds, openVars, closeVars, spliceVars
<1>20. ASSUME NEW i \in Spliced, Accepted(i)
      PROVE  OpenInv'
  BY <1>20 DEF Accepted, openVars, closeVars, spliceVars
<1>21. ASSUME NEW i \in Spliced, splice(i)
      PROVE  OpenInv'
  BY <1>21 DEF splice, openVars, closeVars, forwardVars
<1>22. ASSUME NEW i \in Spliced, ToolWrote(i)
      PROVE  OpenInv'
  BY <1>22 DEF ToolWrote, openVars, closeVars, forwardVars
<1>23. ASSUME NEW i \in Spliced, ServerAnswered(i)
      PROVE  OpenInv'
  BY <1>23 DEF ServerAnswered, openVars, closeVars, forwardVars
<1>24. ASSUME NEW i \in Spliced, copyUp(i)
      PROVE  OpenInv'
  BY <1>24 DEF copyUp, openVars, forwardVars
<1>25. ASSUME NEW i \in Spliced, copyDown(i)
      PROVE  OpenInv'
  BY <1>25 DEF copyDown, openVars, closeVars, forwardVars
<1>26. ASSUME NEW i \in Spliced, spliceEnds(i)
      PROVE  OpenInv'
  BY <1>26 DEF spliceEnds, Untrack, openVars, spliceVars
<1>27. CASE ForwardClose
  BY <1>27 DEF ForwardClose, openVars, closeVars, spliceVars
<1>28. CASE ForwardCloses
  BY <1>28 DEF ForwardCloses, openVars, closeVars, spliceVars
<1>29. CASE ForwardWaited
  BY <1>29 DEF ForwardWaited, openVars, closeVars, spliceVars
<1>30. CASE UNCHANGED tunnelVars
  BY <1>30 DEF tunnelVars
<1> QED
  BY <1>1, <1>2, <1>3, <1>4, <1>5, <1>6, <1>7, <1>8, <1>9, <1>10, <1>11, <1>12, <1>13, <1>14,
     <1>15, <1>16, <1>17, <1>18, <1>19, <1>20, <1>21, <1>22, <1>23, <1>24, <1>25, <1>26, <1>27, <1>28, <1>29, <1>30
     DEF TunnelNext, OpenTunnel, DialContext, ForwardSteps, closerRuns

\* One caller closes.
LEMMA CloseKept ==
  ASSUME TunnelInv, [TunnelNext]_tunnelVars
  PROVE  CloseInv'
<1> USE TunnelConstants DEF TunnelInv, Conns, TunnelType, Ends, OpenInv, CloseInv
<1>1. CASE OpenTunnel /\ Resolve
  BY <1>1 DEF OpenTunnel, Resolve, OpenFails, closeVars, forwardVars, spliceVars
<1>2. CASE OpenTunnel /\ authMethods
  BY <1>2 DEF OpenTunnel, authMethods, OpenFails, closeVars, forwardVars, spliceVars
<1>3. CASE OpenTunnel /\ dialHost
  BY <1>3 DEF OpenTunnel, dialHost, OpenFails, closeExtra, closeVars, forwardVars, spliceVars
<1>4. CASE OpenTunnel /\ handshake
  BY <1>4 DEF OpenTunnel, handshake, OpenFails, closeExtra, closeVars, forwardVars, spliceVars
<1>5. ASSUME NEW i \in Conns, DriverDials(i)
      PROVE  CloseInv'
  BY <1>5 DEF DriverDials, openVars, closeVars, forwardVars, spliceVars
<1>6. ASSUME NEW i \in Conns, DialContext(i), dialCheck(i), UNCHANGED conns
      PROVE  CloseInv'
  BY <1>6 DEF DialContext, dialCheck, openVars, forwardVars, spliceVars
<1>7. ASSUME NEW i \in Conns, DialContext(i), dialChannel(i), UNCHANGED conns
      PROVE  CloseInv'
  BY <1>7 DEF DialContext, dialChannel, DialRefused, openVars, forwardVars, spliceVars
<1>8. ASSUME NEW i \in Conns, DialContext(i), dialEnds(i), UNCHANGED conns
      PROVE  CloseInv'
  BY <1>8 DEF DialContext, dialEnds, DialRefused, openVars, forwardVars, spliceVars
<1>9. ASSUME NEW i \in Conns, DialContext(i), dialTrack(i)
      PROVE  CloseInv'
  BY <1>9 DEF DialContext, dialTrack, DialRefused, openVars, forwardVars, spliceVars
<1>10. ASSUME NEW i \in Conns, DriverCloses(i)
      PROVE  CloseInv'
  BY <1>10 DEF DriverCloses, Untrack, openVars, forwardVars, spliceVars
<1>11. ASSUME NEW i \in Conns, ConnCloses(i)
      PROVE  CloseInv'
  BY <1>11 DEF ConnCloses, openVars, closeVars, forwardVars, spliceVars
<1>12. ASSUME NEW c \in Closers, TunnelClose(c)
      PROVE  CloseInv'
  BY <1>12 DEF TunnelClose, Closer, openVars, forwardVars, spliceVars
<1>13. ASSUME NEW c \in Closers, NEW i \in Conns, TunnelClosesConn(c, i)
      PROVE  CloseInv'
  BY <1>13 DEF TunnelClosesConn, openVars, forwardVars, spliceVars
<1>14. ASSUME NEW c \in Closers, TunnelClosesClient(c)
      PROVE  CloseInv'
  BY <1>14 DEF TunnelClosesClient, Closer, forwardVars, spliceVars
<1>15. ASSUME NEW c \in Closers, TunnelClosed(c)
      PROVE  CloseInv'
  BY <1>15 DEF TunnelClosed, closeExtra, forwardVars, spliceVars
<1>16. ASSUME NEW c \in Closers, TunnelClosedBefore(c)
      PROVE  CloseInv'
  BY <1>16 DEF TunnelClosedBefore, Closer, openVars, forwardVars, spliceVars
<1>17. CASE Listen
  BY <1>17 DEF Listen, openVars, closeVars, spliceVars
<1>18. ASSUME NEW i \in Spliced, Accept(i)
      PROVE  CloseInv'
  BY <1>18 DEF Accept, openVars, closeVars, spliceVars
<1>19. CASE AcceptEnds
  BY <1>19 DEF AcceptEnds, openVars, closeVars, spliceVars
<1>20. ASSUME NEW i \in Spliced, Accepted(i)
      PROVE  CloseInv'
  BY <1>20 DEF Accepted, openVars, closeVars, spliceVars
<1>21. ASSUME NEW i \in Spliced, splice(i)
      PROVE  CloseInv'
  BY <1>21 DEF splice, openVars, closeVars, forwardVars
<1>22. ASSUME NEW i \in Spliced, ToolWrote(i)
      PROVE  CloseInv'
  BY <1>22 DEF ToolWrote, openVars, closeVars, forwardVars
<1>23. ASSUME NEW i \in Spliced, ServerAnswered(i)
      PROVE  CloseInv'
  BY <1>23 DEF ServerAnswered, openVars, closeVars, forwardVars
<1>24. ASSUME NEW i \in Spliced, copyUp(i)
      PROVE  CloseInv'
  BY <1>24 DEF copyUp, openVars, forwardVars
<1>25. ASSUME NEW i \in Spliced, copyDown(i)
      PROVE  CloseInv'
  BY <1>25 DEF copyDown, openVars, closeVars, forwardVars
<1>26. ASSUME NEW i \in Spliced, spliceEnds(i)
      PROVE  CloseInv'
  BY <1>26 DEF spliceEnds, Untrack, openVars, spliceVars
<1>27. CASE ForwardClose
  BY <1>27 DEF ForwardClose, openVars, closeVars, spliceVars
<1>28. CASE ForwardCloses
  BY <1>28 DEF ForwardCloses, openVars, closeVars, spliceVars
<1>29. CASE ForwardWaited
  BY <1>29 DEF ForwardWaited, openVars, closeVars, spliceVars
<1>30. CASE UNCHANGED tunnelVars
  BY <1>30 DEF tunnelVars
<1> QED
  BY <1>1, <1>2, <1>3, <1>4, <1>5, <1>6, <1>7, <1>8, <1>9, <1>10, <1>11, <1>12, <1>13, <1>14,
     <1>15, <1>16, <1>17, <1>18, <1>19, <1>20, <1>21, <1>22, <1>23, <1>24, <1>25, <1>26, <1>27, <1>28, <1>29, <1>30
     DEF TunnelNext, OpenTunnel, DialContext, ForwardSteps, closerRuns

\* What is handed out is tracked.
LEMMA TrackedKept ==
  ASSUME TunnelInv, [TunnelNext]_tunnelVars
  PROVE  Tracked'
<1> USE TunnelConstants DEF TunnelInv, Conns, TunnelType, Ends, Tracked, CloseInv
<1>1. CASE OpenTunnel /\ Resolve
  BY <1>1 DEF OpenTunnel, Resolve, OpenFails, closeVars, forwardVars, spliceVars
<1>2. CASE OpenTunnel /\ authMethods
  BY <1>2 DEF OpenTunnel, authMethods, OpenFails, closeVars, forwardVars, spliceVars
<1>3. CASE OpenTunnel /\ dialHost
  BY <1>3 DEF OpenTunnel, dialHost, OpenFails, closeExtra, closeVars, forwardVars, spliceVars
<1>4. CASE OpenTunnel /\ handshake
  BY <1>4 DEF OpenTunnel, handshake, OpenFails, closeExtra, closeVars, forwardVars, spliceVars
<1>5. ASSUME NEW i \in Conns, DriverDials(i)
      PROVE  Tracked'
  BY <1>5 DEF DriverDials, openVars, closeVars, forwardVars, spliceVars
<1>6. ASSUME NEW i \in Conns, DialContext(i), dialCheck(i), UNCHANGED conns
      PROVE  Tracked'
  BY <1>6 DEF DialContext, dialCheck, openVars, forwardVars, spliceVars
<1>7. ASSUME NEW i \in Conns, DialContext(i), dialChannel(i), UNCHANGED conns
      PROVE  Tracked'
  BY <1>7 DEF DialContext, dialChannel, DialRefused, openVars, forwardVars, spliceVars
<1>8. ASSUME NEW i \in Conns, DialContext(i), dialEnds(i), UNCHANGED conns
      PROVE  Tracked'
  BY <1>8 DEF DialContext, dialEnds, DialRefused, openVars, forwardVars, spliceVars
<1>9. ASSUME NEW i \in Conns, DialContext(i), dialTrack(i)
      PROVE  Tracked'
  BY <1>9 DEF DialContext, dialTrack, DialRefused, openVars, forwardVars, spliceVars
<1>10. ASSUME NEW i \in Conns, DriverCloses(i)
      PROVE  Tracked'
  BY <1>10 DEF DriverCloses, Untrack, openVars, forwardVars, spliceVars
<1>11. ASSUME NEW i \in Conns, ConnCloses(i)
      PROVE  Tracked'
  BY <1>11 DEF ConnCloses, openVars, closeVars, forwardVars, spliceVars
<1>12. ASSUME NEW c \in Closers, TunnelClose(c)
      PROVE  Tracked'
  BY <1>12 DEF TunnelClose, Closer, openVars, forwardVars, spliceVars
<1>13. ASSUME NEW c \in Closers, NEW i \in Conns, TunnelClosesConn(c, i)
      PROVE  Tracked'
  BY <1>13 DEF TunnelClosesConn, openVars, forwardVars, spliceVars
<1>14. ASSUME NEW c \in Closers, TunnelClosesClient(c)
      PROVE  Tracked'
  BY <1>14 DEF TunnelClosesClient, Closer, forwardVars, spliceVars
<1>15. ASSUME NEW c \in Closers, TunnelClosed(c)
      PROVE  Tracked'
  BY <1>15 DEF TunnelClosed, closeExtra, forwardVars, spliceVars
<1>16. ASSUME NEW c \in Closers, TunnelClosedBefore(c)
      PROVE  Tracked'
  BY <1>16 DEF TunnelClosedBefore, Closer, openVars, forwardVars, spliceVars
<1>17. CASE Listen
  BY <1>17 DEF Listen, openVars, closeVars, spliceVars
<1>18. ASSUME NEW i \in Spliced, Accept(i)
      PROVE  Tracked'
  BY <1>18 DEF Accept, openVars, closeVars, spliceVars
<1>19. CASE AcceptEnds
  BY <1>19 DEF AcceptEnds, openVars, closeVars, spliceVars
<1>20. ASSUME NEW i \in Spliced, Accepted(i)
      PROVE  Tracked'
  BY <1>20 DEF Accepted, openVars, closeVars, spliceVars
<1>21. ASSUME NEW i \in Spliced, splice(i)
      PROVE  Tracked'
  BY <1>21 DEF splice, openVars, closeVars, forwardVars
<1>22. ASSUME NEW i \in Spliced, ToolWrote(i)
      PROVE  Tracked'
  BY <1>22 DEF ToolWrote, openVars, closeVars, forwardVars
<1>23. ASSUME NEW i \in Spliced, ServerAnswered(i)
      PROVE  Tracked'
  BY <1>23 DEF ServerAnswered, openVars, closeVars, forwardVars
<1>24. ASSUME NEW i \in Spliced, copyUp(i)
      PROVE  Tracked'
  BY <1>24 DEF copyUp, openVars, forwardVars
<1>25. ASSUME NEW i \in Spliced, copyDown(i)
      PROVE  Tracked'
  BY <1>25 DEF copyDown, openVars, closeVars, forwardVars
<1>26. ASSUME NEW i \in Spliced, spliceEnds(i)
      PROVE  Tracked'
  BY <1>26 DEF spliceEnds, Untrack, openVars, spliceVars
<1>27. CASE ForwardClose
  BY <1>27 DEF ForwardClose, openVars, closeVars, spliceVars
<1>28. CASE ForwardCloses
  BY <1>28 DEF ForwardCloses, openVars, closeVars, spliceVars
<1>29. CASE ForwardWaited
  BY <1>29 DEF ForwardWaited, openVars, closeVars, spliceVars
<1>30. CASE UNCHANGED tunnelVars
  BY <1>30 DEF tunnelVars
<1> QED
  BY <1>1, <1>2, <1>3, <1>4, <1>5, <1>6, <1>7, <1>8, <1>9, <1>10, <1>11, <1>12, <1>13, <1>14,
     <1>15, <1>16, <1>17, <1>18, <1>19, <1>20, <1>21, <1>22, <1>23, <1>24, <1>25, <1>26, <1>27, <1>28, <1>29, <1>30
     DEF TunnelNext, OpenTunnel, DialContext, ForwardSteps, closerRuns

\* The forward holds what it accepted.
LEMMA ForwardKept ==
  ASSUME TunnelInv, [TunnelNext]_tunnelVars
  PROVE  ForwardInv'
<1> USE TunnelConstants DEF TunnelInv, Conns, TunnelType, Ends, ForwardInv
<1>1. CASE OpenTunnel /\ Resolve
  BY <1>1 DEF OpenTunnel, Resolve, OpenFails, closeVars, forwardVars, spliceVars
<1>2. CASE OpenTunnel /\ authMethods
  BY <1>2 DEF OpenTunnel, authMethods, OpenFails, closeVars, forwardVars, spliceVars
<1>3. CASE OpenTunnel /\ dialHost
  BY <1>3 DEF OpenTunnel, dialHost, OpenFails, closeExtra, closeVars, forwardVars, spliceVars
<1>4. CASE OpenTunnel /\ handshake
  BY <1>4 DEF OpenTunnel, handshake, OpenFails, closeExtra, closeVars, forwardVars, spliceVars
<1>5. ASSUME NEW i \in Conns, DriverDials(i)
      PROVE  ForwardInv'
  BY <1>5 DEF DriverDials, openVars, closeVars, forwardVars, spliceVars
<1>6. ASSUME NEW i \in Conns, DialContext(i), dialCheck(i), UNCHANGED conns
      PROVE  ForwardInv'
  BY <1>6 DEF DialContext, dialCheck, openVars, forwardVars, spliceVars
<1>7. ASSUME NEW i \in Conns, DialContext(i), dialChannel(i), UNCHANGED conns
      PROVE  ForwardInv'
  BY <1>7 DEF DialContext, dialChannel, DialRefused, openVars, forwardVars, spliceVars
<1>8. ASSUME NEW i \in Conns, DialContext(i), dialEnds(i), UNCHANGED conns
      PROVE  ForwardInv'
  BY <1>8 DEF DialContext, dialEnds, DialRefused, openVars, forwardVars, spliceVars
<1>9. ASSUME NEW i \in Conns, DialContext(i), dialTrack(i)
      PROVE  ForwardInv'
  BY <1>9 DEF DialContext, dialTrack, DialRefused, openVars, forwardVars, spliceVars
<1>10. ASSUME NEW i \in Conns, DriverCloses(i)
      PROVE  ForwardInv'
  BY <1>10 DEF DriverCloses, Untrack, openVars, forwardVars, spliceVars
<1>11. ASSUME NEW i \in Conns, ConnCloses(i)
      PROVE  ForwardInv'
  BY <1>11 DEF ConnCloses, openVars, closeVars, forwardVars, spliceVars
<1>12. ASSUME NEW c \in Closers, TunnelClose(c)
      PROVE  ForwardInv'
  BY <1>12 DEF TunnelClose, Closer, openVars, forwardVars, spliceVars
<1>13. ASSUME NEW c \in Closers, NEW i \in Conns, TunnelClosesConn(c, i)
      PROVE  ForwardInv'
  BY <1>13 DEF TunnelClosesConn, openVars, forwardVars, spliceVars
<1>14. ASSUME NEW c \in Closers, TunnelClosesClient(c)
      PROVE  ForwardInv'
  BY <1>14 DEF TunnelClosesClient, Closer, forwardVars, spliceVars
<1>15. ASSUME NEW c \in Closers, TunnelClosed(c)
      PROVE  ForwardInv'
  BY <1>15 DEF TunnelClosed, closeExtra, forwardVars, spliceVars
<1>16. ASSUME NEW c \in Closers, TunnelClosedBefore(c)
      PROVE  ForwardInv'
  BY <1>16 DEF TunnelClosedBefore, Closer, openVars, forwardVars, spliceVars
<1>17. CASE Listen
  BY <1>17 DEF Listen, openVars, closeVars, spliceVars
<1>18. ASSUME NEW i \in Spliced, Accept(i)
      PROVE  ForwardInv'
  BY <1>18 DEF Accept, openVars, closeVars, spliceVars
<1>19. CASE AcceptEnds
  BY <1>19 DEF AcceptEnds, openVars, closeVars, spliceVars
<1>20. ASSUME NEW i \in Spliced, Accepted(i)
      PROVE  ForwardInv'
  BY <1>20 DEF Accepted, openVars, closeVars, spliceVars
<1>21. ASSUME NEW i \in Spliced, splice(i)
      PROVE  ForwardInv'
  BY <1>21 DEF splice, openVars, closeVars, forwardVars
<1>22. ASSUME NEW i \in Spliced, ToolWrote(i)
      PROVE  ForwardInv'
  BY <1>22 DEF ToolWrote, openVars, closeVars, forwardVars
<1>23. ASSUME NEW i \in Spliced, ServerAnswered(i)
      PROVE  ForwardInv'
  BY <1>23 DEF ServerAnswered, openVars, closeVars, forwardVars
<1>24. ASSUME NEW i \in Spliced, copyUp(i)
      PROVE  ForwardInv'
  BY <1>24 DEF copyUp, openVars, forwardVars
<1>25. ASSUME NEW i \in Spliced, copyDown(i)
      PROVE  ForwardInv'
  BY <1>25 DEF copyDown, openVars, closeVars, forwardVars
<1>26. ASSUME NEW i \in Spliced, spliceEnds(i)
      PROVE  ForwardInv'
  BY <1>26 DEF spliceEnds, Untrack, openVars, spliceVars
<1>27. CASE ForwardClose
  BY <1>27 DEF ForwardClose, openVars, closeVars, spliceVars
<1>28. CASE ForwardCloses
  BY <1>28 DEF ForwardCloses, openVars, closeVars, spliceVars
<1>29. CASE ForwardWaited
  BY <1>29 DEF ForwardWaited, openVars, closeVars, spliceVars
<1>30. CASE UNCHANGED tunnelVars
  BY <1>30 DEF tunnelVars
<1> QED
  BY <1>1, <1>2, <1>3, <1>4, <1>5, <1>6, <1>7, <1>8, <1>9, <1>10, <1>11, <1>12, <1>13, <1>14,
     <1>15, <1>16, <1>17, <1>18, <1>19, <1>20, <1>21, <1>22, <1>23, <1>24, <1>25, <1>26, <1>27, <1>28, <1>29, <1>30
     DEF TunnelNext, OpenTunnel, DialContext, ForwardSteps, closerRuns

-----------------------------------------------------------------------------
(* The inductive invariant holds of every behaviour, with and without      *)
(* fairness (tunnel.go, forward.go).                                       *)
THEOREM TunnelInvariant == TunnelSpec => []TunnelInv
<1>1. TunnelInit => TunnelInv
  BY TunnelConstants
     DEF TunnelInit, TunnelInv, TunnelType, Ends, OpenInv, CloseInv, Tracked, ForwardInv, Conns
<1>2. TunnelInv /\ [TunnelNext]_tunnelVars => TunnelInv'
  BY TypeKept, OpenKept, CloseKept, TrackedKept, ForwardKept DEF TunnelInv
<1> QED
  BY <1>1, <1>2, PTL DEF TunnelSpec

(* Whoever closes what, in whatever order, nothing of a tunnel outlives its *)
(* Close, nothing of a forward the forward's, and an Open that failed holds *)
(* nothing (Tunnel.Open, DialContext, Close; Forward.accept, splice, Close).*)
THEOREM TunnelIsTidy == TunnelSpec => []TunnelTidy
<1>1. TunnelInv => TunnelTidy
  <2> SUFFICES ASSUME TunnelInv PROVE TunnelTidy
    OBVIOUS
  <2>1. Tracked
    BY DEF TunnelInv
  <2>2. NothingOutlives
    BY DEF TunnelInv, CloseInv, NothingOutlives
  <2>3. FailedOpenHoldsNothing
    BY DEF TunnelInv, OpenInv, FailedOpenHoldsNothing
  <2>4. ForwardGone
    BY TunnelConstants DEF TunnelInv, TunnelType, ForwardInv, ForwardGone
  <2> QED
    BY <2>1, <2>2, <2>3, <2>4 DEF TunnelTidy
<1> QED
  BY <1>1, TunnelInvariant, PTL
=============================================================================
