------------------------------ MODULE KeptProofs ------------------------------
(***************************************************************************)
(* Theorems about what is kept, for any rows, names, host keys and bounds. *)
(* Connections: however dials, replies, edits of the rows and the restore  *)
(* cross, every session that was opened is the live one or is being        *)
(* closed, in order, and the panel shows what is live. Profiles: config.toml *)
(* is always one whole list with unique names, and commands that do not    *)
(* overlap or fail leave the file and the keyring as the list means them.  *)
(***************************************************************************)
EXTENDS Connections, Profiles, FiniteSetTheorems, SequenceTheorems, TLAPS

DialType ==
  [row : Rows \cup {""}, kind : {"connect", "test", "restore"}, secret : BOOLEAN,
   at : {"tunnel", "driver", "list", "unwind", "reply", "held", "closing", "gone"},
   ssh : BOOLEAN, tunnel : {"none", "open", "closed"}, driver : {"none", "open", "closed"},
   reg : BOOLEAN, err : {"none", "failed", "secret", "unknown", "changed"}, key : HostKeys \cup {0}]

PromptType ==
  [kind : {"none", "start", "remove", "password", "secret", "hostkey", "info"}, row : Rows \cup {""},
   dial : {"connect", "test", "restore"}, key : HostKeys \cup {0}]

\* Every variable keeps its type.
ConnTypeOK ==
  /\ saved \in [Rows -> {"none"} \cup Kinds] /\ ephem \in Rows \cup {""}
  /\ active \in Rows \cup {""} /\ live \in 0 .. Len(dials)
  /\ dials \in Seq(DialType)
  /\ status \in [Rows -> {"none", "pending", "ok", "idle", "error"}]
  /\ restoring \in Rows \cup {""}
  /\ prompt \in PromptType
  /\ loads \subseteq [row : Rows \cup {""}, what : {"tables", "page"}]
  /\ hostKey \in HostKeys /\ known \subseteq accepted /\ accepted \subseteq HostKeys \cup {0}
  /\ edits \in 0 .. MaxEdits /\ abandoned \in BOOLEAN /\ up \in BOOLEAN

-----------------------------------------------------------------------------
(* The inductive invariant.                                                *)

\* What a dial holds at each of its steps: a registration goes with its
\* driver, a driver with its tunnel, and a reply that nobody will adopt
\* brings nothing that is open.
Fits(d, mine, keys) ==
  /\ d.at = "held" <=> mine
  /\ d.at = "gone" => d.driver # "open" /\ d.tunnel # "open" /\ ~d.reg
  /\ d.reg => d.driver = "open"
  /\ d.tunnel = "closed" => d.driver # "open"
  /\ d.at = "tunnel" => d.tunnel = "none" /\ d.driver = "none"
  /\ d.at = "driver" => d.tunnel # "closed" /\ d.driver = "none"
  /\ d.at = "list" => d.kind # "test" /\ d.err = "none"
  /\ d.at = "unwind" => d.err # "none" \/ d.kind = "test"
  /\ d.at = "reply" /\ (d.err # "none" \/ d.kind = "test") => d.driver # "open" /\ d.tunnel # "open"
  /\ d.tunnel = "open" => d.key \in keys

DialsInv == \A i \in DOMAIN dials : Fits(dials[i], i = live, accepted)

\* A restore that was given up is not pending, and nothing makes it so again.
RestoreInv == StaysAbandoned /\ (abandoned => restoring = "")

ConnInv == ConnTypeOK /\ DialsInv /\ RestoreInv /\ GreenIsLive

-----------------------------------------------------------------------------
(* What a step does to the dials and the live one.                         *)

\* A dial that is not the session goes on as e.
Works(i, e) ==
  /\ dials[i].at # "held" /\ Fits(e, FALSE, accepted)
  /\ dials' = [dials EXCEPT ![i] = e] /\ live' = live
Starts(e) ==
  /\ Fits(e, FALSE, accepted)
  /\ dials' = Append(dials, e) /\ live' = live
Leaves == live' = 0 /\ dials' = Closing(dials)
Lands(i) ==
  /\ dials[i].at = "reply" /\ dials[i].err = "none" /\ dials[i].kind # "test"
  /\ dials[i].kind = "restore" => restoring # ""
  /\ live' = i /\ dials' = Adopted(i)
Quits ==
  /\ live' = 0
  /\ dials' = <<>> \/ \E e \in DialType : dials' = <<e>> /\ Fits(e, FALSE, {})

DialShapes ==
  \/ UNCHANGED <<dials, live>>
  \/ \E i \in DOMAIN dials, e \in DialType : Works(i, e)
  \/ \E e \in DialType : Starts(e)
  \/ Leaves
  \/ \E i \in DOMAIN dials : Lands(i)
  \/ Quits

\* Every dial has its type, and the live one is held.
LEMMA DialsTyped ==
  ASSUME ConnInv
  PROVE  /\ Len(dials) \in Nat /\ DOMAIN dials = 1..Len(dials) /\ dials \in [1..Len(dials) -> DialType]
         /\ \A i \in DOMAIN dials : dials[i] \in DialType /\ Fits(dials[i], i = live, accepted)
         /\ live # 0 => live \in DOMAIN dials
<1>1. dials \in Seq(DialType) /\ live \in 0 .. Len(dials)
  BY DEF ConnInv, ConnTypeOK
<1>2. Len(dials) \in Nat /\ DOMAIN dials = 1..Len(dials) /\ dials \in [1..Len(dials) -> DialType]
  BY <1>1, LenProperties
<1>3. \A i \in DOMAIN dials : dials[i] \in DialType
  BY <1>2
<1> QED
  BY <1>1, <1>2, <1>3 DEF ConnInv, DialsInv

\* A dial on its way through the tunnel.
LEMMA TunnelShape ==
  ASSUME ConnInv, NEW i \in DOMAIN dials, openTunnel(i), UNCHANGED live
  PROVE  DialShapes
<1>1. dials[i] \in DialType /\ Fits(dials[i], i = live, accepted) /\ dials[i].at = "tunnel"
  BY DialsTyped DEF openTunnel
<1>2. hostKey \in HostKeys /\ known \subseteq accepted
  BY DEF ConnInv, ConnTypeOK
<1>3. PICK e \in {checkHostKey, "failed"} \cup (IF dials[i].secret THEN {} ELSE {"secret"}) :
        dials' = [dials EXCEPT ![i] =
          IF e = "none" THEN [dials[i] EXCEPT !.tunnel = "open", !.key = hostKey, !.at = "driver"]
          ELSE [dials[i] EXCEPT !.err = e, !.key = hostKey, !.at = "reply"]]
  BY DEF openTunnel
<1>4. e \in {"none", "failed", "secret", "unknown", "changed"} /\ (e = "none" => hostKey \in known)
  BY <1>3 DEF checkHostKey
<1>5. CASE e = "none"
  <2> DEFINE d == [dials[i] EXCEPT !.tunnel = "open", !.key = hostKey, !.at = "driver"]
  <2>1. d \in DialType /\ Fits(d, FALSE, accepted)
    BY <1>1, <1>2, <1>4, <1>5 DEF DialType, Fits
  <2>2. dials' = [dials EXCEPT ![i] = d]
    BY <1>3, <1>5
  <2> HIDE DEF d
  <2> QED
    BY <1>1, <2>1, <2>2 DEF DialShapes, Works
<1>6. CASE e # "none"
  <2> DEFINE d == [dials[i] EXCEPT !.err = e, !.key = hostKey, !.at = "reply"]
  <2>1. d \in DialType /\ Fits(d, FALSE, accepted)
    BY <1>1, <1>2, <1>4, <1>6 DEF DialType, Fits
  <2>2. dials' = [dials EXCEPT ![i] = d]
    BY <1>3, <1>6
  <2> HIDE DEF d
  <2> QED
    BY <1>1, <2>1, <2>2 DEF DialShapes, Works
<1> QED
  BY <1>5, <1>6

\* A dial that opens its driver.
LEMMA DriverShape ==
  ASSUME ConnInv, NEW i \in DOMAIN dials, openDriver(i), UNCHANGED live
  PROVE  DialShapes
<1>1. dials[i] \in DialType /\ Fits(dials[i], i = live, accepted) /\ dials[i].at = "driver"
  BY DialsTyped DEF openDriver
<1>2. PICK opens \in BOOLEAN, connects \in BOOLEAN :
        dials' = [dials EXCEPT ![i] =
          [openDB(dials[i], opens) EXCEPT !.err = IF opens /\ connects THEN "none" ELSE "failed",
             !.at = IF opens /\ connects /\ dials[i].kind # "test" THEN "list" ELSE "unwind"]]
  BY DEF openDriver
<1> DEFINE drv == IF opens THEN "open" ELSE dials[i].driver
           reg == opens /\ dials[i].ssh
           err == IF opens /\ connects THEN "none" ELSE "failed"
           at == IF opens /\ connects /\ dials[i].kind # "test" THEN "list" ELSE "unwind"
           d == [[dials[i] EXCEPT !.driver = drv, !.reg = reg] EXCEPT !.err = err, !.at = at]
<1>3. dials' = [dials EXCEPT ![i] = d]
  BY <1>2 DEF openDB
<1>4. /\ drv \in {"none", "open"} /\ reg \in BOOLEAN /\ (reg => drv = "open")
      /\ err \in {"none", "failed"} /\ at \in {"list", "unwind"}
      /\ at = "list" => err = "none" /\ dials[i].kind # "test"
      /\ at = "unwind" => err # "none" \/ dials[i].kind = "test"
  BY <1>1 DEF Fits
<1> HIDE DEF drv, reg, err, at
<1>5. d \in DialType
  BY ONLY <1>1, <1>4 DEF DialType
<1>6. /\ d.driver = drv /\ d.reg = reg /\ d.err = err /\ d.at = at
      /\ d.kind = dials[i].kind /\ d.tunnel = dials[i].tunnel /\ d.key = dials[i].key
  BY <1>1 DEF DialType
<1> HIDE DEF d
<1>7. Fits(d, FALSE, accepted)
  BY <1>1, <1>4, <1>6 DEF Fits
<1> QED
  BY <1>1, <1>3, <1>5, <1>7 DEF DialShapes, Works

\* A dial that lists, or lets go of what it opened.
LEMMA ListShape ==
  ASSUME ConnInv, NEW i \in DOMAIN dials, listDatabases(i), UNCHANGED live
  PROVE  DialShapes
<1>1. dials[i] \in DialType /\ Fits(dials[i], i = live, accepted) /\ dials[i].at = "list"
  BY DialsTyped DEF listDatabases
<1> DEFINE d == [dials[i] EXCEPT !.at = "reply"]
           f == [dials[i] EXCEPT !.err = "failed", !.at = "unwind"]
<1>2. dials' = [dials EXCEPT ![i] = d] \/ dials' = [dials EXCEPT ![i] = f]
  BY DEF listDatabases
<1>3. d \in DialType /\ f \in DialType
  BY <1>1 DEF DialType
<1>4. Fits(d, FALSE, accepted) /\ Fits(f, FALSE, accepted)
  BY <1>1 DEF Fits, DialType
<1> HIDE DEF d, f
<1> QED
  BY <1>1, <1>2, <1>3, <1>4 DEF DialShapes, Works

\* A dial of which nothing is left open.
LEMMA GoneIs ==
  ASSUME NEW d \in DialType, NEW keys
  PROVE  /\ Gone(d) \in DialType /\ Gone(d).at = "gone"
         /\ d.driver # "open" /\ d.tunnel # "open" /\ ~d.reg => Fits(Gone(d), FALSE, keys)
<1> DEFINE g == Gone(d)
<1>1. g \in DialType
  BY DEF Gone, DialType
<1>2. g.at = "gone" /\ g.driver = d.driver /\ g.tunnel = d.tunnel /\ g.reg = d.reg
  BY DEF Gone, DialType
<1> HIDE DEF g
<1>3. d.driver # "open" /\ d.tunnel # "open" /\ ~d.reg => Fits(g, FALSE, keys)
  BY <1>2 DEF Fits
<1> QED
  BY <1>1, <1>2, <1>3 DEF g

\* A driver that is closed, with its registration.
LEMMA ClosedIs ==
  ASSUME NEW d \in DialType
  PROVE  /\ closeDriver(d) \in DialType /\ closeDriver(d).driver = "closed" /\ ~closeDriver(d).reg
         /\ closeDriver(d).tunnel = d.tunnel /\ closeDriver(d).key = d.key /\ closeDriver(d).at = d.at
         /\ closeDriver(d).kind = d.kind /\ closeDriver(d).err = d.err
  BY DEF closeDriver, DialType

\* A dial or a session that is closed, step by step.
LEMMA CloseShape ==
  ASSUME ConnInv, NEW i \in DOMAIN dials, closeSession(i), UNCHANGED live
  PROVE  DialShapes
<1>1. dials[i] \in DialType /\ Fits(dials[i], i = live, accepted) /\ dials[i].at \in {"unwind", "closing"}
  BY DialsTyped DEF closeSession
<1> DEFINE d == dials[i]
           t == [d EXCEPT !.tunnel = "closed"]
           r == [d EXCEPT !.at = "reply"]
<1>2. /\ t \in DialType /\ r \in DialType
      /\ d.driver # "open" => Fits(t, FALSE, accepted)
      /\ d.driver # "open" /\ d.tunnel # "open" /\ d.at = "unwind" => Fits(r, FALSE, accepted)
  <2>0. d \in DialType /\ Fits(d, i = live, accepted) /\ d.at \in {"unwind", "closing"}
    BY <1>1
  <2> HIDE DEF d
  <2>1. /\ t \in DialType /\ t.tunnel = "closed" /\ t.at = d.at /\ t.driver = d.driver /\ t.reg = d.reg
        /\ t.kind = d.kind /\ t.err = d.err
    BY <2>0 DEF DialType
  <2>2. /\ r \in DialType /\ r.at = "reply" /\ r.tunnel = d.tunnel /\ r.driver = d.driver /\ r.reg = d.reg
        /\ r.kind = d.kind /\ r.err = d.err /\ r.key = d.key
    BY <2>0 DEF DialType
  <2>3. d.driver # "open" => Fits(t, FALSE, accepted)
    BY <2>0, <2>1 DEF Fits
  <2>4. d.driver # "open" /\ d.tunnel # "open" /\ d.at = "unwind" => Fits(r, FALSE, accepted)
    BY <2>0, <2>2 DEF Fits
  <2> QED
    BY <2>1, <2>2, <2>3, <2>4
<1>3. closeDriver(d) \in DialType /\ Fits(closeDriver(d), FALSE, accepted)
  BY <1>1, ClosedIs DEF Fits
<1>4. /\ Gone(d) \in DialType
      /\ d.driver # "open" /\ d.tunnel # "open" => Fits(Gone(d), FALSE, accepted)
  BY <1>1, GoneIs DEF Fits
<1>5. PICK e : /\ dials' = [dials EXCEPT ![i] = e]
               /\ \/ e = closeDriver(d)
                  \/ d.driver # "open" /\ e = t
                  \/ d.driver # "open" /\ d.tunnel # "open" /\ d.at = "unwind" /\ e = r
                  \/ d.driver # "open" /\ d.tunnel # "open" /\ e = Gone(d)
  BY DEF closeSession
<1>6. e \in DialType /\ Fits(e, FALSE, accepted) /\ d.at # "held"
  BY <1>1, <1>2, <1>3, <1>4, <1>5
<1> QED
  BY <1>5, <1>6 DEF DialShapes, Works

\* A new dial holds nothing yet.
LEMMA DialIs ==
  ASSUME NEW r \in Rows \cup {""}, NEW kind \in {"connect", "test", "restore"}, NEW secret \in BOOLEAN,
         NEW keys
  PROVE  Dial(r, kind, secret) \in DialType /\ Fits(Dial(r, kind, secret), FALSE, keys)
<1> DEFINE ssh == findConn(r) = "ssh"
           at == IF ssh THEN "tunnel" ELSE "driver"
           d == [row |-> r, kind |-> kind, secret |-> secret, at |-> at, ssh |-> ssh, tunnel |-> "none",
                 driver |-> "none", reg |-> FALSE, err |-> "none", key |-> 0]
<1>1. ssh \in BOOLEAN /\ at \in {"tunnel", "driver"} /\ Dial(r, kind, secret) = d
  BY DEF Dial
<1> HIDE DEF ssh, at
<1>2. d \in DialType /\ Fits(d, FALSE, keys)
  BY <1>1 DEF DialType, Fits
<1> QED
  BY <1>1, <1>2

\* A key or an answer that dials.
LEMMA RedialShape ==
  ASSUME NEW r \in Rows \cup {""}, NEW kind \in {"connect", "test", "restore"}, NEW secret \in BOOLEAN,
         Redial(r, kind, secret), UNCHANGED live
  PROVE  DialShapes
<1>1. Dial(r, kind, secret) \in DialType /\ Fits(Dial(r, kind, secret), FALSE, accepted)
  BY DialIs
<1> QED
  BY <1>1 DEF Redial, DialShapes, Starts

\* Every step has one of these shapes.
LEMMA StepShapes ==
  ASSUME ConnInv, [ConnNext]_connVars
  PROVE  DialShapes
<1>1. CASE UNCHANGED <<dials, live>>
  BY <1>1 DEF DialShapes
<1>2. ASSUME NEW i \in DOMAIN dials, UNCHANGED live,
             openTunnel(i) \/ openDriver(i) \/ listDatabases(i) \/ closeSession(i)
      PROVE  DialShapes
  BY <1>2, TunnelShape, DriverShape, ListShape, CloseShape
<1>3. CASE DialStep
  BY <1>2, <1>3 DEF DialStep, sessVars
<1>4. ASSUME NEW r \in Rows, NEW kind \in {"connect", "test"}, dialSelected(r, kind)
      PROVE  DialShapes
  BY <1>1, <1>4, RedialShape DEF dialSelected, sessVars
<1>5. ASSUME NEW r \in Rows, openEphemeral(r)
      PROVE  DialShapes
  BY <1>5, RedialShape DEF openEphemeral, sessVars
<1>6. CASE RemoveRow
  BY <1>1, <1>6 DEF RemoveRow, Leave, Leaves, DialShapes, sessVars
<1>7. CASE restoreStart \/ AnswerSecret \/ AcceptHostKey
  <2>1. restoring \in Rows \cup {""} /\ prompt \in PromptType
    BY DEF ConnInv, ConnTypeOK
  <2>2. prompt.row \in Rows \cup {""} /\ prompt.dial \in {"connect", "test", "restore"}
        /\ (prompt.kind = "secret") \in BOOLEAN
    BY <2>1 DEF PromptType
  <2>3. CASE restoreStart
    BY <1>1, <2>1, <2>3, RedialShape DEF restoreStart, sessVars
  <2>4. CASE AnswerSecret
    BY <2>2, <2>4, RedialShape DEF AnswerSecret, sessVars
  <2>5. CASE AcceptHostKey
    BY <2>2, <2>5, RedialShape DEF AcceptHostKey, sessVars
  <2> QED
    BY <1>7, <2>3, <2>4, <2>5
<1>8. CASE disconnectActive
  BY <1>8 DEF disconnectActive, Leave, Leaves, DialShapes
<1>9. ASSUME NEW i \in DOMAIN dials, connTested(i) \/ connectFailed(i)
      PROVE  DialShapes
  <2>1. dials[i] \in DialType /\ Fits(dials[i], i = live, accepted) /\ dials[i].at = "reply"
        /\ (dials[i].err # "none" \/ dials[i].kind = "test")
    BY <1>9, DialsTyped DEF connTested, connectFailed, Reply
  <2>2. Gone(dials[i]) \in DialType /\ Fits(Gone(dials[i]), FALSE, accepted)
    BY <2>1, GoneIs DEF Fits
  <2>3. Works(i, Gone(dials[i]))
    BY <1>9, <2>1, <2>2 DEF connTested, connectFailed, Works, sessVars
  <2> QED
    BY <2>2, <2>3 DEF DialShapes
<1>10. ASSUME NEW i \in DOMAIN dials, restoreRefused(i)
       PROVE  DialShapes
  <2> DEFINE d == [dials[i] EXCEPT !.at = "closing"]
  <2>1. dials[i] \in DialType /\ Fits(dials[i], i = live, accepted) /\ dials[i].at = "reply"
    BY <1>10, DialsTyped DEF restoreRefused, Reply
  <2>2. d \in DialType /\ Fits(d, FALSE, accepted)
    BY <2>1 DEF DialType, Fits
  <2>3. dials' = [dials EXCEPT ![i] = d] /\ UNCHANGED live
    BY <1>10 DEF restoreRefused, sessVars
  <2> HIDE DEF d
  <2> QED
    BY <2>1, <2>2, <2>3 DEF Works, DialShapes
<1>11. ASSUME NEW i \in DOMAIN dials, connected(i)
       PROVE  DialShapes
  <2>1. Lands(i)
    BY <1>11 DEF connected, Lands, Reply
  <2> QED
    BY <2>1 DEF DialShapes
<1>12. CASE quit
  <2>1. CASE live = 0
    BY <1>12, <2>1 DEF quit, Quits, DialShapes
  <2>2. CASE live # 0
    <3> DEFINE c == closeDriver(dials[live])
               tunnel == IF c.tunnel = "open" THEN "closed" ELSE c.tunnel
               d == [c EXCEPT !.tunnel = tunnel]
    <3>1. dials[live] \in DialType
      BY <2>2, DialsTyped
    <3>2. c \in DialType /\ c.driver = "closed" /\ ~c.reg
      BY <3>1, ClosedIs
    <3>3. tunnel \in {"none", "closed"}
      BY <3>2 DEF DialType
    <3>4. dials' = <<Gone(d)>> /\ live' = 0
      BY <1>12, <2>2 DEF quit
    <3> HIDE DEF c, tunnel
    <3>5. d \in DialType /\ d.driver = "closed" /\ ~d.reg /\ d.tunnel # "open"
      BY <3>2, <3>3 DEF DialType
    <3> HIDE DEF d
    <3>6. Gone(d) \in DialType /\ Fits(Gone(d), FALSE, {})
      BY <3>5, GoneIs
    <3> QED
      BY <3>4, <3>6 DEF Quits, DialShapes
  <2> QED
    BY <2>1, <2>2
<1>13. ASSUME \/ \E old \in Rows \cup {""}, new \in Rows, kind \in Kinds \ {"ask"} : SaveProfile(old, new, kind)
              \/ \E r \in Rows : AskRemove(r)
              \/ Dismiss \/ CancelRestore \/ KeyChanges
              \/ \E l \in loads : relationsLoaded(l) \/ pageLoaded(l)
              \/ UNCHANGED connVars
       PROVE  UNCHANGED <<dials, live>>
  BY <1>13 DEF SaveProfile, AskRemove, Dismiss, CancelRestore, KeyChanges, relationsLoaded, pageLoaded,
     connVars, sessVars
<1> QED
  BY <1>1, <1>3, <1>4, <1>5, <1>6, <1>7, <1>8, <1>9, <1>10, <1>11, <1>12, <1>13 DEF ConnNext

-----------------------------------------------------------------------------
(* The dials and the session.                                              *)

\* A closed session is let go of, every other dial stays as it was.
LEMMA ClosingIs ==
  ASSUME ConnInv
  PROVE  /\ Closing(dials) \in [1..Len(dials) -> DialType]
         /\ \A i \in DOMAIN dials : Fits(Closing(dials)[i], FALSE, accepted)
         /\ \A i \in DOMAIN dials : i # live => Closing(dials)[i] = dials[i]
<1>1. /\ DOMAIN dials = 1..Len(dials) /\ dials \in [1..Len(dials) -> DialType]
      /\ \A i \in DOMAIN dials : dials[i] \in DialType /\ Fits(dials[i], i = live, accepted)
      /\ live # 0 => live \in DOMAIN dials
  BY DialsTyped
<1>2. CASE live = 0
  <2>1. \A i \in DOMAIN dials : i # live
    BY <1>1, <1>2
  <2> QED
    BY <1>1, <1>2, <2>1 DEF Closing
<1>3. CASE live # 0
  <2> DEFINE d == [dials[live] EXCEPT !.at = "closing"]
  <2>1. d \in DialType /\ Fits(d, FALSE, accepted)
    BY <1>1, <1>3 DEF DialType, Fits
  <2>2. Closing(dials) = [dials EXCEPT ![live] = d]
    BY <1>3 DEF Closing
  <2> HIDE DEF d
  <2>3. Closing(dials) \in [1..Len(dials) -> DialType]
    BY <1>1, <1>3, <2>1, <2>2
  <2>4. \A i \in DOMAIN dials : i # live => Closing(dials)[i] = dials[i]
    BY <1>1, <2>2
  <2>5. Closing(dials)[live] = d
    BY <1>1, <1>3, <2>2
  <2> QED
    BY <1>1, <2>1, <2>3, <2>4, <2>5
<1> QED
  BY <1>2, <1>3

\* Functions over 1..n are sequences.
LEMMA FunctionIsSeq ==
  ASSUME NEW S, NEW n \in Nat, NEW t \in [1..n -> S]
  PROVE  t \in Seq(S) /\ Len(t) = n /\ DOMAIN t = 1..n
  OBVIOUS

\* What was trusted stays so, and with it what fits.
LEMMA KeysGrow ==
  ASSUME NEW d, NEW mine, NEW more, accepted \subseteq more, Fits(d, mine, accepted)
  PROVE  Fits(d, mine, more)
  BY DEF Fits

\* The dials stay dials, and one of them the session.
DialsKept ==
  /\ dials' \in Seq(DialType) /\ live' \in 0 .. Len(dials')
  /\ \A i \in DOMAIN dials' : Fits(dials'[i], i = live', accepted')

\* A step of one of the shapes leaves every dial what it is allowed to be.
LEMMA DialsKeep ==
  ASSUME ConnInv, DialShapes, accepted \subseteq accepted'
  PROVE  DialsKept
<1>1. /\ Len(dials) \in Nat /\ DOMAIN dials = 1..Len(dials) /\ dials \in [1..Len(dials) -> DialType]
      /\ \A i \in DOMAIN dials : dials[i] \in DialType /\ Fits(dials[i], i = live, accepted)
      /\ live \in 0 .. Len(dials) /\ dials \in Seq(DialType)
  BY DialsTyped DEF ConnInv, ConnTypeOK
<1>2. ASSUME NEW f \in [1..Len(dials) -> DialType], dials' = f, NEW l \in 0 .. Len(dials), live' = l,
             \A i \in 1..Len(dials) : Fits(f[i], i = l, accepted)
      PROVE  DialsKept
  <2>1. f \in Seq(DialType) /\ Len(f) = Len(dials) /\ DOMAIN f = 1..Len(dials)
    BY <1>1, FunctionIsSeq
  <2>2. \A i \in 1..Len(dials) : Fits(f[i], i = l, accepted')
    BY <1>2, KeysGrow
  <2> QED
    BY <1>2, <2>1, <2>2 DEF DialsKept
<1>3. CASE UNCHANGED <<dials, live>>
  BY <1>1, <1>2, <1>3
<1>4. ASSUME NEW i \in DOMAIN dials, NEW e \in DialType, Works(i, e)
      PROVE  DialsKept
  <2> DEFINE f == [dials EXCEPT ![i] = e]
  <2>1. f \in [1..Len(dials) -> DialType] /\ dials' = f /\ live' = live
    BY <1>1, <1>4 DEF Works
  <2>2. i # live
    BY <1>1, <1>4 DEF Works, Fits
  <2>3. \A k \in 1..Len(dials) : f[k] = IF k = i THEN e ELSE dials[k]
    BY <1>1
  <2> HIDE DEF f
  <2>4. \A k \in 1..Len(dials) : Fits(f[k], k = live, accepted)
    <3> SUFFICES ASSUME NEW k \in 1..Len(dials) PROVE Fits(f[k], k = live, accepted)
      OBVIOUS
    <3>1. CASE k = i
      BY <1>4, <2>2, <2>3, <3>1 DEF Works, Fits
    <3>2. CASE k # i
      BY <1>1, <2>3, <3>2
    <3> QED
      BY <3>1, <3>2
  <2> QED
    BY <1>1, <1>2, <2>1, <2>4
<1>5. ASSUME NEW e \in DialType, Starts(e)
      PROVE  DialsKept
  <2> DEFINE n == Len(dials) + 1
  <2>1. /\ dials' \in Seq(DialType) /\ Len(dials') = n /\ DOMAIN dials' = 1..n /\ dials'[n] = e
        /\ \A i \in 1..Len(dials) : dials'[i] = dials[i]
    BY <1>1, <1>5 DEF Starts
  <2>2. live' \in 0 .. Len(dials') /\ live' = live /\ n # live
    BY <1>1, <1>5, <2>1 DEF Starts
  <2>3. Fits(dials'[n], n = live', accepted')
    <3>1. Fits(e, n = live', accepted)
      BY <1>5, <2>2 DEF Starts, Fits
    <3> QED
      BY <2>1, <3>1, KeysGrow
  <2>4. \A i \in 1..Len(dials) : Fits(dials'[i], i = live', accepted')
    BY <1>1, <2>1, <2>2, KeysGrow
  <2> QED
    BY <1>1, <2>1, <2>2, <2>3, <2>4 DEF DialsKept
<1>6. CASE Leaves
  <2>1. \A i \in 1..Len(dials) : i # 0 /\ Fits(Closing(dials)[i], i = 0, accepted)
    <3> SUFFICES ASSUME NEW i \in 1..Len(dials) PROVE i # 0 /\ Fits(Closing(dials)[i], i = 0, accepted)
      OBVIOUS
    <3>1. i # 0 /\ i \in DOMAIN dials
      BY <1>1
    <3>2. Fits(Closing(dials)[i], FALSE, accepted)
      BY <3>1, ClosingIs
    <3> QED
      BY <3>1, <3>2 DEF Fits
  <2> QED
    BY <1>1, <1>2, <1>6, <2>1, ClosingIs DEF Leaves
<1>7. ASSUME NEW i \in DOMAIN dials, Lands(i)
      PROVE  DialsKept
  <2>1. i # live /\ Closing(dials)[i] = dials[i] /\ dials[i].at = "reply"
        /\ (dials[i].err = "none" /\ dials[i].kind # "test")
    <3>1. i # live /\ dials[i].at = "reply" /\ dials[i].err = "none" /\ dials[i].kind # "test"
      BY <1>1, <1>7 DEF Lands, Fits
    <3> QED
      BY <3>1, ClosingIs
  <2> DEFINE d == [dials[i] EXCEPT !.at = "held"]
             f == [Closing(dials) EXCEPT ![i] = d]
  <2>2. d \in DialType /\ Fits(d, TRUE, accepted)
    <3>1. dials[i] \in DialType /\ Fits(dials[i], FALSE, accepted)
      BY <1>1, <2>1 DEF Fits
    <3> QED
      BY <2>1, <3>1 DEF DialType, Fits
  <2>3. dials' = f /\ live' = i
    BY <1>1, <1>7, <2>1, ClosingIs DEF Lands, Adopted
  <2> HIDE DEF d
  <2>4. f \in [1..Len(dials) -> DialType]
    BY <1>1, <2>2, ClosingIs
  <2>5. \A k \in 1..Len(dials) : f[k] = IF k = i THEN d ELSE Closing(dials)[k]
    BY <1>1, ClosingIs
  <2> HIDE DEF f
  <2>6. \A k \in 1..Len(dials) : Fits(f[k], k = i, accepted)
    <3> SUFFICES ASSUME NEW k \in 1..Len(dials) PROVE Fits(f[k], k = i, accepted)
      OBVIOUS
    <3>1. CASE k = i
      BY <2>2, <2>5, <3>1 DEF Fits
    <3>2. CASE k # i
      <4>1. Fits(Closing(dials)[k], FALSE, accepted)
        BY <1>1, ClosingIs
      <4> QED
        BY <2>5, <3>2, <4>1 DEF Fits
    <3> QED
      BY <3>1, <3>2
  <2> QED
    BY <1>1, <1>2, <2>3, <2>4, <2>6
<1>8. CASE Quits
  <2>1. CASE dials' = <<>>
    BY <1>8, <2>1 DEF Quits, DialsKept
  <2>2. ASSUME NEW e \in DialType, dials' = <<e>>, Fits(e, FALSE, {})
        PROVE  DialsKept
    <3>1. dials' \in Seq(DialType) /\ Len(dials') = 1 /\ DOMAIN dials' = {1} /\ dials'[1] = e
      BY <2>2
    <3>2. Fits(e, FALSE, accepted')
      BY <2>2 DEF Fits
    <3> QED
      BY <1>8, <3>1, <3>2 DEF Quits, DialsKept, Fits
  <2> QED
    BY <1>8, <2>1, <2>2 DEF Quits
<1> QED
  BY <1>3, <1>4, <1>5, <1>6, <1>7, <1>8 DEF DialShapes

-----------------------------------------------------------------------------
(* A restore that was given up.                                            *)

\* What a step does to the restore, when it does not come to the session.
Forgets ==
  \/ UNCHANGED abandoned /\ restoring' \in {restoring, ""}
  \/ /\ abandoned' = (live = 0 \/ dials[live].kind # "restore") /\ restoring' = ""
     /\ UNCHANGED <<dials, live>>

\* Every step leaves the restore, ends it, or gives it up where it is.
LEMMA RestoreShapes ==
  ASSUME ConnInv, [ConnNext]_connVars
  PROVE  Forgets
<1>1. CASE DialStep \/ quit \/ RemoveRow \/ AnswerSecret \/ AcceptHostKey \/ disconnectActive \/ KeyChanges
  BY <1>1 DEF DialStep, quit, RemoveRow, AnswerSecret, AcceptHostKey, disconnectActive, KeyChanges, Forgets
<1>2. CASE \E old \in Rows \cup {""}, new \in Rows, kind \in Kinds \ {"ask"} : SaveProfile(old, new, kind)
  BY <1>2 DEF SaveProfile, Forgets
<1>3. CASE \/ \E r \in Rows, kind \in {"connect", "test"} : dialSelected(r, kind)
           \/ \E r \in Rows : AskRemove(r) \/ openEphemeral(r)
           \/ restoreStart
  BY <1>3 DEF dialSelected, AskRemove, openEphemeral, restoreStart, Forgets
<1>4. CASE Dismiss \/ CancelRestore
  BY <1>4 DEF Dismiss, CancelRestore, sessVars, Forgets
<1>5. CASE \E i \in DOMAIN dials : connTested(i) \/ connectFailed(i) \/ restoreRefused(i) \/ connected(i)
  BY <1>5 DEF connTested, connectFailed, restoreRefused, connected, Forgets
<1>6. CASE \E l \in loads : relationsLoaded(l) \/ pageLoaded(l)
  BY <1>6 DEF relationsLoaded, pageLoaded, Forgets
<1>7. CASE UNCHANGED connVars
  BY <1>7 DEF connVars, Forgets
<1> QED
  BY <1>1, <1>2, <1>3, <1>4, <1>5, <1>6, <1>7 DEF ConnNext

\* No step brings it back.
LEMMA RestoreKeeps ==
  ASSUME ConnInv, [ConnNext]_connVars
  PROVE  RestoreInv'
<1>1. /\ Len(dials) \in Nat /\ DOMAIN dials = 1..Len(dials) /\ dials \in [1..Len(dials) -> DialType]
      /\ \A i \in DOMAIN dials : dials[i] \in DialType /\ Fits(dials[i], i = live, accepted)
      /\ live # 0 => live \in DOMAIN dials
      /\ abandoned => restoring = "" /\ (live # 0 => dials[live].kind # "restore")
  BY DialsTyped DEF ConnInv, RestoreInv, StaysAbandoned
<1>2. Forgets /\ DialShapes
  BY RestoreShapes, StepShapes
<1>3. (abandoned => restoring = "")'
  BY <1>1, <1>2 DEF Forgets
<1>4. CASE UNCHANGED <<dials, live>>
  <2>1. dials' = dials /\ live' = live
    BY <1>4
  <2>2. abandoned' /\ live # 0 => dials[live].kind # "restore"
    BY <1>1, <1>2 DEF Forgets
  <2> QED
    BY <1>3, <2>1, <2>2 DEF RestoreInv, StaysAbandoned
<1>5. CASE ~UNCHANGED <<dials, live>>
  <2>1. UNCHANGED abandoned
    BY <1>2, <1>5 DEF Forgets
  <2>2. ASSUME NEW i \in DOMAIN dials, NEW e \in DialType, Works(i, e)
        PROVE  RestoreInv'
    <3>1. i # live
      BY <1>1, <2>2 DEF Works, Fits
    <3>2. live # 0 => dials'[live] = dials[live]
      BY <1>1, <2>2, <3>1 DEF Works
    <3> QED
      BY <1>1, <1>3, <2>1, <2>2, <3>2 DEF Works, RestoreInv, StaysAbandoned
  <2>3. ASSUME NEW e \in DialType, Starts(e)
        PROVE  RestoreInv'
    <3>1. live # 0 => dials'[live] = dials[live]
      <4>1. dials \in Seq(DialType)
        BY DEF ConnInv, ConnTypeOK
      <4>2. \A i \in 1..Len(dials) : dials'[i] = dials[i]
        BY <2>3, <4>1, AppendProperties DEF Starts
      <4> QED
        BY <1>1, <4>2
    <3> QED
      BY <1>1, <1>3, <2>1, <2>3, <3>1 DEF Starts, RestoreInv, StaysAbandoned
  <2>4. CASE Leaves \/ Quits
    BY <1>3, <2>4 DEF Leaves, Quits, RestoreInv, StaysAbandoned
  <2>5. ASSUME NEW i \in DOMAIN dials, Lands(i)
        PROVE  RestoreInv'
    <3>1. i # live /\ Closing(dials)[i] = dials[i]
      <4>1. i # live
        BY <1>1, <2>5 DEF Lands, Fits
      <4> QED
        BY <4>1, ClosingIs
    <3> DEFINE d == [dials[i] EXCEPT !.at = "held"]
    <3>2. dials'[i] = d
      BY <1>1, <2>5, <3>1, ClosingIs DEF Lands, Adopted
    <3>3. d.kind = dials[i].kind
      BY <1>1 DEF DialType
    <3>4. dials'[i].kind = dials[i].kind
      BY <3>2, <3>3
    <3> QED
      BY <1>1, <1>3, <2>1, <2>5, <3>4 DEF Lands, RestoreInv, StaysAbandoned
  <2> QED
    BY <1>2, <1>5, <2>2, <2>3, <2>4, <2>5 DEF DialShapes
<1> QED
  BY <1>4, <1>5

-----------------------------------------------------------------------------
(* The rows, the prompt and the keys.                                      *)

Colours == {"none", "pending", "ok", "idle", "error"}

\* Where a step recolours the rows, the colours go with the rows that are left.
LEMMA Recoloured ==
  ASSUME NEW st \in [Rows -> Colours], refreshConnections(st)
  PROVE  /\ status' \in [Rows -> Colours]
         /\ \A r \in Rows : status'[r] \in {st[r], "none"}
         /\ \A r \in Rows : status'[r] # "none" => saved'[r] # "none" \/ ephem' = r
  BY DEF refreshConnections, Colours

\* The edits keep to their bound.
LEMMA EditBound ==
  ASSUME edits \in 0 .. MaxEdits, MaxEdits \in Nat, Edit
  PROVE  edits' \in 0 .. MaxEdits
  BY DEF Edit

\* What a step may do to the rows: with no row recoloured, or with the
\* colours st.
RowsKept ==
  /\ saved' \in [Rows -> {"none"} \cup Kinds] /\ ephem' \in Rows \cup {""} /\ active' \in Rows \cup {""}
  /\ status' \in [Rows -> Colours]
  /\ edits' \in 0 .. MaxEdits
  /\ up' => \A r \in Rows :
       /\ status'[r] = "ok" => r = active'
       /\ status'[r] # "none" => saved'[r] # "none" \/ ephem' = r

\* Every step leaves each row its colour, or gives it one it may have.
LEMMA RowsKeep ==
  ASSUME ConnInv, [ConnNext]_connVars
  PROVE  RowsKept
<1>1. /\ saved \in [Rows -> {"none"} \cup Kinds] /\ ephem \in Rows \cup {""} /\ active \in Rows \cup {""}
      /\ status \in [Rows -> Colours]
      /\ edits \in 0 .. MaxEdits /\ MaxEdits \in Nat /\ "" \notin Rows
      /\ prompt.row \in Rows \cup {""} /\ restoring \in Rows \cup {""}
  BY ConnectionsBounds DEF ConnInv, ConnTypeOK, PromptType, Colours
<1>2. up => \A r \in Rows :
        /\ status[r] = "ok" => r = active
        /\ status[r] # "none" => saved[r] # "none" \/ ephem = r
  BY DEF ConnInv, GreenIsLive, connNames
<1>3. \A i \in DOMAIN dials : dials[i].row \in Rows \cup {""}
  BY DialsTyped DEF DialType
<1>4. ASSUME saved' \in [Rows -> {"none"} \cup Kinds], ephem' \in Rows \cup {""}, active' \in Rows \cup {""},
             edits' \in 0 .. MaxEdits,
             NEW st \in [Rows -> Colours], refreshConnections(st),
             \A r \in Rows : st[r] = "ok" => r = active'
      PROVE  RowsKept
  BY <1>4, Recoloured DEF RowsKept
<1>5. ASSUME saved' \in [Rows -> {"none"} \cup Kinds], ephem' \in Rows \cup {""}, active' \in Rows \cup {""},
             edits' \in 0 .. MaxEdits,
             NEW r \in Rows \cup {""}, NEW c \in Colours \ {"ok"}, refreshConnections(setConnStatus(r, c)),
             \A q \in Rows : q # r /\ status[q] = "ok" => q = active'
      PROVE  RowsKept
  <2> DEFINE st == [status EXCEPT ![r] = c]
  <2>1. st \in [Rows -> Colours] /\ \A q \in Rows : st[q] = IF q = r THEN c ELSE status[q]
    BY <1>1, <1>5
  <2>2. refreshConnections(st)
    BY <1>5 DEF setConnStatus
  <2> HIDE DEF st
  <2>3. \A q \in Rows : st[q] = "ok" => q = active'
    BY <1>5, <2>1
  <2> QED
    BY <1>4, <1>5, <2>1, <2>2, <2>3
<1>6. CASE UNCHANGED <<saved, ephem, status, edits, active, up>>
  BY <1>1, <1>2, <1>6 DEF RowsKept
<1>7. CASE \/ DialStep \/ restoreStart \/ AnswerSecret \/ AcceptHostKey \/ Dismiss \/ CancelRestore
           \/ \E r \in Rows : AskRemove(r)
           \/ \E i \in DOMAIN dials : restoreRefused(i)
           \/ \E l \in loads : relationsLoaded(l) \/ pageLoaded(l)
           \/ UNCHANGED connVars
  <2>1. UNCHANGED <<saved, ephem, status, edits, active, up>>
    BY <1>7 DEF DialStep, restoreStart, AnswerSecret, AcceptHostKey, Dismiss, CancelRestore, AskRemove,
       restoreRefused, relationsLoaded, pageLoaded, connVars, rowVars, sessVars
  <2> QED
    BY <1>6, <2>1
<1>8. CASE KeyChanges
  <2>1. UNCHANGED <<saved, ephem, status, active, up>>
    BY <1>8 DEF KeyChanges, sessVars
  <2>2. edits' \in 0 .. MaxEdits
    BY <1>1, <1>8, EditBound DEF KeyChanges
  <2> QED
    BY <1>1, <1>2, <2>1, <2>2 DEF RowsKept
<1>9. CASE quit
  BY <1>1, <1>9 DEF quit, RowsKept, rowVars
<1>10. ASSUME NEW old \in Rows \cup {""}, NEW new \in Rows, NEW kind \in Kinds \ {"ask"},
              SaveProfile(old, new, kind)
       PROVE  RowsKept
  <2> DEFINE st == IF old = "" \/ old = new THEN status
                   ELSE [status EXCEPT ![new] = IF status[old] = "none" THEN @ ELSE status[old],
                                       ![old] = "none"]
  <2>1. /\ saved' = [r \in Rows |-> IF r = new THEN kind ELSE IF r = old THEN "none" ELSE saved[r]]
        /\ ephem' = ephem /\ edits' \in 0 .. MaxEdits /\ up
        /\ refreshConnections(st)
        /\ active' = IF old # "" /\ active = old THEN new ELSE active
    <3>1. Edit => edits' \in 0 .. MaxEdits
      BY <1>1, EditBound
    <3> QED
      BY <1>10, <3>1 DEF SaveProfile, Free, renameConnState
  <2>2. saved' \in [Rows -> {"none"} \cup Kinds] /\ active' \in Rows \cup {""}
    BY <1>1, <1>10, <2>1
  <2>3. CASE old = "" \/ old = new
    <3>1. st = status
      BY <2>3
    <3>2. \A r \in Rows : status[r] = "ok" => r = active'
      BY <1>1, <1>2, <2>1, <2>3
    <3> QED
      BY <1>1, <1>4, <2>1, <2>2, <3>1, <3>2
  <2>4. CASE old # "" /\ old # new
    <3> DEFINE c == IF status[old] = "none" THEN status[new] ELSE status[old]
               t == [status EXCEPT ![new] = c, ![old] = "none"]
    <3>1. st = t /\ old \in Rows /\ c \in Colours
      BY <1>1, <2>4
    <3> HIDE DEF st
    <3>2. c = "ok" => new = active \/ old = active
      BY <1>2, <2>1, <3>1
    <3> HIDE DEF c
    <3>3. /\ t \in [Rows -> Colours]
          /\ \A r \in Rows : t[r] = IF r = old THEN "none" ELSE IF r = new THEN c ELSE status[r]
      BY <1>1, <2>4, <3>1 DEF Colours
    <3> HIDE DEF t
    <3>4. \A r \in Rows : t[r] = "ok" => r = active'
      BY <1>2, <2>1, <2>4, <3>2, <3>3
    <3> QED
      BY <1>1, <1>4, <2>1, <2>2, <3>1, <3>3, <3>4
  <2> QED
    BY <2>3, <2>4
<1>11. CASE RemoveRow
  <2>1. /\ saved' = [saved EXCEPT ![prompt.row] = "none"] /\ ephem' = ephem /\ Edit /\ up
        /\ refreshConnections(setConnStatus(prompt.row, "none"))
        /\ active' = IF active = prompt.row THEN "" ELSE active
    BY <1>11 DEF RemoveRow, Leave, sessVars
  <2>2. edits' \in 0 .. MaxEdits
    BY <1>1, <2>1, EditBound
  <2>3. saved' \in [Rows -> {"none"} \cup Kinds] /\ active' \in Rows \cup {""}
    BY <1>1, <2>1
  <2>4. \A q \in Rows : q # prompt.row /\ status[q] = "ok" => q = active'
    BY <1>2, <2>1
  <2> QED
    BY <1>1, <1>5, <2>1, <2>2, <2>3, <2>4 DEF Colours
<1>12. ASSUME NEW r \in Rows, openEphemeral(r)
       PROVE  RowsKept
  <2>1. /\ saved' = saved /\ ephem' = r /\ Edit /\ up /\ active' = active
        /\ refreshConnections(setConnStatus(r, "pending"))
    BY <1>12 DEF openEphemeral, Free, sessVars, setConnStatus
  <2>2. edits' \in 0 .. MaxEdits
    BY <1>1, <2>1, EditBound
  <2> QED
    BY <1>1, <1>2, <1>5, <2>1, <2>2 DEF Colours
<1>13. ASSUME NEW r \in Rows, NEW kind \in {"connect", "test"}, dialSelected(r, kind)
       PROVE  RowsKept
  <2>1. /\ UNCHANGED <<saved, ephem, edits, active, up>> /\ r \in connNames /\ up
        /\ status' \in {status, setConnStatus(r, "pending")}
    BY <1>13 DEF dialSelected, Free, sessVars
  <2>2. CASE status' = status
    BY <1>1, <1>2, <2>1, <2>2 DEF RowsKept
  <2>3. CASE status' = setConnStatus(r, "pending")
    <3>1. saved[r] # "none" \/ ephem = r
      BY <2>1 DEF connNames
    <3>2. status' \in [Rows -> Colours] /\ \A q \in Rows : status'[q] = IF q = r THEN "pending" ELSE status[q]
      BY <1>1, <2>3 DEF setConnStatus, Colours
    <3> QED
      BY <1>1, <1>2, <2>1, <3>1, <3>2 DEF RowsKept
  <2> QED
    BY <2>1, <2>2, <2>3
<1>14. CASE disconnectActive
  <2>1. /\ saved' = saved /\ ephem' \in {"", ephem} /\ edits' = edits /\ up /\ active' = "" /\ active \in Rows
        /\ refreshConnections(setConnStatus(active, "idle"))
    BY <1>14 DEF disconnectActive, Leave, Free, connNames
  <2> QED
    BY <1>1, <1>2, <1>5, <2>1 DEF Colours
<1>15. ASSUME NEW i \in DOMAIN dials, connTested(i)
       PROVE  RowsKept
  <2>1. /\ UNCHANGED <<saved, ephem, edits, active>> /\ up
        /\ \/ refreshConnections(setConnStatus(dials[i].row, "error"))
           \/ refreshConnections(setConnStatus(dials[i].row, "idle"))
           \/ refreshConnections(status)
    BY <1>15 DEF connTested, Reply, sessVars
  <2>2. CASE refreshConnections(status)
    BY <1>1, <1>2, <1>4, <2>1, <2>2
  <2>3. CASE refreshConnections(setConnStatus(dials[i].row, "error"))
    BY <1>1, <1>2, <1>3, <1>5, <2>1, <2>3 DEF Colours
  <2>4. CASE refreshConnections(setConnStatus(dials[i].row, "idle"))
    BY <1>1, <1>2, <1>3, <1>5, <2>1, <2>4 DEF Colours
  <2> QED
    BY <2>1, <2>2, <2>3, <2>4
<1>16. ASSUME NEW i \in DOMAIN dials, connectFailed(i)
       PROVE  RowsKept
  <2>1. /\ UNCHANGED <<saved, ephem, edits, active, up>> /\ up
        /\ status' = status \/ refreshConnections(setConnStatus(dials[i].row, "error"))
    BY <1>16 DEF connectFailed, Reply, sessVars
  <2>2. CASE status' = status
    BY <1>6, <2>1, <2>2
  <2>3. CASE refreshConnections(setConnStatus(dials[i].row, "error"))
    BY <1>1, <1>2, <1>3, <1>5, <2>1, <2>3 DEF Colours
  <2> QED
    BY <2>1, <2>2, <2>3
<1>17. ASSUME NEW i \in DOMAIN dials, connected(i)
       PROVE  RowsKept
  <2> DEFINE row == dials[i].row
             before == IF active # "" /\ active # row THEN setConnStatus(active, "idle") ELSE status
             st == [before EXCEPT ![row] = "ok"]
  <2>1. UNCHANGED <<saved, ephem, edits>> /\ up /\ active' = row /\ refreshConnections(st)
    BY <1>17 DEF connected, Reply
  <2>2. before \in [Rows -> Colours] /\ \A r \in Rows : before[r] = "ok" => r = row
    <3>1. CASE active # "" /\ active # row
      BY <1>1, <1>2, <2>1, <3>1 DEF setConnStatus, Colours
    <3>2. CASE ~(active # "" /\ active # row)
      BY <1>1, <1>2, <2>1, <3>2
    <3> QED
      BY <3>1, <3>2
  <2>3. row \in Rows \cup {""}
    BY <1>3
  <2> HIDE DEF before, row
  <2>4. st \in [Rows -> Colours] /\ \A r \in Rows : st[r] = "ok" => r = row
    BY <2>2, <2>3 DEF Colours
  <2> HIDE DEF st
  <2> QED
    BY <1>1, <1>4, <2>1, <2>3, <2>4
<1> QED
  BY <1>7, <1>8, <1>9, <1>10, <1>11, <1>12, <1>13, <1>14, <1>15, <1>16, <1>17 DEF ConnNext

\* The prompt, the restore and the listings keep their types.
ShellKept ==
  /\ prompt' \in PromptType /\ restoring' \in Rows \cup {""}
  /\ loads' \subseteq [row : Rows \cup {""}, what : {"tables", "page"}]
  /\ abandoned' \in BOOLEAN /\ up' \in BOOLEAN

\* Every step leaves the prompt, the restore and the listings their types.
LEMMA ShellKeeps ==
  ASSUME ConnInv, [ConnNext]_connVars
  PROVE  ShellKept
<1>1. /\ prompt \in PromptType /\ restoring \in Rows \cup {""} /\ up \in BOOLEAN
      /\ loads \subseteq [row : Rows \cup {""}, what : {"tables", "page"}] /\ abandoned \in BOOLEAN
      /\ active \in Rows \cup {""} /\ HostKeys # {}
  BY ConnectionsBounds DEF ConnInv, ConnTypeOK
<1>2. restoring' \in Rows \cup {""} /\ abandoned' \in BOOLEAN
  BY <1>1, RestoreShapes DEF Forgets
<1>3. \A i \in DOMAIN dials : dials[i] \in DialType /\ dials[i].row \in Rows \cup {""}
  BY DialsTyped DEF DialType
<1>4. NoPrompt \in PromptType
  BY DEF NoPrompt, PromptType
<1>5. ASSUME NEW r \in Rows \cup {""}, NEW d \in {"connect", "test", "restore"},
             NEW k \in {"start", "remove", "password", "info"}
      PROVE  /\ [NoPrompt EXCEPT !.kind = k, !.row = r, !.dial = d] \in PromptType
             /\ [NoPrompt EXCEPT !.kind = k, !.row = r] \in PromptType
             /\ [NoPrompt EXCEPT !.kind = k] \in PromptType
  BY DEF NoPrompt, PromptType
<1>6. ASSUME NEW i \in DOMAIN dials PROVE sshFailureModal(dials[i]) \in PromptType
  <2> DEFINE d == dials[i]
             ask == [kind |-> "hostkey", row |-> d.row, dial |-> d.kind, key |-> d.key]
             again == [kind |-> "secret", row |-> d.row, dial |-> d.kind, key |-> 0]
  <2>1. ask \in PromptType /\ again \in PromptType
    BY <1>3 DEF PromptType, DialType
  <2>2. [NoPrompt EXCEPT !.kind = "info"] \in PromptType
    BY <1>4 DEF PromptType
  <2>3. sshFailureModal(d) \in {ask, again, prompt, [NoPrompt EXCEPT !.kind = "info"]}
    BY DEF sshFailureModal
  <2> HIDE DEF ask, again
  <2> QED
    BY <1>1, <2>1, <2>2, <2>3
<1>7. CASE \/ DialStep \/ KeyChanges \/ disconnectActive
           \/ \E old \in Rows \cup {""}, new \in Rows, kind \in Kinds \ {"ask"} : SaveProfile(old, new, kind)
           \/ \E r \in Rows : openEphemeral(r)
           \/ UNCHANGED connVars
  <2>1. UNCHANGED <<prompt, loads, up>>
    BY <1>7 DEF DialStep, KeyChanges, disconnectActive, SaveProfile, openEphemeral, connVars, sessVars, Leave
  <2> QED
    BY <1>1, <1>2, <2>1 DEF ShellKept
<1>8. CASE quit \/ RemoveRow \/ AnswerSecret \/ AcceptHostKey \/ Dismiss \/ CancelRestore
  <2>1. prompt' \in {prompt, NoPrompt} /\ loads' \subseteq loads /\ up' \in BOOLEAN
    BY <1>1, <1>8 DEF quit, RemoveRow, AnswerSecret, AcceptHostKey, Dismiss, CancelRestore, sessVars, Leave
  <2> QED
    BY <1>1, <1>2, <1>4, <2>1 DEF ShellKept
<1>9. CASE restoreStart
  <2>1. prompt' \in PromptType
    BY <1>1, <1>4, <1>5, <1>9 DEF restoreStart
  <2> QED
    BY <1>1, <1>2, <1>9, <2>1 DEF restoreStart, sessVars, ShellKept
<1>10. ASSUME NEW r \in Rows, AskRemove(r)
       PROVE  ShellKept
  BY <1>1, <1>2, <1>5, <1>10 DEF AskRemove, sessVars, ShellKept
<1>11. ASSUME NEW r \in Rows, NEW kind \in {"connect", "test"}, dialSelected(r, kind)
       PROVE  ShellKept
  <2>1. prompt' \in PromptType
    <3>1. prompt' \in {prompt, [NoPrompt EXCEPT !.kind = "password", !.row = r, !.dial = kind]}
      BY <1>11 DEF dialSelected
    <3>2. [NoPrompt EXCEPT !.kind = "password", !.row = r, !.dial = kind] \in PromptType
      BY <1>5
    <3> QED
      BY <1>1, <3>1, <3>2
  <2> QED
    BY <1>1, <1>2, <1>11, <2>1 DEF dialSelected, sessVars, ShellKept
<1>12. ASSUME NEW i \in DOMAIN dials, connTested(i) \/ connectFailed(i) \/ restoreRefused(i)
       PROVE  ShellKept
  <2>1. sshFailureModal(dials[i]) \in PromptType
    BY <1>6
  <2>2. prompt' \in PromptType /\ UNCHANGED <<loads, up>>
    BY <1>1, <1>12, <2>1 DEF connTested, connectFailed, restoreRefused, sessVars
  <2> QED
    BY <1>1, <1>2, <2>2 DEF ShellKept
<1>13. ASSUME NEW i \in DOMAIN dials, connected(i)
       PROVE  ShellKept
  <2>1. [row |-> dials[i].row, what |-> "tables"] \in [row : Rows \cup {""}, what : {"tables", "page"}]
    BY <1>3
  <2>2. UNCHANGED <<prompt, up>>
        /\ (loads' = loads \/ loads' = loads \cup {[row |-> dials[i].row, what |-> "tables"]})
    BY <1>13 DEF connected
  <2> QED
    BY <1>1, <1>2, <2>1, <2>2 DEF ShellKept
<1>14. ASSUME NEW l \in loads, relationsLoaded(l) \/ pageLoaded(l)
       PROVE  ShellKept
  <2>1. [row |-> l.row, what |-> "page"] \in [row : Rows \cup {""}, what : {"tables", "page"}]
    BY <1>1
  <2>2. UNCHANGED <<prompt, up>>
        /\ (loads' \subseteq loads \/ loads' = (loads \ {l}) \cup {[row |-> l.row, what |-> "page"]})
    BY <1>14 DEF relationsLoaded, pageLoaded
  <2> QED
    BY <1>1, <1>2, <2>1, <2>2 DEF ShellKept
<1> QED
  BY <1>7, <1>8, <1>9, <1>10, <1>11, <1>12, <1>13, <1>14 DEF ConnNext

\* A key is trusted when it was in the file, or when the user said so.
KeysKept ==
  /\ hostKey' \in HostKeys /\ known' \subseteq accepted'
  /\ accepted \subseteq accepted' /\ accepted' \subseteq HostKeys \cup {0}

\* Every step leaves the file with what was trusted only.
LEMMA KeysKeep ==
  ASSUME ConnInv, [ConnNext]_connVars
  PROVE  KeysKept
<1>1. /\ hostKey \in HostKeys /\ known \subseteq accepted /\ accepted \subseteq HostKeys \cup {0}
      /\ prompt.key \in HostKeys \cup {0}
  BY DEF ConnInv, ConnTypeOK, PromptType
<1>2. CASE UNCHANGED keyVars
  BY <1>1, <1>2 DEF keyVars, KeysKept
<1>3. CASE AcceptHostKey
  BY <1>1, <1>3 DEF AcceptHostKey, KeysKept
<1>4. CASE KeyChanges
  BY <1>1, <1>4 DEF KeyChanges, KeysKept
<1>5. ASSUME ConnNext, ~AcceptHostKey, ~KeyChanges
      PROVE  UNCHANGED keyVars
  BY <1>5 DEF ConnNext, DialStep, SaveProfile, dialSelected, AskRemove, openEphemeral, RemoveRow, restoreStart,
     AnswerSecret, Dismiss, CancelRestore, disconnectActive, quit, connTested, connectFailed,
     restoreRefused, connected, relationsLoaded, pageLoaded
<1> QED
  BY <1>2, <1>3, <1>4, <1>5 DEF connVars, keyVars

-----------------------------------------------------------------------------
\* Nothing is dialled at first, and a restore is not given up.
LEMMA ConnInitInv == ConnInit => ConnInv
<1> SUFFICES ASSUME ConnInit PROVE ConnInv
  OBVIOUS
<1>0. dials = <<>> /\ edits = 0 /\ live = 0
  BY DEF ConnInit
<1>1. Len(dials) = 0 /\ DOMAIN dials = {} /\ dials \in Seq(DialType)
  BY <1>0
<1>2. saved \in [Rows -> {"none"} \cup Kinds] /\ restoring \in Rows \cup {""}
  BY DEF ConnInit, Kinds
<1>3. prompt \in PromptType
  BY <1>2 DEF ConnInit, NoPrompt, PromptType
<1>4. status \in [Rows -> {"none", "pending", "ok", "idle", "error"}] /\ \A r \in Rows : status[r] = "none"
  BY DEF ConnInit
<1>5. ConnTypeOK
  <2>1. edits \in 0 .. MaxEdits
    <3>1. MaxEdits \in Nat
      BY ConnectionsBounds
    <3>2. edits = 0
      BY <1>0
    <3> QED
      BY <3>1, <3>2
  <2>2. /\ active = "" /\ ephem = "" /\ loads = {} /\ hostKey \in HostKeys /\ known \subseteq HostKeys
        /\ accepted = known /\ abandoned \in BOOLEAN /\ up \in BOOLEAN
    BY DEF ConnInit
  <2> QED
    <3>1. live \in 0 .. Len(dials)
      BY <1>0, <1>1
    <3> QED
      BY <1>1, <1>2, <1>3, <1>4, <2>1, <2>2, <3>1 DEF ConnTypeOK
<1>6. DialsInv /\ RestoreInv /\ GreenIsLive
  BY <1>0, <1>1, <1>4 DEF ConnInit, DialsInv, RestoreInv, StaysAbandoned, GreenIsLive
<1> QED
  BY <1>5, <1>6 DEF ConnInv

\* Every step keeps the invariant.
LEMMA ConnStep == ConnInv /\ [ConnNext]_connVars => ConnInv'
<1> SUFFICES ASSUME ConnInv, [ConnNext]_connVars PROVE ConnInv'
  OBVIOUS
<1>1. KeysKept /\ RowsKept /\ ShellKept /\ RestoreInv'
  BY KeysKeep, RowsKeep, ShellKeeps, RestoreKeeps
<1>2. DialsKept
  BY <1>1, StepShapes, DialsKeep DEF KeysKept
<1>3. ConnTypeOK'
  BY <1>1, <1>2 DEF KeysKept, RowsKept, ShellKept, DialsKept, ConnTypeOK, Colours
<1>4. DialsInv'
  BY <1>2 DEF DialsKept, DialsInv
<1>5. GreenIsLive'
  BY <1>1 DEF RowsKept, GreenIsLive, connNames
<1> QED
  BY <1>1, <1>3, <1>4, <1>5 DEF ConnInv

(* The inductive invariant holds of every behaviour: what a dial holds at   *)
(* each of its steps, which one the session is, and what the rows show      *)
(* (connections.go dial, closeSessionCmd).                                  *)
THEOREM ConnectionsInvariant == ConnSpec => []ConnInv
<1>1. ConnInit => ConnInv
  BY ConnInitInv
<1>2. ConnInv /\ [ConnNext]_connVars => ConnInv'
  BY ConnStep
<1> QED
  BY <1>1, <1>2, PTL DEF ConnSpec

(* However dials, replies, renames, removals and keys cross, no session or  *)
(* tunnel is leaked or closed out of order, the panel shows what is live, a *)
(* cancelled restore stays cancelled, and no jump host is trusted silently  *)
(* (connections.go, ssh.go).                                                *)
THEOREM SessionsAreOwned == ConnSpec => []SessionsOwned
<1>1. ConnInv => SessionsOwned
  <2> SUFFICES ASSUME ConnInv PROVE SessionsOwned
    OBVIOUS
  <2>1. \A i \in DOMAIN dials : Fits(dials[i], i = live, accepted)
    BY DEF ConnInv, DialsInv
  <2>2. Owned
    BY <2>1 DEF Owned, Fits
  <2>3. DriverFirst
    BY <2>1 DEF DriverFirst, Fits
  <2>4. KeyVouched
    BY <2>1 DEF KeyVouched, Fits
  <2>5. GreenIsLive /\ StaysAbandoned
    BY DEF ConnInv, RestoreInv
  <2> QED
    BY <2>2, <2>3, <2>4, <2>5 DEF SessionsOwned
<1> QED
  BY <1>1, ConnectionsInvariant, PTL

-----------------------------------------------------------------------------
(* The profiles and their secrets.                                         *)

\* A profile as far as its secrets: its name, and what the keyring holds for it.
Profile == [name : Names, secrets : [Slots -> Nat]]
\* A step of a command: a call of the keyring, or one of the two writes of the file.
KeyringStep ==
  [op : {"set", "delete", "move", "copy"}, from : Names, to : Names, slot : Slots, v : Nat]
  \cup [op : {"write", "rename"}, from : {""}, to : {""}, slot : Slots, v : Nat]
\* A command: what it still does, and its own copy of the list.
Command == [todo : Seq(KeyringStep), list : Seq(Profile)]

\* Every variable keeps its type.
ProfilesTypeOK ==
  /\ cfg \in Seq(Profile)
  /\ disk \in [list : Seq(Profile), whole : {TRUE}]
  /\ ring \in [Names -> [Slots -> Nat]] /\ keyring \in BOOLEAN
  /\ cmds \in Seq(Command)
  /\ typed \in Nat /\ alone \in BOOLEAN

\* No two profiles of a list have one name.
Unique(l) == \A i, j \in DOMAIN l : l[i].name = l[j].name => i = j

\* Names are unique in memory, in the file and in the copy of each command.
ListsUnique == Unique(cfg) /\ Unique(disk.list) /\ \A i \in DOMAIN cmds : Unique(cmds[i].list)

\* A command ends with the rename of the file, and only there.
EndsWithFile(t) == t # <<>> /\ \A k \in DOMAIN t : t[k].op = "rename" <=> k = Len(t)

\* The secrets a list means for a name.
Secrets(l, n) == IF n \in NamesOf(l) THEN Find(l, n).secrets ELSE NoSecrets

\* A step that may change what is filed under a name and slot.
Touches(x, n, s) ==
  /\ x.slot = s
  /\ \/ x.op \in {"set", "copy"} /\ x.to = n
     \/ x.op = "delete" /\ x.from = n
     \/ x.op = "move" /\ n \in {x.from, x.to}

\* The last step of t that touches n and s, its k-th, files w: what it reads
\* is still what is filed there when it reads it.
Brings(t, k, n, s, w, filed) ==
  LET x == t[k]
  IN \/ x.op = "set" /\ x.v = w
     \/ x.op = "delete" /\ w = 0
     \/ x.op = "move" /\ x.from = n /\ w = 0
     \/ /\ x.op \in {"move", "copy"} /\ x.from # n
        /\ x.from \in Names /\ x.to = n
        /\ filed[x.from][s] = w /\ filed[n][s] = 0
        /\ \A j \in 1 .. k - 1 : ~Touches(t[j], n, s) /\ ~Touches(t[j], x.from, s)

\* When t is done, w is filed under n and s.
Due(t, n, s, w, filed) ==
  \/ filed[n][s] = w /\ \A k \in DOMAIN t : ~Touches(t[k], n, s)
  \/ \E k \in DOMAIN t :
       /\ Touches(t[k], n, s)
       /\ \A j \in DOMAIN t : j > k => ~Touches(t[j], n, s)
       /\ Brings(t, k, n, s, w, filed)

\* A command that has the keyring and the file for itself will leave them as
\* the list has it.
Following ==
  alone =>
    /\ Len(cmds) <= 1
    /\ cmds = <<>> => disk.list = cfg
    /\ keyring /\ cmds = <<>> => \A n \in Names : ring[n] = Secrets(cfg, n)
    /\ \A i \in DOMAIN cmds :
         /\ cmds[i].list = cfg
         /\ keyring => \A n \in Names, s \in Slots : Due(cmds[i].todo, n, s, Secrets(cfg, n)[s], ring)

\* The inductive invariant of the profiles.
ProfilesInv ==
  /\ ProfilesTypeOK /\ ListsUnique /\ Following
  /\ \A i \in DOMAIN cmds : EndsWithFile(cmds[i].todo)

-----------------------------------------------------------------------------
(* Lists of profiles.                                                      *)

\* In a list with unique names a name is of one profile.
LEMMA SecretsOf ==
  ASSUME NEW l \in Seq(Profile), Unique(l)
  PROVE  /\ \A i \in DOMAIN l : Index(l, l[i].name) = i /\ Secrets(l, l[i].name) = l[i].secrets
         /\ \A n : n \notin NamesOf(l) => Secrets(l, n) = NoSecrets
         /\ \A n \in NamesOf(l) : Index(l, n) \in DOMAIN l /\ l[Index(l, n)].name = n
<1>1. ASSUME NEW i \in DOMAIN l PROVE Index(l, l[i].name) = i
  BY <1>1 DEF Index, Unique
<1>2. ASSUME NEW i \in DOMAIN l PROVE l[i].name \in NamesOf(l)
  BY <1>2 DEF NamesOf
<1>3. ASSUME NEW n \in NamesOf(l) PROVE \E i \in DOMAIN l : l[i].name = n
  BY <1>3 DEF NamesOf
<1> QED
  BY <1>1, <1>2, <1>3 DEF Secrets, Find

\* A list with unique names has as many names as profiles.
LEMMA UniqueCounts ==
  ASSUME NEW l \in Seq(Profile), Unique(l)
  PROVE  Cardinality(NamesOf(l)) = Len(l)
<1> DEFINE f == [i \in 1 .. Len(l) |-> l[i].name]
<1>1. Len(l) \in Nat
  OBVIOUS
<1>4. IsFiniteSet(1 .. Len(l)) /\ Cardinality(1 .. Len(l)) = Len(l)
  <2>1. /\ IsFiniteSet(1 .. Len(l))
        /\ Cardinality(1 .. Len(l)) = IF 1 > Len(l) THEN 0 ELSE Len(l) - 1 + 1
    BY <1>1, FS_Interval
  <2> QED
    BY <1>1, <2>1
<1>2. f \in Surjection(1 .. Len(l), NamesOf(l))
  BY DEF Surjection, NamesOf
<1>3. f \in Injection(1 .. Len(l), NamesOf(l))
  BY DEF Injection, IsInjective, NamesOf, Unique
<1> QED
  BY <1>4, <1>2, <1>3, FS_Surjection

\* A profile under a new name goes to the end.
LEMMA Upserted ==
  ASSUME NEW l \in Seq(Profile), Unique(l), NEW p \in Profile, p.name \notin NamesOf(l)
  PROVE  /\ Upsert(l, "", p) \in Seq(Profile) /\ Unique(Upsert(l, "", p))
         /\ \A n \in Names : Secrets(Upsert(l, "", p), n) = IF n = p.name THEN p.secrets ELSE Secrets(l, n)
<1> DEFINE r == Append(l, p)
<1>1. "" \notin NamesOf(l)
  <2>1. \A i \in DOMAIN l : l[i] \in Profile
    OBVIOUS
  <2>2. \A i \in DOMAIN l : l[i].name \in Names
    BY <2>1 DEF Profile
  <2> QED
    BY <2>2, ProfileNames DEF NamesOf
<1>2. Upsert(l, "", p) = r
  BY <1>1 DEF Upsert
<1>3. r \in Seq(Profile) /\ Len(r) = Len(l) + 1 /\ r[Len(l) + 1] = p /\ \A i \in DOMAIN l : r[i] = l[i]
  OBVIOUS
<1>4. \A i \in DOMAIN l : l[i].name # p.name
  BY DEF NamesOf
<1> HIDE DEF r
<1>5. Unique(r)
  BY <1>3, <1>4 DEF Unique
<1>6. ASSUME NEW n \in Names PROVE Secrets(r, n) = IF n = p.name THEN p.secrets ELSE Secrets(l, n)
  <2>1. CASE n = p.name
    BY <2>1, <1>3, <1>5, SecretsOf
  <2>2. CASE n # p.name /\ n \in NamesOf(l)
    BY <2>2, <1>3, <1>5, SecretsOf
  <2>3. CASE n # p.name /\ n \notin NamesOf(l)
    <3>1. n \notin NamesOf(r)
      BY <2>3, <1>3 DEF NamesOf
    <3> QED
      BY <2>3, <3>1, <1>3, <1>5, SecretsOf
  <2> QED
    BY <2>1, <2>2, <2>3
<1> QED
  BY <1>2, <1>3, <1>5, <1>6

\* A profile takes the place of the one it replaces.
LEMMA Replaced ==
  ASSUME NEW l \in Seq(Profile), Unique(l), NEW p \in Profile, NEW old \in NamesOf(l),
         p.name \notin NamesOf(l) \/ p.name = old
  PROVE  /\ Upsert(l, old, p) \in Seq(Profile) /\ Unique(Upsert(l, old, p))
         /\ \A n \in Names : Secrets(Upsert(l, old, p), n) =
              IF n = p.name THEN p.secrets ELSE IF n = old THEN NoSecrets ELSE Secrets(l, n)
<1> DEFINE k == Index(l, old)
           r == [l EXCEPT ![k] = p]
<1>1. Upsert(l, old, p) = r
  BY DEF Upsert
<1>2. k \in DOMAIN l /\ l[k].name = old
  BY SecretsOf
<1>3. r \in Seq(Profile) /\ DOMAIN r = DOMAIN l /\ r[k] = p /\ \A i \in DOMAIN l : i # k => r[i] = l[i]
  BY <1>2
<1>4. \A i \in DOMAIN l : i # k => l[i].name # p.name /\ l[i].name # old
  BY <1>2 DEF NamesOf, Unique
<1> HIDE DEF r, k
<1>5. Unique(r)
  BY <1>3, <1>4, <1>2 DEF Unique
<1>6. ASSUME NEW n \in Names
      PROVE  Secrets(r, n) = IF n = p.name THEN p.secrets ELSE IF n = old THEN NoSecrets ELSE Secrets(l, n)
  <2>1. CASE n = p.name
    BY <2>1, <1>2, <1>3, <1>5, SecretsOf
  <2>2. CASE n # p.name /\ n = old
    <3>1. n \notin NamesOf(r)
      BY <2>2, <1>2, <1>3, <1>4 DEF NamesOf
    <3> QED
      BY <2>2, <3>1, <1>3, <1>5, SecretsOf
  <2>3. CASE n # p.name /\ n # old /\ n \in NamesOf(l)
    <3>1. PICK i \in DOMAIN l : l[i].name = n
      BY <2>3 DEF NamesOf
    <3>2. r[i] = l[i]
      BY <2>3, <3>1, <1>2, <1>3
    <3> QED
      BY <2>3, <3>1, <3>2, <1>3, <1>5, SecretsOf
  <2>4. CASE n # p.name /\ n # old /\ n \notin NamesOf(l)
    <3>1. n \notin NamesOf(r)
      BY <2>4, <1>2, <1>3 DEF NamesOf
    <3> QED
      BY <2>4, <3>1, <1>3, <1>5, SecretsOf
  <2> QED
    BY <2>1, <2>2, <2>3, <2>4
<1> QED
  BY <1>1, <1>3, <1>5, <1>6

\* A sequence without its k-th element.
LEMMA RemoveAtIs ==
  ASSUME NEW S, NEW l \in Seq(S), NEW k \in 1 .. Len(l)
  PROVE  /\ RemoveAt(l, k) \in Seq(S) /\ Len(RemoveAt(l, k)) = Len(l) - 1
         /\ \A i \in 1 .. Len(l) - 1 : RemoveAt(l, k)[i] = IF i < k THEN l[i] ELSE l[i + 1]
<1> DEFINE a == SubSeq(l, 1, k - 1)
           b == SubSeq(l, k + 1, Len(l))
<1>1. a \in Seq(S) /\ Len(a) = k - 1 /\ \A i \in 1 .. k - 1 : a[i] = l[i]
  BY SubSeqProperties
<1>2. b \in Seq(S) /\ Len(b) = Len(l) - k /\ \A i \in 1 .. Len(l) - k : b[i] = l[k + i]
  BY SubSeqProperties
<1>3. RemoveAt(l, k) = a \o b
  BY DEF RemoveAt
<1> HIDE DEF a, b
<1>4. /\ a \o b \in Seq(S) /\ Len(a \o b) = Len(l) - 1
      /\ \A i \in 1 .. Len(l) - 1 : (a \o b)[i] = IF i <= k - 1 THEN a[i] ELSE b[i - (k - 1)]
  BY <1>1, <1>2, ConcatProperties
<1>5. ASSUME NEW i \in 1 .. Len(l) - 1 PROVE (a \o b)[i] = IF i < k THEN l[i] ELSE l[i + 1]
  <2>1. CASE i < k
    BY <2>1, <1>1, <1>4
  <2>2. CASE ~(i < k)
    <3>1. i - (k - 1) \in 1 .. Len(l) - k /\ k + (i - (k - 1)) = i + 1 /\ ~(i <= k - 1)
      BY <2>2
    <3>2. b[i - (k - 1)] = l[k + (i - (k - 1))]
      BY <3>1, <1>2
    <3> QED
      BY <3>1, <3>2, <2>2, <1>4
  <2> QED
    BY <2>1, <2>2
<1> QED
  BY <1>3, <1>4, <1>5

\* A profile is gone with its name, and the others stay.
LEMMA Removed ==
  ASSUME NEW l \in Seq(Profile), Unique(l), NEW old \in NamesOf(l)
  PROVE  /\ RemoveNamed(l, old) \in Seq(Profile) /\ Unique(RemoveNamed(l, old))
         /\ \A n \in Names : Secrets(RemoveNamed(l, old), n) = IF n = old THEN NoSecrets ELSE Secrets(l, n)
<1> DEFINE k == Index(l, old)
           r == RemoveNamed(l, old)
<1>1. k \in 1 .. Len(l) /\ l[k].name = old
  BY SecretsOf
<1>2. /\ r \in Seq(Profile) /\ Len(r) = Len(l) - 1
      /\ \A i \in 1 .. Len(r) : r[i] = IF i < k THEN l[i] ELSE l[i + 1]
  <2> HIDE DEF k
  <2>1. r = RemoveAt(l, k)
    BY DEF RemoveNamed, k
  <2> QED
    BY <1>1, <2>1, RemoveAtIs
<1> HIDE DEF r, k
<1>3. \A i \in 1 .. Len(r) : \E j \in 1 .. Len(l) : j # k /\ r[i] = l[j] /\ j = IF i < k THEN i ELSE i + 1
  BY <1>1, <1>2
<1>4. Unique(r)
  <2> SUFFICES ASSUME NEW i \in 1 .. Len(r), NEW j \in 1 .. Len(r), r[i].name = r[j].name PROVE i = j
    BY <1>2 DEF Unique
  <2>1. PICK x \in 1 .. Len(l) : r[i] = l[x] /\ x = IF i < k THEN i ELSE i + 1
    BY <1>3
  <2>2. PICK y \in 1 .. Len(l) : r[j] = l[y] /\ y = IF j < k THEN j ELSE j + 1
    BY <1>3
  <2>3. x = y
    BY <2>1, <2>2 DEF Unique
  <2> QED
    BY <1>1, <1>2, <2>1, <2>2, <2>3
<1>5. \A j \in 1 .. Len(l) : j # k => \E i \in 1 .. Len(r) : r[i] = l[j]
  <2> TAKE j \in 1 .. Len(l)
  <2>1. CASE j < k
    BY <2>1, <1>1, <1>2
  <2>2. CASE j > k
    <3>1. j - 1 \in 1 .. Len(r) /\ r[j - 1] = l[j]
      BY <2>2, <1>1, <1>2
    <3> QED
      BY <3>1
  <2> QED
    BY <2>1, <2>2, <1>1
<1>6. ASSUME NEW n \in Names PROVE Secrets(r, n) = IF n = old THEN NoSecrets ELSE Secrets(l, n)
  <2>1. CASE n = old
    <3>1. ASSUME NEW i \in 1 .. Len(r), r[i].name = n PROVE FALSE
      <4>1. PICK j \in 1 .. Len(l) : j # k /\ r[i] = l[j]
        BY <1>3
      <4> QED
        BY <4>1, <3>1, <2>1, <1>1 DEF Unique
    <3>2. n \notin NamesOf(r)
      BY <3>1, <1>2 DEF NamesOf
    <3> QED
      BY <2>1, <3>2, <1>2, <1>4, SecretsOf
  <2>2. CASE n # old /\ n \in NamesOf(l)
    <3>1. PICK j \in 1 .. Len(l) : l[j].name = n
      BY <2>2 DEF NamesOf
    <3>2. PICK i \in 1 .. Len(r) : r[i] = l[j]
      BY <2>2, <3>1, <1>1, <1>5
    <3> QED
      BY <3>1, <3>2, <2>2, <1>2, <1>4, SecretsOf
  <2>3. CASE n # old /\ n \notin NamesOf(l)
    <3>1. n \notin NamesOf(r)
      BY <2>3, <1>2, <1>3 DEF NamesOf
    <3> QED
      BY <2>3, <3>1, <1>2, <1>4, SecretsOf
  <2> QED
    BY <2>1, <2>2, <2>3
<1> QED
  BY <1>2, <1>4, <1>6 DEF r

\* Two profiles change places.
LEMMA Swapped ==
  ASSUME NEW l \in Seq(Profile), Unique(l), NEW a \in DOMAIN l, NEW b \in DOMAIN l
  PROVE  /\ Swap(l, a, b) \in Seq(Profile) /\ Unique(Swap(l, a, b))
         /\ \A n \in Names : Secrets(Swap(l, a, b), n) = Secrets(l, n)
<1> DEFINE r == Swap(l, a, b)
           At(i) == IF i = a THEN b ELSE IF i = b THEN a ELSE i
<1>1. r \in Seq(Profile) /\ DOMAIN r = DOMAIN l /\ \A i \in DOMAIN l : At(i) \in DOMAIN l /\ r[i] = l[At(i)]
  BY DEF Swap
<1> HIDE DEF r
<1>2. Unique(r)
  BY <1>1 DEF Unique
<1>3. ASSUME NEW n \in Names PROVE Secrets(r, n) = Secrets(l, n)
  <2>1. CASE n \in NamesOf(l)
    <3>1. PICK i \in DOMAIN l : l[i].name = n
      BY <2>1 DEF NamesOf
    <3>2. PICK k \in DOMAIN r : r[k] = l[i]
      BY <1>1
    <3>3. Secrets(r, n) = r[k].secrets
      BY <3>1, <3>2, <1>1, <1>2, SecretsOf
    <3>4. Secrets(l, n) = l[i].secrets
      BY <3>1, SecretsOf
    <3> QED
      BY <3>2, <3>3, <3>4
  <2>2. CASE n \notin NamesOf(l)
    <3>1. \A i \in DOMAIN l : l[i].name # n
      BY <2>2 DEF NamesOf
    <3>2. ASSUME NEW i \in DOMAIN r PROVE r[i].name # n
      <4>1. PICK j \in DOMAIN l : r[i] = l[j]
        BY <1>1
      <4> QED
        BY <4>1, <3>1
    <3>3. n \notin NamesOf(r)
      BY <3>2 DEF NamesOf
    <3> QED
      BY <2>2, <3>3, <1>1, <1>2, SecretsOf
  <2> QED
    BY <2>1, <2>2
<1> QED
  BY <1>1, <1>2, <1>3 DEF r

\* A profile that moves up or down takes its secrets with it.
LEMMA Moved ==
  ASSUME NEW l \in Seq(Profile), Unique(l), NEW m \in NamesOf(l), NEW r \in {MoveUp(l, m), MoveDown(l, m)}
  PROVE  r \in Seq(Profile) /\ Unique(r) /\ \A n \in Names : Secrets(r, n) = Secrets(l, n)
<1>1. Index(l, m) \in 1 .. Len(l)
  BY SecretsOf
<1>2. r = l \/ \E a, b \in DOMAIN l : r = Swap(l, a, b)
  <2> DEFINE k == Index(l, m)
  <2>1. CASE k > 1 /\ r = MoveUp(l, m)
    <3>1. k - 1 \in DOMAIN l /\ k \in DOMAIN l
      BY <1>1, <2>1
    <3> QED
      BY <3>1, <2>1 DEF MoveUp
  <2>2. CASE k < Len(l) /\ r = MoveDown(l, m)
    <3>1. k + 1 \in DOMAIN l /\ k \in DOMAIN l
      BY <1>1, <2>2
    <3> QED
      BY <3>1, <2>2 DEF MoveDown
  <2> QED
    BY <2>1, <2>2 DEF MoveUp, MoveDown
<1> QED
  BY <1>2, Swapped

-----------------------------------------------------------------------------
(* The steps of a command.                                                 *)

\* A sequence whose first element gave way to those of b.
LEMMA RestIs ==
  ASSUME NEW S, NEW t \in Seq(S), t # <<>>, NEW b \in Seq(S)
  PROVE  /\ b \o Tail(t) \in Seq(S) /\ Len(b \o Tail(t)) = Len(b) + Len(t) - 1
         /\ \A i \in 1 .. Len(b) : (b \o Tail(t))[i] = b[i]
         /\ \A k \in 2 .. Len(t) : (b \o Tail(t))[Len(b) + k - 1] = t[k]
         /\ \A i \in DOMAIN (b \o Tail(t)) :
              i <= Len(b) \/ (i - Len(b) + 1 \in 2 .. Len(t) /\ (b \o Tail(t))[i] = t[i - Len(b) + 1])
<1> DEFINE r == Tail(t)
<1>1. Len(t) \in Nat \ {0} /\ r \in Seq(S) /\ Len(r) = Len(t) - 1 /\ \A i \in 1 .. Len(t) - 1 : r[i] = t[i + 1]
  BY HeadTailProperties
<1>2. Len(b) \in Nat /\ \A i \in 1 .. Len(b) + Len(r) : i \in Nat
  OBVIOUS
<1> HIDE DEF r
<1>3. /\ b \o r \in Seq(S) /\ Len(b \o r) = Len(b) + Len(r)
      /\ \A i \in 1 .. Len(b) + Len(r) : (b \o r)[i] = IF i <= Len(b) THEN b[i] ELSE r[i - Len(b)]
  BY <1>1, ConcatProperties
<1>4. ASSUME NEW k \in 2 .. Len(t) PROVE (b \o r)[Len(b) + k - 1] = t[k]
  <2>1. /\ Len(b) + k - 1 \in 1 .. Len(b) + Len(r)
        /\ ~(Len(b) + k - 1 <= Len(b)) /\ Len(b) + k - 1 - Len(b) = k - 1
    BY <1>1, <1>2
  <2>2. k - 1 \in 1 .. Len(t) - 1 /\ k - 1 + 1 = k
    BY <1>1
  <2> QED
    BY <2>1, <2>2, <1>1, <1>3
<1>5. ASSUME NEW i \in 1 .. Len(b) + Len(r), ~(i <= Len(b))
      PROVE  i - Len(b) + 1 \in 2 .. Len(t) /\ (b \o r)[i] = t[i - Len(b) + 1]
  <2>1. i - Len(b) \in 1 .. Len(t) - 1
    BY <1>1, <1>2, <1>5
  <2>2. r[i - Len(b)] = t[i - Len(b) + 1]
    BY <2>1, <1>1
  <2>3. (b \o r)[i] = r[i - Len(b)]
    BY <1>3, <1>5
  <2>4. i - Len(b) + 1 \in 2 .. Len(t)
    BY <2>1, <1>1
  <2> QED
    BY <2>2, <2>3, <2>4
<1>6. DOMAIN (b \o r) = 1 .. Len(b) + Len(r)
  BY <1>3
<1> QED
  BY <1>1, <1>2, <1>3, <1>4, <1>5, <1>6 DEF r

\* An index that is not of b is one of the rest.
LEMMA Shifts ==
  ASSUME NEW c \in Nat, NEW k \in Nat, k >= 2, NEW j \in 1 .. (c + k - 1) - 1, j > c
  PROVE  j - c + 1 \in 1 .. k - 1
OBVIOUS

\* What a later step brings, it brings still when the first is done: the
\* first changes nothing that the later one reads.
LEMMA StillDue ==
  ASSUME NEW t \in Seq(KeyringStep), t # <<>>, NEW b \in Seq(KeyringStep),
         NEW f \in [Names -> [Slots -> Nat]], NEW g \in [Names -> [Slots -> Nat]],
         \A m \in Names, z \in Slots : ~Touches(t[1], m, z) => g[m][z] = f[m][z],
         \A i \in 1 .. Len(b), m \in Names, z \in Slots : Touches(b[i], m, z) => Touches(t[1], m, z),
         NEW n \in Names, NEW s \in Slots, NEW w \in Nat, Due(t, n, s, w, f),
         ~Touches(t[1], n, s) \/ \E k \in DOMAIN t : k > 1 /\ Touches(t[k], n, s)
  PROVE  Due(b \o Tail(t), n, s, w, g)
<1> DEFINE r == b \o Tail(t)
<1>1. /\ r \in Seq(KeyringStep) /\ Len(r) = Len(b) + Len(t) - 1 /\ Len(b) \in Nat /\ Len(t) \in Nat \ {0}
      /\ \A i \in 1 .. Len(b) : r[i] = b[i]
      /\ \A k \in 2 .. Len(t) : r[Len(b) + k - 1] = t[k]
      /\ \A i \in DOMAIN r : i <= Len(b) \/ (i - Len(b) + 1 \in 2 .. Len(t) /\ r[i] = t[i - Len(b) + 1])
  BY RestIs
<1> HIDE DEF r
<1>2. CASE f[n][s] = w /\ \A k \in DOMAIN t : ~Touches(t[k], n, s)
  <2>1. ~Touches(t[1], n, s)
    BY <1>1, <1>2
  <2>2. g[n][s] = w
    BY <2>1, <1>2
  <2>3. ASSUME NEW i \in DOMAIN r PROVE ~Touches(r[i], n, s)
    <3>1. CASE i <= Len(b)
      BY <3>1, <2>1, <1>1
    <3>2. CASE i - Len(b) + 1 \in 2 .. Len(t) /\ r[i] = t[i - Len(b) + 1]
      BY <3>2, <1>2
    <3> QED
      BY <3>1, <3>2, <1>1
  <2> QED
    BY <2>2, <2>3 DEF Due, r
<1>3. CASE \E k \in DOMAIN t :
             /\ Touches(t[k], n, s)
             /\ \A j \in DOMAIN t : j > k => ~Touches(t[j], n, s)
             /\ Brings(t, k, n, s, w, f)
  <2>1. PICK k \in DOMAIN t :
          /\ Touches(t[k], n, s)
          /\ \A j \in DOMAIN t : j > k => ~Touches(t[j], n, s)
          /\ Brings(t, k, n, s, w, f)
    BY <1>3
  <2>2. k \in 2 .. Len(t)
    BY <2>1, <1>1
  <2> DEFINE q == Len(b) + k - 1
  <2>3. q \in DOMAIN r /\ r[q] = t[k] /\ q \in Nat
    BY <2>2, <1>1
  <2>4. ASSUME NEW i \in DOMAIN r, i > q PROVE ~Touches(r[i], n, s)
    <3>1. i \in Nat /\ k \in Nat /\ k >= 2 /\ Len(b) \in Nat
      BY <2>2, <1>1
    <3>2. i \in Nat /\ ~(i <= Len(b)) /\ i - Len(b) + 1 > k
      BY <3>1, <2>4
    <3>3. i - Len(b) + 1 \in 2 .. Len(t) /\ r[i] = t[i - Len(b) + 1]
      BY <3>2, <1>1
    <3> QED
      BY <3>2, <3>3, <2>1
  <2>5. Brings(r, q, n, s, w, g)
    <3>1. CASE \/ t[k].op = "set" /\ t[k].v = w
               \/ t[k].op = "delete" /\ w = 0
               \/ t[k].op = "move" /\ t[k].from = n /\ w = 0
      BY <3>1, <2>3 DEF Brings
    <3>2. CASE /\ t[k].op \in {"move", "copy"} /\ t[k].from # n
               /\ t[k].from \in Names /\ t[k].to = n
               /\ f[t[k].from][s] = w /\ f[n][s] = 0
               /\ \A j \in 1 .. k - 1 : ~Touches(t[j], n, s) /\ ~Touches(t[j], t[k].from, s)
      <4>1. ~Touches(t[1], n, s) /\ ~Touches(t[1], t[k].from, s)
        BY <3>2, <2>2
      <4>2. g[t[k].from][s] = w /\ g[n][s] = 0
        BY <3>2, <4>1
      <4>3. ASSUME NEW j \in 1 .. q - 1 PROVE ~Touches(r[j], n, s) /\ ~Touches(r[j], t[k].from, s)
        <5>1. CASE j <= Len(b)
          BY <5>1, <4>1, <3>2, <1>1
        <5>2. CASE j > Len(b)
          <6>1. j \in DOMAIN r
            BY <2>2, <1>1
          <6>2. r[j] = t[j - Len(b) + 1]
            BY <6>1, <5>2, <1>1
          <6>3. k \in Nat /\ k >= 2 /\ Len(b) \in Nat
            BY <2>2, <1>1
          <6>4. j - Len(b) + 1 \in 1 .. k - 1
            BY <5>2, <6>3, Shifts
          <6> QED
            BY <6>2, <6>4, <3>2
        <5> QED
          BY <5>1, <5>2, <1>1
      <4> HIDE DEF q
      <4> QED
        BY <3>2, <4>2, <4>3, <2>3 DEF Brings
    <3> QED
      BY <3>1, <3>2, <2>1 DEF Brings
  <2> HIDE DEF q
  <2>6. Touches(r[q], n, s)
    BY <2>1, <2>3
  <2> QED
    BY <2>3, <2>4, <2>5, <2>6 DEF Due, r
<1> QED
  BY <1>2, <1>3 DEF Due

\* The steps that a keyring step gives way to: none, or the calls that
\* follow a read that found something.
Gives(x, f, b) ==
  \/ x.op \in {"set", "delete", "write"} /\ b = <<>>
  \/ x.op \in {"move", "copy"} /\ f[x.from][x.slot] = 0 /\ b = <<>>
  \/ /\ x.op = "move" /\ f[x.from][x.slot] # 0
     /\ b = <<Set(x.to, x.slot, f[x.from][x.slot]), Delete(x.from, x.slot)>>
  \/ x.op = "copy" /\ f[x.from][x.slot] # 0 /\ b = <<Set(x.to, x.slot, f[x.from][x.slot])>>

\* What a step leaves in the keyring.
Files(x, f, g) ==
  \A m \in Names, z \in Slots :
    g[m][z] = IF x.op = "set" /\ x.to = m /\ x.slot = z THEN x.v
              ELSE IF x.op = "delete" /\ x.from = m /\ x.slot = z THEN 0 ELSE f[m][z]

\* What is due stays due when the first step is done.
LEMMA DueGoesOn ==
  ASSUME NEW t \in Seq(KeyringStep), t # <<>>, NEW b \in Seq(KeyringStep),
         NEW f \in [Names -> [Slots -> Nat]], NEW g \in [Names -> [Slots -> Nat]],
         Gives(t[1], f, b), Files(t[1], f, g),
         NEW n \in Names, NEW s \in Slots, NEW w \in Nat, Due(t, n, s, w, f)
  PROVE  Due(b \o Tail(t), n, s, w, g)
<1> DEFINE x == t[1]
           r == b \o Tail(t)
<1>1. x \in KeyringStep /\ Len(t) \in Nat \ {0} /\ 1 \in DOMAIN t
  OBVIOUS
<1>2. \A m \in Names, z \in Slots : ~Touches(x, m, z) => g[m][z] = f[m][z]
  BY DEF Files, Touches
<1>3. ASSUME NEW i \in 1 .. Len(b), NEW m \in Names, NEW z \in Slots, Touches(b[i], m, z)
      PROVE  Touches(x, m, z)
  <2>1. CASE b = <<>>
    BY <2>1
  <2>2. CASE x.op = "move" /\ b = <<Set(x.to, x.slot, f[x.from][x.slot]), Delete(x.from, x.slot)>>
    <3>1. Len(b) = 2 /\ b[1] = Set(x.to, x.slot, f[x.from][x.slot]) /\ b[2] = Delete(x.from, x.slot)
      BY <2>2
    <3>2. i = 1 \/ i = 2
      BY <3>1
    <3>3. CASE i = 1
      BY <3>1, <3>3, <2>2, <1>3 DEF Set, Step, Touches
    <3>4. CASE i = 2
      BY <3>1, <3>4, <2>2, <1>3 DEF Delete, Step, Touches
    <3> QED
      BY <3>2, <3>3, <3>4
  <2>3. CASE x.op = "copy" /\ b = <<Set(x.to, x.slot, f[x.from][x.slot])>>
    <3>1. i = 1 /\ b[i] = Set(x.to, x.slot, f[x.from][x.slot])
      BY <2>3
    <3> QED
      BY <3>1, <2>3, <1>3 DEF Set, Step, Touches
  <2> QED
    BY <2>1, <2>2, <2>3 DEF Gives
<1>4. CASE ~Touches(x, n, s) \/ \E k \in DOMAIN t : k > 1 /\ Touches(t[k], n, s)
  BY <1>2, <1>3, <1>4, StillDue
<1>5. CASE Touches(x, n, s) /\ \A k \in DOMAIN t : k > 1 => ~Touches(t[k], n, s)
  <2>1. Brings(t, 1, n, s, w, f)
    BY <1>1, <1>5 DEF Due
  <2>2. /\ r \in Seq(KeyringStep) /\ Len(r) = Len(b) + Len(t) - 1 /\ Len(b) \in Nat
        /\ \A i \in 1 .. Len(b) : r[i] = b[i]
        /\ \A i \in DOMAIN r : i <= Len(b) \/ (i - Len(b) + 1 \in 2 .. Len(t) /\ r[i] = t[i - Len(b) + 1])
    BY RestIs
  <2> HIDE DEF r
  <2>3. ASSUME NEW i \in DOMAIN r, i > Len(b) PROVE ~Touches(r[i], n, s)
    <3>1. i \in Nat /\ ~(i <= Len(b))
      BY <2>2, <2>3
    <3>2. i - Len(b) + 1 \in 2 .. Len(t) /\ r[i] = t[i - Len(b) + 1]
      BY <3>1, <2>2
    <3>3. i - Len(b) + 1 \in DOMAIN t /\ i - Len(b) + 1 > 1
      BY <3>2
    <3> QED
      BY <3>2, <3>3, <1>5
  <2>4. x.slot = s
    BY <1>5 DEF Touches
  <2>5. CASE b = <<>>
    <3>1. g[n][s] = w
      BY <2>1, <2>4, <2>5, <1>5 DEF Brings, Gives, Files, Touches, Set, Delete
    <3>2. \A i \in DOMAIN r : ~Touches(r[i], n, s)
      BY <2>2, <2>3, <2>5
    <3> QED
      BY <3>1, <3>2 DEF Due, r
  <2>6. CASE x.op = "copy" /\ f[x.from][x.slot] # 0 /\ b = <<Set(x.to, x.slot, f[x.from][x.slot])>>
    <3>1. /\ 1 \in DOMAIN r /\ r[1] = Set(x.to, x.slot, f[x.from][x.slot])
          /\ \A i \in DOMAIN r : i > 1 => ~Touches(r[i], n, s)
      BY <2>2, <2>3, <2>6, <1>1
    <3>2. x.to = n /\ f[x.from][x.slot] = w
      BY <2>1, <2>4, <2>6 DEF Brings
    <3>3. Touches(r[1], n, s) /\ Brings(r, 1, n, s, w, g)
      BY <3>1, <3>2, <2>4 DEF Touches, Brings, Set, Step
    <3> QED
      BY <3>1, <3>3 DEF Due, r
  <2>7. CASE /\ x.op = "move" /\ f[x.from][x.slot] # 0
             /\ b = <<Set(x.to, x.slot, f[x.from][x.slot]), Delete(x.from, x.slot)>>
    <3>1. /\ 1 \in DOMAIN r /\ 2 \in DOMAIN r
          /\ r[1] = Set(x.to, x.slot, f[x.from][x.slot]) /\ r[2] = Delete(x.from, x.slot)
          /\ \A i \in DOMAIN r : i > 2 => ~Touches(r[i], n, s)
      <4>1. Len(b) = 2 /\ b[1] = Set(x.to, x.slot, f[x.from][x.slot]) /\ b[2] = Delete(x.from, x.slot)
        BY <2>7
      <4>2. 1 \in DOMAIN r /\ 2 \in DOMAIN r /\ r[1] = b[1] /\ r[2] = b[2]
        BY <2>2, <4>1, <1>1
      <4> QED
        BY <2>3, <4>1, <4>2
    <3>2. CASE x.from = n /\ w = 0
      <4>1. Touches(r[2], n, s) /\ Brings(r, 2, n, s, w, g)
        BY <3>1, <3>2, <2>4 DEF Touches, Brings, Delete, Step
      <4> QED
        BY <3>1, <4>1 DEF Due, r
    <3>3. CASE x.from # n /\ x.to = n /\ f[x.from][s] = w
      <4>1. Touches(r[1], n, s) /\ Brings(r, 1, n, s, w, g)
        BY <3>1, <3>3, <2>4 DEF Touches, Brings, Set, Step
      <4>2. ~Touches(r[2], n, s)
        BY <3>1, <3>3 DEF Touches, Delete, Step
      <4>3. \A i \in DOMAIN r : i > 1 => ~Touches(r[i], n, s)
        <5>1. \A i \in DOMAIN r : i \in Nat
          BY <2>2
        <5> QED
          BY <5>1, <3>1, <4>2
      <4> QED
        BY <3>1, <4>1, <4>3 DEF Due, r
    <3> QED
      BY <3>2, <3>3, <2>1, <2>7 DEF Brings
  <2> QED
    BY <2>5, <2>6, <2>7 DEF Gives
<1> QED
  BY <1>4, <1>5

-----------------------------------------------------------------------------
(* The commands as they start.                                             *)

\* One or two steps, and the file.
LEMMA Tuples ==
  /\ \A a, b, c, d : (<<a>> \o <<b>>) \o <<c, d>> = <<a, b, c, d>>
  /\ \A a, c, d : (<<a>> \o <<>>) \o <<c, d>> = <<a, c, d>>
  /\ \A b, c, d : (<<>> \o <<b>>) \o <<c, d>> = <<b, c, d>>
  /\ \A c, d : (<<>> \o <<>>) \o <<c, d>> = <<c, d>>
  /\ \A a, b, c, d : <<a, b>> \o <<c, d>> = <<a, b, c, d>>
<1>1. ASSUME NEW S, NEW s \in Seq(S) PROVE s \o <<>> = s /\ <<>> \o s = s
  BY ConcatEmptySeq
<1>2. ASSUME NEW a, NEW b PROVE <<a>> \o <<b>> = <<a, b>>
  <2> DEFINE S == {a, b}
  <2>1. <<a>> \in Seq(S) /\ <<b>> \in Seq(S) /\ <<a, b>> \in Seq(S)
    OBVIOUS
  <2>2. /\ <<a>> \o <<b>> \in Seq(S) /\ Len(<<a>> \o <<b>>) = 2
        /\ \A i \in 1 .. 2 : (<<a>> \o <<b>>)[i] = IF i <= 1 THEN <<a>>[i] ELSE <<b>>[i - 1]
    BY <2>1, ConcatProperties
  <2>3. \A i \in 1 .. 2 : (<<a>> \o <<b>>)[i] = <<a, b>>[i]
    BY <2>2
  <2> QED
    BY <2>1, <2>2, <2>3, SeqEqual
<1>3. ASSUME NEW a, NEW c, NEW d PROVE <<a>> \o <<c, d>> = <<a, c, d>>
  <2> DEFINE S == {a, c, d}
  <2>1. <<a>> \in Seq(S) /\ <<c, d>> \in Seq(S) /\ <<a, c, d>> \in Seq(S)
    OBVIOUS
  <2>2. /\ <<a>> \o <<c, d>> \in Seq(S) /\ Len(<<a>> \o <<c, d>>) = 3
        /\ \A i \in 1 .. 3 : (<<a>> \o <<c, d>>)[i] = IF i <= 1 THEN <<a>>[i] ELSE <<c, d>>[i - 1]
    BY <2>1, ConcatProperties
  <2>3. \A i \in 1 .. 3 : (<<a>> \o <<c, d>>)[i] = <<a, c, d>>[i]
    BY <2>2
  <2> QED
    BY <2>1, <2>2, <2>3, SeqEqual
<1>4. ASSUME NEW a, NEW b, NEW c, NEW d PROVE <<a, b>> \o <<c, d>> = <<a, b, c, d>>
  <2> DEFINE S == {a, b, c, d}
  <2>1. <<a, b>> \in Seq(S) /\ <<c, d>> \in Seq(S) /\ <<a, b, c, d>> \in Seq(S)
    OBVIOUS
  <2>2. /\ <<a, b>> \o <<c, d>> \in Seq(S) /\ Len(<<a, b>> \o <<c, d>>) = 4
        /\ \A i \in 1 .. 4 : (<<a, b>> \o <<c, d>>)[i] = IF i <= 2 THEN <<a, b>>[i] ELSE <<c, d>>[i - 2]
    BY <2>1, ConcatProperties
  <2>3. \A i \in 1 .. 4 : (<<a, b>> \o <<c, d>>)[i] = <<a, b, c, d>>[i]
    BY <2>2
  <2> QED
    BY <2>1, <2>2, <2>3, SeqEqual
<1>5. ASSUME NEW a PROVE <<a>> \in Seq({a}) /\ <<a>> \o <<>> = <<a>> /\ <<>> \o <<a>> = <<a>>
  <2>1. <<a>> \in Seq({a})
    OBVIOUS
  <2> QED
    BY <2>1, <1>1
<1>6. ASSUME NEW c, NEW d PROVE (<<>> \o <<>>) \o <<c, d>> = <<c, d>>
  <2>1. <<c, d>> \in Seq({c, d}) /\ <<>> \in Seq({c, d})
    OBVIOUS
  <2> QED
    BY <2>1, <1>1
<1>7. ASSUME NEW a, NEW b, NEW c, NEW d PROVE (<<a>> \o <<b>>) \o <<c, d>> = <<a, b, c, d>>
  <2>1. <<a>> \o <<b>> = <<a, b>>
    BY <1>2
  <2>2. <<a, b>> \o <<c, d>> = <<a, b, c, d>>
    BY <1>4
  <2> QED
    BY <2>1, <2>2
<1>8. ASSUME NEW a, NEW c, NEW d
      PROVE  (<<a>> \o <<>>) \o <<c, d>> = <<a, c, d>> /\ (<<>> \o <<a>>) \o <<c, d>> = <<a, c, d>>
  BY <1>3, <1>5
<1> QED
  BY <1>4, <1>6, <1>7, <1>8

\* The secrets that were typed, and the file.
LEMMA StoredIs ==
  ASSUME NEW n \in Names, NEW slots \in SUBSET Slots, NEW v \in Nat
  PROVE  LET t == storeSecrets(n, slots, v) \o Write
         IN /\ t \in Seq(KeyringStep) /\ EndsWithFile(t)
            /\ \A k \in DOMAIN t : t[k].op \in {"write", "rename"} \/ \E s \in slots : t[k] = Set(n, s, v)
            /\ \A s \in slots : \E k \in DOMAIN t :
                 t[k] = Set(n, s, v) /\ \A j \in DOMAIN t : j > k => t[j] # Set(n, s, v)
<1> DEFINE t == storeSecrets(n, slots, v) \o Write
<1>1. PICK a, b, c, d :
         /\ a = Set(n, "db", v) /\ b = Set(n, "ssh", v)
         /\ c = Step("write", "", "", "db", 0) /\ d = Step("rename", "", "", "db", 0)
  OBVIOUS
<1>2. /\ a \in KeyringStep /\ a.op = "set" /\ a.slot = "db"
      /\ b \in KeyringStep /\ b.op = "set" /\ b.slot = "ssh"
  BY <1>1 DEF Set, Step, KeyringStep, Slots
<1>3. c \in KeyringStep /\ d \in KeyringStep /\ c.op = "write" /\ d.op = "rename"
  BY <1>1 DEF Step, KeyringStep, Slots
<1>4. \A s \in slots : s = "db" \/ s = "ssh"
  BY DEF Slots
<1>5. t = ((IF "db" \in slots THEN <<a>> ELSE <<>>) \o (IF "ssh" \in slots THEN <<b>> ELSE <<>>)) \o <<c, d>>
  BY <1>1 DEF storeSecrets, Write
<1>6. a = Set(n, "db", v) /\ b = Set(n, "ssh", v)
  BY <1>1
<1> HIDE DEF t
<1>7. /\ (<<a>> \o <<b>>) \o <<c, d>> = <<a, b, c, d>>
       /\ (<<a>> \o <<>>) \o <<c, d>> = <<a, c, d>>
       /\ (<<>> \o <<b>>) \o <<c, d>> = <<b, c, d>>
       /\ (<<>> \o <<>>) \o <<c, d>> = <<c, d>>
  BY Tuples
<1>8. CASE "db" \in slots /\ "ssh" \in slots
  <2>1. t = <<a, b, c, d>>
    BY <1>5, <1>8, <1>7
  <2>2. t \in Seq(KeyringStep) /\ EndsWithFile(t)
    BY <1>2, <1>3, <2>1 DEF EndsWithFile
  <2>3. DOMAIN t = 1 .. 4 /\ t[1] = a /\ t[2] = b /\ t[3] = c /\ t[4] = d
    BY <2>1
  <2>4. ASSUME NEW k \in DOMAIN t PROVE t[k].op \in {"write", "rename"} \/ t[k] = a \/ t[k] = b
    <3>1. k = 1 \/ k = 2 \/ k = 3 \/ k = 4
      BY <2>3
    <3> QED
      BY <3>1, <2>3, <1>3
  <2>5. \A j \in DOMAIN t : j > 1 => t[j] # a
    <3>1. \A j \in DOMAIN t : j > 1 => j = 2 \/ j = 3 \/ j = 4
      BY <2>3
    <3> QED
      BY <3>1, <2>3, <1>2, <1>3
  <2>6. \A j \in DOMAIN t : j > 2 => t[j] # b
    <3>1. \A j \in DOMAIN t : j > 2 => j = 3 \/ j = 4
      BY <2>3
    <3> QED
      BY <3>1, <2>3, <1>2, <1>3
  <2>7. \A s \in slots : \E k \in DOMAIN t :
         t[k] = Set(n, s, v) /\ \A j \in DOMAIN t : j > k => t[j] # Set(n, s, v)
    BY <1>4, <1>6, <2>3, <2>5, <2>6
  <2> QED
    BY <1>6, <1>8, <2>2, <2>4, <2>7 DEF t
<1>9. CASE "db" \in slots /\ "ssh" \notin slots
  <2>1. t = <<a, c, d>>
    BY <1>5, <1>9, <1>7
  <2>2. t \in Seq(KeyringStep) /\ EndsWithFile(t)
    BY <1>2, <1>3, <2>1 DEF EndsWithFile
  <2>3. DOMAIN t = 1 .. 3 /\ t[1] = a /\ t[2] = c /\ t[3] = d
    BY <2>1
  <2> QED
    BY <1>2, <1>3, <1>4, <1>6, <1>9, <2>2, <2>3 DEF t
<1>10. CASE "db" \notin slots /\ "ssh" \in slots
  <2>1. t = <<b, c, d>>
    BY <1>5, <1>10, <1>7
  <2>2. t \in Seq(KeyringStep) /\ EndsWithFile(t)
    BY <1>2, <1>3, <2>1 DEF EndsWithFile
  <2>3. DOMAIN t = 1 .. 3 /\ t[1] = b /\ t[2] = c /\ t[3] = d
    BY <2>1
  <2> QED
    BY <1>2, <1>3, <1>4, <1>6, <1>10, <2>2, <2>3 DEF t
<1>11. CASE "db" \notin slots /\ "ssh" \notin slots
  <2>1. t = <<c, d>>
    BY <1>5, <1>11, <1>7
  <2>2. t \in Seq(KeyringStep) /\ EndsWithFile(t)
    BY <1>2, <1>3, <2>1 DEF EndsWithFile
  <2>3. DOMAIN t = 1 .. 2 /\ t[1] = c /\ t[2] = d
    BY <2>1
  <2> QED
    BY <1>2, <1>3, <1>4, <1>6, <1>11, <2>2, <2>3 DEF t
<1> QED
  BY <1>8, <1>9, <1>10, <1>11

\* They will be filed, and what was filed elsewhere stays.
LEMMA StoredDue ==
  ASSUME NEW n \in Names, NEW slots \in SUBSET Slots, NEW v \in Nat, NEW f \in [Names -> [Slots -> Nat]],
         NEW m \in Names, NEW s \in Slots
  PROVE  Due(storeSecrets(n, slots, v) \o Write, m, s, IF m = n /\ s \in slots THEN v ELSE f[m][s], f)
<1> DEFINE t == storeSecrets(n, slots, v) \o Write
           w == IF m = n /\ s \in slots THEN v ELSE f[m][s]
<1>1. /\ t \in Seq(KeyringStep)
      /\ \A k \in DOMAIN t : t[k].op \in {"write", "rename"} \/ \E z \in slots : t[k] = Set(n, z, v)
      /\ \A z \in slots : \E k \in DOMAIN t :
           t[k] = Set(n, z, v) /\ \A j \in DOMAIN t : j > k => t[j] # Set(n, z, v)
  BY StoredIs
<1> HIDE DEF t
<1>2. ASSUME NEW k \in DOMAIN t, Touches(t[k], m, s) PROVE m = n /\ s \in slots /\ t[k] = Set(n, s, v)
  <2>1. t[k].op \notin {"write", "rename"} /\ t[k].slot = s
    BY <1>2 DEF Touches
  <2>2. PICK z \in slots : t[k] = Set(n, z, v)
    BY <1>1, <2>1
  <2> QED
    BY <1>2, <2>1, <2>2 DEF Touches, Set, Step
<1>3. CASE m = n /\ s \in slots
  <2>1. PICK k \in DOMAIN t : t[k] = Set(n, s, v) /\ \A j \in DOMAIN t : j > k => t[j] # Set(n, s, v)
    BY <1>1, <1>3
  <2>2. Touches(t[k], m, s) /\ Brings(t, k, m, s, w, f)
    BY <2>1, <1>3 DEF Touches, Brings, Set, Step
  <2>3. \A j \in DOMAIN t : j > k => ~Touches(t[j], m, s)
    BY <2>1, <1>2
  <2> QED
    BY <2>2, <2>3 DEF Due, t
<1>4. CASE ~(m = n /\ s \in slots)
  BY <1>2, <1>4 DEF Due, t
<1> QED
  BY <1>3, <1>4

\* The typed secrets are filed by keyring steps.
LEMMA StoredTyped ==
  ASSUME NEW n \in Names, NEW slots \in SUBSET Slots, NEW v \in Nat
  PROVE  storeSecrets(n, slots, v) \in Seq(KeyringStep) /\ Write \in Seq(KeyringStep)
<1>1. Set(n, "db", v) \in KeyringStep /\ Set(n, "ssh", v) \in KeyringStep
  BY DEF Set, Step, KeyringStep, Slots
<1>2. Step("write", "", "", "db", 0) \in KeyringStep /\ Step("rename", "", "", "db", 0) \in KeyringStep
  BY DEF Step, KeyringStep, Slots
<1>3. /\ (IF "db" \in slots THEN <<Set(n, "db", v)>> ELSE <<>>) \in Seq(KeyringStep)
      /\ (IF "ssh" \in slots THEN <<Set(n, "ssh", v)>> ELSE <<>>) \in Seq(KeyringStep)
  BY <1>1
<1>4. storeSecrets(n, slots, v) \in Seq(KeyringStep)
  BY <1>3, ConcatProperties DEF storeSecrets
<1>5. Write \in Seq(KeyringStep)
  <2>1. \A c, d \in KeyringStep : <<c, d>> \in Seq(KeyringStep)
    OBVIOUS
  <2> QED
    BY <1>2, <2>1 DEF Write
<1> QED
  BY <1>4, <1>5

\* The two steps that move or copy the secrets of o to n.
Carry(op, o, n) == <<Step(op, o, n, "db", 0), Step(op, o, n, "ssh", 0)>>

\* The steps r carry the secrets of o to n, and go on as t.
Carries(r, op, o, n, t) ==
  /\ r \in Seq(KeyringStep) /\ EndsWithFile(r) /\ Len(r) = Len(t) + 2
  /\ r[1] = Step(op, o, n, "db", 0) /\ r[2] = Step(op, o, n, "ssh", 0)
  /\ \A k \in 3 .. Len(t) + 2 : r[k] = t[k - 2]
  /\ \A k \in DOMAIN t : r[k + 2] = t[k]

\* The secrets that are moved or copied, those that were typed, and the file.
LEMMA CarriedIs ==
  ASSUME NEW op \in {"move", "copy"}, NEW o \in Names, NEW n \in Names,
         NEW slots \in SUBSET Slots, NEW v \in Nat
  PROVE  LET t == storeSecrets(n, slots, v) \o Write
         IN /\ Carry(op, o, n) \o storeSecrets(n, slots, v) \o Write = Carry(op, o, n) \o t
            /\ Carries(Carry(op, o, n) \o t, op, o, n, t)
<1> DEFINE a == Carry(op, o, n)
           u == storeSecrets(n, slots, v)
           t == u \o Write
           r == a \o t
<1>1. Step(op, o, n, "db", 0) \in KeyringStep /\ Step(op, o, n, "ssh", 0) \in KeyringStep
  BY DEF Step, KeyringStep, Slots
<1>2. /\ a \in Seq(KeyringStep) /\ Len(a) = 2 /\ a[1].op = op /\ a[2].op = op
      /\ a[1] = Step(op, o, n, "db", 0) /\ a[2] = Step(op, o, n, "ssh", 0)
  BY <1>1 DEF Step, Carry
<1>3. u \in Seq(KeyringStep) /\ Write \in Seq(KeyringStep)
  BY StoredTyped
<1>4. t \in Seq(KeyringStep) /\ EndsWithFile(t) /\ Len(t) \in Nat /\ DOMAIN t = 1 .. Len(t)
  <2>1. t \in Seq(KeyringStep) /\ EndsWithFile(t)
    BY StoredIs
  <2> HIDE DEF t
  <2> QED
    BY <2>1
<1>5. a \o u \o Write = r
  <2>1. \A x, y, z \in Seq(KeyringStep) : (x \o y) \o z = x \o (y \o z)
    BY ConcatAssociative
  <2> HIDE DEF a, u
  <2> QED
    BY <2>1, <1>2, <1>3
<1> HIDE DEF t, u, a
<1>6. /\ r \in Seq(KeyringStep) /\ Len(r) = Len(t) + 2 /\ DOMAIN r = 1 .. Len(t) + 2
      /\ \A k \in 1 .. Len(t) + 2 : r[k] = IF k <= 2 THEN a[k] ELSE t[k - 2]
  <2>1. /\ a \o t \in Seq(KeyringStep) /\ Len(a \o t) = Len(a) + Len(t)
        /\ \A k \in 1 .. Len(a) + Len(t) : (a \o t)[k] = IF k <= Len(a) THEN a[k] ELSE t[k - Len(a)]
    BY <1>2, <1>4, ConcatProperties
  <2>2. r = a \o t
    OBVIOUS
  <2> HIDE DEF r
  <2>3. Len(a) + Len(t) = Len(t) + 2 /\ Len(a) = 2
    BY <1>2, <1>4
  <2> QED
    BY <2>1, <2>2, <2>3
<1> HIDE DEF r
<1>7. r[1] = a[1] /\ r[2] = a[2]
  BY <1>4, <1>6
<1>8. EndsWithFile(r)
  <2>1. Len(t) # 0
    BY <1>4 DEF EndsWithFile
  <2>2. r # <<>>
    BY <1>4, <1>6
  <2>3. ASSUME NEW k \in 1 .. Len(t) + 2 PROVE r[k].op = "rename" <=> k = Len(t) + 2
    <3>1. CASE k <= 2
      <4>1. k = 1 \/ k = 2
        BY <3>1
      <4> QED
        BY <4>1, <1>2, <1>4, <1>7, <2>1
    <3>2. CASE ~(k <= 2)
      <4>1. k - 2 \in DOMAIN t /\ r[k] = t[k - 2] /\ (k - 2 = Len(t) <=> k = Len(t) + 2)
        BY <3>2, <1>4, <1>6
      <4> QED
        BY <4>1, <1>4 DEF EndsWithFile
    <3> QED
      BY <3>1, <3>2
  <2> QED
    BY <2>2, <2>3, <1>6 DEF EndsWithFile
<1>9. \A k \in 3 .. Len(t) + 2 : r[k] = t[k - 2]
  BY <1>4, <1>6
<1>10. \A k \in DOMAIN t : r[k + 2] = t[k]
  BY <1>4, <1>6
<1> QED
  BY <1>2, <1>5, <1>6, <1>7, <1>8, <1>9, <1>10 DEF Carries, a, r, t, u

\* They will be filed under the new name, and those that are moved no longer
\* under the old one.
LEMMA CarriedDue ==
  ASSUME NEW op \in {"move", "copy"}, NEW o \in Names, NEW n \in Names, o # n,
         NEW slots \in SUBSET Slots, NEW v \in Nat, NEW f \in [Names -> [Slots -> Nat]],
         f[n] = NoSecrets, NEW m \in Names, NEW s \in Slots
  PROVE  Due(Carry(op, o, n) \o (storeSecrets(n, slots, v) \o Write), m, s,
             IF m = n THEN (IF s \in slots THEN v ELSE f[o][s])
             ELSE IF m = o /\ op = "move" THEN 0 ELSE f[m][s], f)
<1> DEFINE t == storeSecrets(n, slots, v) \o Write
           r == Carry(op, o, n) \o t
           w == IF m = n THEN (IF s \in slots THEN v ELSE f[o][s])
                ELSE IF m = o /\ op = "move" THEN 0 ELSE f[m][s]
           h == IF s = "db" THEN 1 ELSE 2
<1>1. /\ r \in Seq(KeyringStep) /\ Len(r) = Len(t) + 2
      /\ r[1] = Step(op, o, n, "db", 0) /\ r[2] = Step(op, o, n, "ssh", 0)
      /\ \A k \in 3 .. Len(t) + 2 : r[k] = t[k - 2]
      /\ \A k \in DOMAIN t : r[k + 2] = t[k]
  <2>1. Carries(r, op, o, n, t)
    BY CarriedIs
  <2> HIDE DEF r, t
  <2> QED
    BY <2>1 DEF Carries
<1>2. /\ t \in Seq(KeyringStep)
      /\ \A k \in DOMAIN t : t[k].op \in {"write", "rename"} \/ \E z \in slots : t[k] = Set(n, z, v)
      /\ \A z \in slots : \E k \in DOMAIN t :
           t[k] = Set(n, z, v) /\ \A j \in DOMAIN t : j > k => t[j] # Set(n, z, v)
  BY StoredIs
<1>3. s = "db" \/ s = "ssh"
  BY DEF Slots
<1> HIDE DEF t, r
<1>4. DOMAIN t = 1 .. Len(t) /\ Len(t) \in Nat /\ DOMAIN r = 1 .. Len(t) + 2
  BY <1>1, <1>2
<1>5. ASSUME NEW k \in DOMAIN t, Touches(t[k], m, s) PROVE m = n /\ s \in slots /\ t[k] = Set(n, s, v)
  <2>1. t[k].op \notin {"write", "rename"} /\ t[k].slot = s
    BY <1>5 DEF Touches
  <2>2. PICK z \in slots : t[k] = Set(n, z, v)
    BY <1>2, <2>1
  <2> QED
    BY <1>5, <2>1, <2>2 DEF Touches, Set, Step
<1>6. ASSUME NEW k \in DOMAIN r, k > 2 PROVE k - 2 \in DOMAIN t /\ r[k] = t[k - 2]
  BY <1>1, <1>4, <1>6
<1>7. /\ h \in DOMAIN r /\ r[h] = Step(op, o, n, s, 0)
      /\ \A k \in DOMAIN r : k <= 2 /\ k # h => r[k].slot # s
  <2>1. \A k \in DOMAIN r : k <= 2 => k = 1 \/ k = 2
    BY <1>4
  <2>2. r[1].slot = "db" /\ r[2].slot = "ssh"
    BY <1>1 DEF Step
  <2>3. r[h] = Step(op, o, n, s, 0)
    BY <1>1, <1>3
  <2> QED
    BY <1>3, <1>4, <2>1, <2>2, <2>3
<1>8. CASE m = n /\ s \in slots
  <2>1. PICK k \in DOMAIN t : t[k] = Set(n, s, v) /\ \A j \in DOMAIN t : j > k => t[j] # Set(n, s, v)
    BY <1>2, <1>8
  <2>2. k + 2 \in DOMAIN r /\ r[k + 2] = Set(n, s, v)
    BY <1>1, <1>4, <2>1
  <2>3. Touches(r[k + 2], m, s) /\ Brings(r, k + 2, m, s, w, f)
    BY <2>2, <1>8 DEF Touches, Brings, Set, Step
  <2>4. ASSUME NEW j \in DOMAIN r, j > k + 2 PROVE ~Touches(r[j], m, s)
    <3>1. j > 2 /\ j - 2 > k
      BY <2>1, <2>4, <1>4
    <3>2. j - 2 \in DOMAIN t /\ r[j] = t[j - 2]
      BY <3>1, <1>6
    <3> QED
      BY <3>1, <3>2, <2>1, <1>5
  <2> QED
    BY <2>2, <2>3, <2>4 DEF Due, r, t
<1>9. CASE ~(m = n /\ s \in slots)
  <2>1. ASSUME NEW k \in DOMAIN r, k # h PROVE ~Touches(r[k], m, s)
    <3>1. CASE k <= 2
      BY <3>1, <2>1, <1>7 DEF Touches
    <3>2. CASE k > 2
      BY <3>2, <1>5, <1>6, <1>9
    <3> QED
      BY <3>1, <3>2, <1>4
  <2>2. CASE m = n
    <3>1. Touches(r[h], m, s)
      BY <2>2, <1>7 DEF Touches, Step
    <3>2. f[n][s] = 0
      BY DEF NoSecrets
    <3>3. \A j \in 1 .. h - 1 : j \in DOMAIN r /\ j # h /\ r[j].slot # s
      BY <1>3, <1>4, <1>7
    <3>4. Brings(r, h, m, s, w, f)
      BY <2>2, <3>2, <3>3, <1>7, <1>9 DEF Brings, Step, Touches
    <3> HIDE DEF w, h
    <3>5. \A j \in DOMAIN r : j > h => ~Touches(r[j], m, s)
      BY <1>4, <1>7, <2>1
    <3>6. Due(r, m, s, w, f)
      BY <1>7, <3>1, <3>4, <3>5 DEF Due
    <3> QED
      BY <3>6 DEF r, t, w
  <2>3. CASE m = o /\ op = "move"
    <3>1. Touches(r[h], m, s)
      BY <2>3, <1>7 DEF Touches, Step
    <3>2. Brings(r, h, m, s, w, f)
      BY <2>3, <1>7 DEF Brings, Step
    <3> HIDE DEF w, h
    <3>5. \A j \in DOMAIN r : j > h => ~Touches(r[j], m, s)
      BY <1>4, <1>7, <2>1
    <3>6. Due(r, m, s, w, f)
      BY <1>7, <3>1, <3>2, <3>5 DEF Due
    <3> QED
      BY <3>6 DEF r, t, w
  <2>4. CASE m # n /\ ~(m = o /\ op = "move")
    <3>1. ~Touches(r[h], m, s)
      BY <2>4, <1>7 DEF Touches, Step
    <3> QED
      BY <2>1, <2>4, <3>1, <1>7 DEF Due, r, t
  <2> QED
    BY <2>2, <2>3, <2>4
<1> QED
  BY <1>8, <1>9

\* The secrets of a profile that was removed are deleted.
LEMMA ForgetDue ==
  ASSUME NEW n \in Names, NEW f \in [Names -> [Slots -> Nat]]
  PROVE  /\ forget(n) \in Seq(KeyringStep) /\ EndsWithFile(forget(n))
         /\ \A m \in Names, s \in Slots : Due(forget(n), m, s, IF m = n THEN 0 ELSE f[m][s], f)
<1> DEFINE t == forget(n)
<1>1. PICK a, b, c, d :
        /\ a = Delete(n, "db") /\ b = Delete(n, "ssh")
        /\ c = Step("write", "", "", "db", 0) /\ d = Step("rename", "", "", "db", 0)
  OBVIOUS
<1>2. <<a, b>> \o <<c, d>> = <<a, b, c, d>>
  BY Tuples
<1>3. t = <<a, b, c, d>>
  BY <1>1, <1>2 DEF forget, Forget, Write
<1>4. /\ a \in KeyringStep /\ a.op = "delete" /\ a.slot = "db" /\ a.from = n
      /\ b \in KeyringStep /\ b.op = "delete" /\ b.slot = "ssh" /\ b.from = n
      /\ c \in KeyringStep /\ c.op = "write" /\ d \in KeyringStep /\ d.op = "rename"
  BY <1>1 DEF Delete, Step, KeyringStep, Slots
<1> HIDE DEF t
<1>5. /\ DOMAIN t = 1 .. 4 /\ t[1] = a /\ t[2] = b /\ t[3] = c /\ t[4] = d
      /\ \A k \in DOMAIN t : k = 1 \/ k = 2 \/ k = 3 \/ k = 4
  BY <1>3
<1>6. t \in Seq(KeyringStep) /\ EndsWithFile(t)
  BY <1>3, <1>4 DEF EndsWithFile
<1>7. ASSUME NEW m \in Names, NEW s \in Slots PROVE Due(t, m, s, IF m = n THEN 0 ELSE f[m][s], f)
  <2>1. s = "db" \/ s = "ssh"
    BY DEF Slots
  <2>2. CASE m = n /\ s = "db"
    <3>1. Touches(t[1], m, s) /\ Brings(t, 1, m, s, 0, f) /\ \A k \in DOMAIN t : k > 1 => ~Touches(t[k], m, s)
      BY <2>2, <1>4, <1>5 DEF Touches, Brings
    <3> QED
      BY <2>2, <3>1, <1>5 DEF Due
  <2>3. CASE m = n /\ s = "ssh"
    <3>1. Touches(t[2], m, s) /\ Brings(t, 2, m, s, 0, f) /\ \A k \in DOMAIN t : k > 2 => ~Touches(t[k], m, s)
      BY <2>3, <1>4, <1>5 DEF Touches, Brings
    <3> QED
      BY <2>3, <3>1, <1>5 DEF Due
  <2>4. CASE m # n
    <3>1. \A k \in DOMAIN t : ~Touches(t[k], m, s)
      BY <2>4, <1>4, <1>5 DEF Touches
    <3> QED
      BY <2>4, <3>1 DEF Due
  <2> QED
    BY <2>1, <2>2, <2>3, <2>4
<1> QED
  BY <1>6, <1>7 DEF t

\* A command that writes only the file changes nothing in the keyring.
LEMMA ReorderDue ==
  ASSUME NEW f \in [Names -> [Slots -> Nat]]
  PROVE  /\ reorder \in Seq(KeyringStep) /\ EndsWithFile(reorder)
         /\ \A m \in Names, s \in Slots : Due(reorder, m, s, f[m][s], f)
<1>1. PICK c, d : c = Step("write", "", "", "db", 0) /\ d = Step("rename", "", "", "db", 0)
  OBVIOUS
<1>2. c \in KeyringStep /\ c.op = "write" /\ d \in KeyringStep /\ d.op = "rename"
  BY <1>1 DEF Step, KeyringStep, Slots
<1> DEFINE t == reorder
<1>3. t = <<c, d>>
  BY <1>1 DEF reorder, Write
<1> HIDE DEF t
<1>4. DOMAIN t = 1 .. 2 /\ t[1] = c /\ t[2] = d /\ \A k \in DOMAIN t : k = 1 \/ k = 2
  BY <1>3
<1>5. t \in Seq(KeyringStep) /\ EndsWithFile(t)
  BY <1>2, <1>3 DEF EndsWithFile
<1>6. \A m \in Names, s \in Slots, k \in DOMAIN t : ~Touches(t[k], m, s)
  BY <1>2, <1>4 DEF Touches
<1> QED
  BY <1>5, <1>6 DEF Due, t

\* A command without its first step, which was not the last.
LEMMA RestEnds ==
  ASSUME NEW t \in Seq(KeyringStep), EndsWithFile(t), t[1].op # "rename",
         NEW b \in Seq(KeyringStep), \A i \in DOMAIN b : b[i].op # "rename"
  PROVE  b \o Tail(t) \in Seq(KeyringStep) /\ EndsWithFile(b \o Tail(t))
<1> DEFINE r == b \o Tail(t)
<1>1. Len(t) \in Nat /\ 1 \in DOMAIN t /\ Len(t) >= 2 /\ t # <<>> /\ Len(b) \in Nat
  BY DEF EndsWithFile
<1>2. /\ r \in Seq(KeyringStep) /\ Len(r) = Len(b) + Len(t) - 1
      /\ \A i \in 1 .. Len(b) : r[i] = b[i]
      /\ \A i \in DOMAIN r : i <= Len(b) \/ (i - Len(b) + 1 \in 2 .. Len(t) /\ r[i] = t[i - Len(b) + 1])
  BY <1>1, RestIs
<1> HIDE DEF r
<1>3. DOMAIN r = 1 .. Len(b) + Len(t) - 1
  BY <1>2
<1>4. ASSUME NEW i \in DOMAIN r PROVE r[i].op = "rename" <=> i = Len(r)
  <2>1. CASE i <= Len(b)
    <3>1. i \in DOMAIN b /\ r[i] = b[i] /\ i # Len(r)
      BY <2>1, <1>1, <1>2, <1>3
    <3> QED
      BY <3>1
  <2>2. CASE i - Len(b) + 1 \in 2 .. Len(t) /\ r[i] = t[i - Len(b) + 1]
    <3>1. r[i].op = "rename" <=> i - Len(b) + 1 = Len(t)
      BY <2>2 DEF EndsWithFile
    <3>2. i - Len(b) + 1 = Len(t) <=> i = Len(r)
      BY <1>1, <1>2, <1>3
    <3> QED
      BY <3>1, <3>2
  <2> QED
    BY <2>1, <2>2, <1>2
<1>5. r # <<>>
  BY <1>1, <1>2
<1> QED
  BY <1>2, <1>4, <1>5 DEF EndsWithFile, r

-----------------------------------------------------------------------------
(* Each action keeps the invariant.                                        *)

\* The secrets of a list, and what the keyring holds, are filed by slot.
LEMMA SecretsTyped ==
  ASSUME NEW l \in Seq(Profile), Unique(l), NEW n \in Names
  PROVE  Secrets(l, n) \in [Slots -> Nat]
<1>1. NoSecrets \in [Slots -> Nat]
  BY DEF NoSecrets
<1>2. \A i \in DOMAIN l : l[i].secrets \in [Slots -> Nat]
  <2>1. \A i \in DOMAIN l : l[i] \in Profile
    OBVIOUS
  <2> QED
    BY <2>1 DEF Profile
<1> QED
  BY <1>1, <1>2, SecretsOf DEF Secrets, Find

\* A command that starts follows the list, when nothing else is in flight.
LEMMA BeginKeeps ==
  ASSUME ProfilesInv, cfg' \in Seq(Profile), Unique(cfg)', typed' \in Nat,
         NEW t \in Seq(KeyringStep), EndsWithFile(t), Begin(t),
         alone /\ cmds = <<>> /\ keyring =>
           \A n \in Names, s \in Slots : Due(t, n, s, Secrets(cfg', n)[s], ring)
  PROVE  ProfilesInv'
<1> DEFINE c == [todo |-> t, list |-> cfg']
<1> USE DEF ProfilesInv
<1>1. c \in Command /\ cmds' = Append(cmds, c)
  BY DEF Begin, Clone, Command
<1>2. UNCHANGED <<disk, ring, keyring>> /\ alone' = (alone /\ cmds = <<>>)
  BY DEF Begin
<1>3. cmds \in Seq(Command) /\ c.todo = t /\ c.list = cfg'
  BY DEF ProfilesTypeOK
<1> HIDE DEF c
<1>4. /\ cmds' \in Seq(Command) /\ Len(cmds') = Len(cmds) + 1
      /\ \A i \in DOMAIN cmds' : (i \in DOMAIN cmds /\ cmds'[i] = cmds[i]) \/ cmds'[i] = c
  BY <1>1, <1>3, AppendProperties
<1>5. ProfilesTypeOK'
  BY <1>2, <1>4 DEF ProfilesTypeOK
<1>6. ListsUnique'
  BY <1>2, <1>3, <1>4 DEF ListsUnique, Unique
<1>7. \A i \in DOMAIN cmds' : EndsWithFile(cmds'[i].todo)
  BY <1>3, <1>4
<1>8. Following'
  <2> SUFFICES ASSUME alone, cmds = <<>> PROVE Following'
    BY <1>2 DEF Following
  <2>1. Len(cmds) = 0 /\ DOMAIN cmds = {}
    OBVIOUS
  <2>2. Len(cmds') = 1
    BY <2>1, <1>4
  <2>3. cmds' # <<>>
    BY ONLY <2>2
  <2>4. Len(cmds') = 1 /\ cmds' # <<>> /\ \A i \in DOMAIN cmds' : cmds'[i] = c
    BY <2>1, <2>2, <2>3, <1>4
  <2>5. keyring => \A n \in Names, s \in Slots : Due(t, n, s, Secrets(cfg', n)[s], ring)
    OBVIOUS
  <2> QED
    BY <2>4, <2>5, <1>2, <1>3 DEF Following
<1> QED
  BY <1>5, <1>6, <1>7, <1>8

\* The number of what was typed only grows.
LEMMA TypedMore ==
  ASSUME typed \in Nat, NEW slots, Typed(slots)
  PROVE  typed' \in Nat
BY DEF Typed

\* The form: what is meant for the name is what was filed under the old one
\* or what was typed.
LEMMA SubmitKeeps ==
  ASSUME ProfilesInv, NEW old \in Names \cup {""}, NEW n \in Names, NEW slots \in SUBSET Slots,
         SubmitForm(old, n, slots)
  PROVE  ProfilesInv'
<1> DEFINE before == IF old = "" THEN NoSecrets ELSE Find(cfg, old).secrets
           w == [s \in Slots |-> IF s \in slots THEN typed' ELSE before[s]]
           p == [name |-> n, secrets |-> w]
           t == persist(old, n, slots, typed')
           u == storeSecrets(n, slots, typed') \o Write
<1>1. /\ cfg \in Seq(Profile) /\ Unique(cfg) /\ typed \in Nat /\ ring \in [Names -> [Slots -> Nat]]
      /\ alone /\ cmds = <<>> /\ keyring => \A m \in Names : ring[m] = Secrets(cfg, m)
  BY DEF ProfilesInv, ProfilesTypeOK, ListsUnique, Following
<1>2. /\ old = "" \/ old \in NamesOf(cfg)
      /\ n \notin NamesOf(cfg) \/ n = old
      /\ typed' \in Nat
      /\ cfg' = Upsert(cfg, old, p) /\ Begin(t)
  <2>1. (old = "" \/ old \in NamesOf(cfg)) /\ (n \notin NamesOf(cfg) \/ n = old)
    BY DEF SubmitForm
  <2>2. typed' \in Nat
    BY <1>1, TypedMore DEF SubmitForm
  <2>3. cfg' = Upsert(cfg, old, p)
    BY DEF SubmitForm, Meant
  <2>4. Begin(t)
    BY DEF SubmitForm
  <2> QED
    BY <2>1, <2>2, <2>3, <2>4
<1>3. old # "" => old \in Names /\ before = Secrets(cfg, old)
  BY <1>2, <1>1 DEF Secrets
<1>4. before \in [Slots -> Nat]
  BY <1>1, <1>3, SecretsTyped DEF NoSecrets
<1>5. w \in [Slots -> Nat] /\ p \in Profile /\ p.name = n /\ p.secrets = w
  BY <1>2, <1>4 DEF Profile
<1>6. \A s \in Slots : w[s] = IF s \in slots THEN typed' ELSE before[s]
  OBVIOUS
<1> HIDE DEF w, p, before
<1>7. /\ cfg' \in Seq(Profile) /\ Unique(cfg')
      /\ \A m \in Names : Secrets(cfg', m) = IF m = n THEN w ELSE IF m = old THEN NoSecrets ELSE Secrets(cfg, m)
  <2>1. CASE old = ""
    <3>1. n \notin NamesOf(cfg)
      BY <2>1, <1>2, ProfileNames
    <3> QED
      BY <2>1, <3>1, <1>1, <1>2, <1>5, Upserted, ProfileNames
  <2>2. CASE old # ""
    <3>1. old \in NamesOf(cfg) /\ (p.name \notin NamesOf(cfg) \/ p.name = old)
      BY <2>2, <1>2, <1>5
    <3>2. /\ Upsert(cfg, old, p) \in Seq(Profile) /\ Unique(Upsert(cfg, old, p))
          /\ \A m \in Names : Secrets(Upsert(cfg, old, p), m) =
               IF m = p.name THEN p.secrets ELSE IF m = old THEN NoSecrets ELSE Secrets(cfg, m)
      <4>1. cfg \in Seq(Profile) /\ Unique(cfg) /\ p \in Profile
        BY <1>1, <1>5
      <4> QED
        BY ONLY <3>1, <4>1, Replaced
    <3> QED
      BY <3>2, <1>2, <1>5
  <2> QED
    BY <2>1, <2>2
<1>8. u \in Seq(KeyringStep) /\ EndsWithFile(u)
  BY <1>2, StoredIs
<1>9. CASE old = "" \/ old = n
  <2>1. t = u
    <3>1. storeSecrets(n, slots, typed') \in Seq(KeyringStep)
      BY <1>2, StoredTyped
    <3>2. (IF old = "" THEN <<>> ELSE Rename(old, n)) = <<>>
      BY <1>9 DEF Rename
    <3> QED
      BY <3>1, <3>2, ConcatEmptySeq DEF persist
  <2>2. ASSUME alone, cmds = <<>>, keyring, NEW m \in Names, NEW s \in Slots
        PROVE  Due(u, m, s, Secrets(cfg', m)[s], ring)
    <3>1. Secrets(cfg', m)[s] = IF m = n /\ s \in slots THEN typed' ELSE ring[m][s]
      <4>1. CASE m # n
        BY <4>1, <2>2, <1>1, <1>7, <1>9, ProfileNames
      <4>2. CASE m = n
        <5>1. before[s] = ring[n][s]
          <6>1. CASE old = ""
            <7>1. n \notin NamesOf(cfg)
              BY <6>1, <1>2, ProfileNames
            <7>2. ring[n] = NoSecrets
              BY <7>1, <2>2, <1>1, SecretsOf
            <7> QED
              BY <6>1, <7>2 DEF before
          <6>2. CASE old = n
            BY <6>2, <2>2, <1>1, <1>3, ProfileNames
          <6> QED
            BY <6>1, <6>2, <1>9
        <5> QED
          BY <4>2, <5>1, <1>6, <1>7
      <4> QED
        BY <4>1, <4>2
    <3> QED
      <4>1. Due(u, m, s, IF m = n /\ s \in slots THEN typed' ELSE ring[m][s], ring)
        BY <1>1, <1>2, StoredDue
      <4> HIDE DEF u
      <4> QED
        BY <3>1, <4>1
  <2> HIDE DEF t, u
  <2> QED
    BY <2>1, <2>2, <1>2, <1>7, <1>8, BeginKeeps
<1>10. CASE old # "" /\ old # n
  <2> DEFINE r == Carry("move", old, n) \o u
  <2>1. t = r /\ r \in Seq(KeyringStep) /\ EndsWithFile(r)
    <3>1. t = Carry("move", old, n) \o storeSecrets(n, slots, typed') \o Write
      BY <1>10 DEF persist, Rename, Carry
    <3>2. /\ Carry("move", old, n) \o storeSecrets(n, slots, typed') \o Write = r
          /\ Carries(r, "move", old, n, u)
      BY <1>2, <1>3, <1>10, CarriedIs
    <3> QED
      BY <3>1, <3>2 DEF Carries
  <2>2. ASSUME alone, cmds = <<>>, keyring, NEW m \in Names, NEW s \in Slots
        PROVE  Due(r, m, s, Secrets(cfg', m)[s], ring)
    <3>1. n \notin NamesOf(cfg) /\ ring[n] = NoSecrets
      BY <1>10, <2>2, <1>1, <1>2, SecretsOf
    <3>2. before = ring[old]
      BY <1>10, <2>2, <1>1, <1>3
    <3>3. Secrets(cfg', m)[s] = IF m = n THEN (IF s \in slots THEN typed' ELSE ring[old][s])
                                ELSE IF m = old /\ "move" = "move" THEN 0 ELSE ring[m][s]
      BY <3>2, <2>2, <1>1, <1>6, <1>7 DEF NoSecrets
    <3> QED
      <4>1. Due(r, m, s, IF m = n THEN (IF s \in slots THEN typed' ELSE ring[old][s])
                         ELSE IF m = old /\ "move" = "move" THEN 0 ELSE ring[m][s], ring)
        BY <3>1, <1>1, <1>2, <1>3, <1>10, CarriedDue
      <4> HIDE DEF r
      <4> QED
        BY <3>3, <4>1
  <2> HIDE DEF t, u, r
  <2> QED
    BY <2>1, <2>2, <1>2, <1>7, BeginKeeps
<1> QED
  BY <1>9, <1>10

\* A duplicate has the secrets of its source, and those that were typed.
LEMMA DuplicateKeeps ==
  ASSUME ProfilesInv, NEW src \in Names, NEW n \in Names, NEW slots \in SUBSET Slots, Duplicate(src, n, slots)
  PROVE  ProfilesInv'
<1> DEFINE before == Find(cfg, src).secrets
           w == [s \in Slots |-> IF s \in slots THEN typed' ELSE before[s]]
           p == [name |-> n, secrets |-> w]
           t == duplicatePersist(src, n, slots, typed')
           u == storeSecrets(n, slots, typed') \o Write
           r == Carry("copy", src, n) \o u
<1>1. /\ cfg \in Seq(Profile) /\ Unique(cfg) /\ typed \in Nat /\ ring \in [Names -> [Slots -> Nat]]
      /\ alone /\ cmds = <<>> /\ keyring => \A m \in Names : ring[m] = Secrets(cfg, m)
  BY DEF ProfilesInv, ProfilesTypeOK, ListsUnique, Following
<1>2. /\ src \in NamesOf(cfg) /\ n \notin NamesOf(cfg) /\ src # n
      /\ typed' \in Nat
      /\ cfg' = Upsert(cfg, "", p) /\ Begin(t)
  <2>1. src \in NamesOf(cfg) /\ n \notin NamesOf(cfg) /\ src # n
    BY DEF Duplicate, duplicateName
  <2>2. typed' \in Nat
    BY <1>1, TypedMore DEF Duplicate
  <2>3. cfg' = Upsert(cfg, "", p)
    BY DEF Duplicate, Meant
  <2>4. Begin(t)
    BY DEF Duplicate
  <2> QED
    BY <2>1, <2>2, <2>3, <2>4
<1>3. before = Secrets(cfg, src) /\ before \in [Slots -> Nat]
  BY <1>1, <1>2, SecretsTyped DEF Secrets
<1>5. w \in [Slots -> Nat] /\ p \in Profile /\ p.name = n /\ p.secrets = w
  BY <1>2, <1>3 DEF Profile
<1>6. \A s \in Slots : w[s] = IF s \in slots THEN typed' ELSE before[s]
  OBVIOUS
<1> HIDE DEF w, p, before
<1>7. /\ cfg' \in Seq(Profile) /\ Unique(cfg')
      /\ \A m \in Names : Secrets(cfg', m) = IF m = n THEN w ELSE Secrets(cfg, m)
  BY <1>1, <1>2, <1>5, Upserted
<1>8. t = r /\ r \in Seq(KeyringStep) /\ EndsWithFile(r)
  <2>1. t = Carry("copy", src, n) \o storeSecrets(n, slots, typed') \o Write
    BY DEF duplicatePersist, Copy, Carry
  <2>2. /\ Carry("copy", src, n) \o storeSecrets(n, slots, typed') \o Write = r
        /\ Carries(r, "copy", src, n, u)
    BY <1>2, CarriedIs
  <2> QED
    BY <2>1, <2>2 DEF Carries
<1>9. ASSUME alone, cmds = <<>>, keyring, NEW m \in Names, NEW s \in Slots
      PROVE  Due(r, m, s, Secrets(cfg', m)[s], ring)
  <2>1. ring[n] = NoSecrets /\ before = ring[src]
    BY <1>9, <1>1, <1>2, <1>3, SecretsOf
  <2>2. Secrets(cfg', m)[s] = IF m = n THEN (IF s \in slots THEN typed' ELSE ring[src][s])
                              ELSE IF m = src /\ "copy" = "move" THEN 0 ELSE ring[m][s]
    BY <2>1, <1>9, <1>1, <1>6, <1>7
  <2> QED
    <3>1. Due(r, m, s, IF m = n THEN (IF s \in slots THEN typed' ELSE ring[src][s])
                       ELSE IF m = src /\ "copy" = "move" THEN 0 ELSE ring[m][s], ring)
      BY <2>1, <1>1, <1>2, CarriedDue
    <3> HIDE DEF r
    <3> QED
      BY <2>2, <3>1
<1> HIDE DEF t, u, r
<1> QED
  BY <1>2, <1>7, <1>8, <1>9, BeginKeeps

\* A profile that is removed leaves nothing in the keyring.
LEMMA RemoveKeeps ==
  ASSUME ProfilesInv, NEW n \in Names, RemoveConnection(n)
  PROVE  ProfilesInv'
<1> DEFINE t == forget(n)
<1>1. /\ cfg \in Seq(Profile) /\ Unique(cfg) /\ typed \in Nat /\ ring \in [Names -> [Slots -> Nat]]
      /\ alone /\ cmds = <<>> /\ keyring => \A m \in Names : ring[m] = Secrets(cfg, m)
  BY DEF ProfilesInv, ProfilesTypeOK, ListsUnique, Following
<1>2. n \in NamesOf(cfg) /\ cfg' = RemoveNamed(cfg, n) /\ Begin(t) /\ typed' \in Nat
  BY <1>1 DEF RemoveConnection
<1>3. /\ cfg' \in Seq(Profile) /\ Unique(cfg')
      /\ \A m \in Names : Secrets(cfg', m) = IF m = n THEN NoSecrets ELSE Secrets(cfg, m)
  BY <1>1, <1>2, Removed
<1>4. /\ t \in Seq(KeyringStep) /\ EndsWithFile(t)
      /\ \A m \in Names, s \in Slots : Due(t, m, s, IF m = n THEN 0 ELSE ring[m][s], ring)
  BY <1>1, ForgetDue
<1> HIDE DEF t
<1>5. ASSUME alone, cmds = <<>>, keyring, NEW m \in Names, NEW s \in Slots
      PROVE  Due(t, m, s, Secrets(cfg', m)[s], ring)
  <2>1. Secrets(cfg', m)[s] = IF m = n THEN 0 ELSE ring[m][s]
    BY <1>1, <1>3, <1>5 DEF NoSecrets
  <2> QED
    BY <2>1, <1>4
<1> QED
  BY <1>2, <1>3, <1>4, <1>5, BeginKeeps

\* The order of the profiles is no matter of the keyring's.
LEMMA ReorderKeeps ==
  ASSUME ProfilesInv, NEW n \in Names, Reorder(n)
  PROVE  ProfilesInv'
<1> DEFINE t == reorder
<1>1. /\ cfg \in Seq(Profile) /\ Unique(cfg) /\ typed \in Nat /\ ring \in [Names -> [Slots -> Nat]]
      /\ alone /\ cmds = <<>> /\ keyring => \A m \in Names : ring[m] = Secrets(cfg, m)
  BY DEF ProfilesInv, ProfilesTypeOK, ListsUnique, Following
<1>2. n \in NamesOf(cfg) /\ cfg' \in {MoveUp(cfg, n), MoveDown(cfg, n)} /\ Begin(t) /\ typed' \in Nat
  BY <1>1 DEF Reorder
<1>3. cfg' \in Seq(Profile) /\ Unique(cfg') /\ \A m \in Names : Secrets(cfg', m) = Secrets(cfg, m)
  BY <1>1, <1>2, Moved
<1>4. t \in Seq(KeyringStep) /\ EndsWithFile(t) /\ \A m \in Names, s \in Slots : Due(t, m, s, ring[m][s], ring)
  BY <1>1, ReorderDue
<1> HIDE DEF t
<1>5. ASSUME alone, cmds = <<>>, keyring, NEW m \in Names, NEW s \in Slots
      PROVE  Due(t, m, s, Secrets(cfg', m)[s], ring)
  BY <1>1, <1>3, <1>4, <1>5
<1> QED
  BY <1>2, <1>3, <1>4, <1>5, BeginKeeps

\* The calls of a command that go on with it.
LEMMA GoesKeeps ==
  ASSUME ProfilesInv, NEW i \in DOMAIN cmds, NEW b \in Seq(KeyringStep),
         \A j \in DOMAIN b : b[j].op # "rename", cmds[i].todo[1].op # "rename",
         Goes(i, b), ring' \in [Names -> [Slots -> Nat]],
         keyring => Gives(cmds[i].todo[1], ring, b) /\ Files(cmds[i].todo[1], ring, ring'),
         UNCHANGED <<cfg, disk, keyring, typed, alone>>
  PROVE  ProfilesInv'
<1> DEFINE t == cmds[i].todo
           c == [cmds[i] EXCEPT !.todo = b \o Tail(t)]
<1> USE DEF ProfilesInv
<1>1. cmds \in Seq(Command) /\ cmds[i] \in Command
  BY DEF ProfilesTypeOK
<1>2. t \in Seq(KeyringStep) /\ cmds[i].list \in Seq(Profile) /\ EndsWithFile(t) /\ t # <<>>
  BY <1>1 DEF Command, EndsWithFile
<1>3. b \o Tail(t) \in Seq(KeyringStep) /\ EndsWithFile(b \o Tail(t))
  BY <1>2, RestEnds
<1>4. c \in Command /\ c.todo = b \o Tail(t) /\ c.list = cmds[i].list
  BY <1>1, <1>3 DEF Command
<1>5. cmds' = [cmds EXCEPT ![i] = c]
  BY DEF Goes
<1> HIDE DEF c
<1>6. /\ cmds' \in Seq(Command) /\ Len(cmds') = Len(cmds) /\ DOMAIN cmds' = DOMAIN cmds /\ cmds'[i] = c
      /\ \A j \in DOMAIN cmds : j # i => cmds'[j] = cmds[j]
  BY <1>1, <1>4, <1>5
<1>7. ProfilesTypeOK'
  BY <1>6 DEF ProfilesTypeOK
<1>8. ListsUnique'
  <2>1. \A j \in DOMAIN cmds' : cmds'[j].list = cmds[j].list
    BY <1>4, <1>6
  <2> QED
    BY <2>1, <1>6 DEF ListsUnique, Unique
<1>9. \A j \in DOMAIN cmds' : EndsWithFile(cmds'[j].todo)
  BY <1>3, <1>4, <1>6
<1>10. Following'
  <2> SUFFICES ASSUME alone PROVE Following'
    BY DEF Following
  <2>1. /\ Len(cmds) <= 1 /\ cmds[i].list = cfg /\ cmds' # <<>>
        /\ DOMAIN cmds = 1 .. Len(cmds) /\ Len(cmds) \in Nat
    BY <1>1, <1>6 DEF Following
  <2>2. \A j \in DOMAIN cmds : j = i
    BY <2>1
  <2>3. ASSUME keyring, NEW n \in Names, NEW s \in Slots PROVE Due(c.todo, n, s, Secrets(cfg, n)[s], ring')
    <3>1. Due(t, n, s, Secrets(cfg, n)[s], ring)
      BY <2>3 DEF Following
    <3>2. Secrets(cfg, n)[s] \in Nat
      <4>1. Secrets(cfg, n) \in [Slots -> Nat]
        BY SecretsTyped DEF ProfilesTypeOK, ListsUnique
      <4> QED
        BY <4>1
    <3>3. ring \in [Names -> [Slots -> Nat]] /\ Gives(t[1], ring, b) /\ Files(t[1], ring, ring')
      BY <2>3 DEF ProfilesTypeOK
    <3>4. Due(b \o Tail(t), n, s, Secrets(cfg, n)[s], ring')
      BY <3>1, <3>2, <3>3, <1>2, DueGoesOn
    <3> QED
      BY <3>4, <1>4
  <2>4. \A j \in DOMAIN cmds' : cmds'[j] = c
    BY <2>2, <1>6
  <2>5. c.list = cfg
    BY <2>1, <1>4
  <2>6. Len(cmds') <= 1
    BY <2>1, <1>6
  <2> QED
    BY <2>1, <2>3, <2>4, <2>5, <2>6 DEF Following
<1> QED
  BY <1>7, <1>8, <1>9, <1>10

\* A command that ends leaves the others as they are.
LEMMA EndsIs ==
  ASSUME ProfilesInv, NEW i \in DOMAIN cmds, Ends(i)
  PROVE  /\ cmds' \in Seq(Command) /\ Len(cmds') = Len(cmds) - 1
         /\ \A j \in DOMAIN cmds' : \E k \in DOMAIN cmds : cmds'[j] = cmds[k]
<1>1. cmds \in Seq(Command) /\ i \in 1 .. Len(cmds)
  BY DEF ProfilesInv, ProfilesTypeOK
<1>2. /\ cmds' \in Seq(Command) /\ Len(cmds') = Len(cmds) - 1
      /\ \A j \in 1 .. Len(cmds) - 1 : cmds'[j] = IF j < i THEN cmds[j] ELSE cmds[j + 1]
  BY <1>1, RemoveAtIs DEF Ends
<1>3. \A j \in 1 .. Len(cmds) - 1 : j \in DOMAIN cmds /\ j + 1 \in DOMAIN cmds
  BY <1>1
<1>4. DOMAIN cmds' = 1 .. Len(cmds) - 1
  BY <1>2
<1>5. ASSUME NEW j \in DOMAIN cmds' PROVE \E k \in DOMAIN cmds : cmds'[j] = cmds[k]
  <2>1. cmds'[j] = cmds[j] \/ cmds'[j] = cmds[j + 1]
    BY <1>2, <1>4
  <2> QED
    BY <2>1, <1>3, <1>4
<1> QED
  BY <1>2, <1>5

\* The file takes the list of the command, which by then is done.
LEMMA SaveKeeps ==
  ASSUME ProfilesInv, NEW i \in DOMAIN cmds, SaveTo(i), UNCHANGED <<cfg, keyring, typed, alone>>
  PROVE  ProfilesInv'
<1> DEFINE t == cmds[i].todo
<1> USE DEF ProfilesInv
<1>1. /\ cmds' \in Seq(Command) /\ Len(cmds') = Len(cmds) - 1
      /\ \A j \in DOMAIN cmds' : \E k \in DOMAIN cmds : cmds'[j] = cmds[k]
  BY EndsIs DEF SaveTo
<1>2. disk' = [list |-> cmds[i].list, whole |-> TRUE] /\ ring' = ring /\ t[1].op = "rename"
  BY DEF SaveTo, Head1
<1>3. cmds \in Seq(Command) /\ cmds[i] \in Command /\ t \in Seq(KeyringStep) /\ cmds[i].list \in Seq(Profile)
  <2>1. cmds \in Seq(Command) /\ cmds[i] \in Command
    BY DEF ProfilesTypeOK
  <2> QED
    BY <2>1 DEF Command
<1>4. Len(t) = 1
  <2>1. EndsWithFile(t) /\ t # <<>>
    BY DEF EndsWithFile
  <2>2. 1 \in DOMAIN t
    BY <2>1, <1>3
  <2> QED
    BY <2>1, <2>2, <1>2 DEF EndsWithFile
<1>5. ProfilesTypeOK'
  BY <1>1, <1>2, <1>3 DEF ProfilesTypeOK
<1>6. ListsUnique'
  BY <1>1, <1>2 DEF ListsUnique, Unique
<1>7. \A j \in DOMAIN cmds' : EndsWithFile(cmds'[j].todo)
  BY <1>1
<1>8. Following'
  <2> SUFFICES ASSUME alone PROVE Following'
    BY DEF Following
  <2>1. Len(cmds) = 1 /\ cmds[i].list = cfg
    <3>1. Len(cmds) <= 1 /\ cmds[i].list = cfg
      BY DEF Following
    <3>2. Len(cmds) \in Nat /\ i \in 1 .. Len(cmds)
      BY <1>3
    <3> QED
      BY ONLY <3>1, <3>2
  <2>2. Len(cmds') = 0 /\ DOMAIN cmds' = {} /\ disk'.list = cfg
    BY <2>1, <1>1, <1>2
  <2>3. ASSUME keyring, NEW n \in Names PROVE ring[n] = Secrets(cfg, n)
    <3>1. \A s \in Slots : ring[n][s] = Secrets(cfg, n)[s]
      <4> TAKE s \in Slots
      <4>1. Due(t, n, s, Secrets(cfg, n)[s], ring)
        BY <2>3 DEF Following
      <4>2. \A k \in DOMAIN t : ~Touches(t[k], n, s)
        <5>1. \A k \in DOMAIN t : k = 1
          BY <1>3, <1>4
        <5> QED
          BY <5>1, <1>2 DEF Touches
      <4> QED
        BY <4>1, <4>2 DEF Due
    <3>2. Secrets(cfg, n) \in [Slots -> Nat] /\ ring[n] \in [Slots -> Nat]
      BY SecretsTyped DEF ProfilesTypeOK, ListsUnique
    <3> QED
      BY <3>1, <3>2
  <2> QED
    BY <2>2, <2>3, <1>2 DEF Following
<1> QED
  BY <1>5, <1>6, <1>7, <1>8

\* Every call of a command keeps the invariant.
LEMMA CallKeeps ==
  ASSUME ProfilesInv, Call
  PROVE  ProfilesInv'
<1>1. PICK i \in DOMAIN cmds :
        renameOne(i) \/ copyOne(i) \/ SetSecret(i) \/ DeleteSecret(i) \/ writeAtomicFile(i) \/ SaveTo(i)
  BY DEF Call
<1>2. UNCHANGED <<cfg, keyring, typed, alone>>
  BY DEF Call
<1> DEFINE t == cmds[i].todo
           x == t[1]
<1>3. t \in Seq(KeyringStep) /\ t # <<>> /\ ring \in [Names -> [Slots -> Nat]] /\ keyring \in BOOLEAN
  <2>1. cmds \in Seq(Command) /\ cmds[i] \in Command
    BY DEF ProfilesInv, ProfilesTypeOK
  <2>2. t \in Seq(KeyringStep)
    BY <2>1 DEF Command
  <2>3. t # <<>>
    BY DEF ProfilesInv, EndsWithFile
  <2> QED
    BY <2>2, <2>3 DEF ProfilesInv, ProfilesTypeOK
<1>4. x \in KeyringStep /\ Head1(i) = x
  BY <1>3 DEF Head1
<1>5. <<>> \in Seq(KeyringStep) /\ \A j \in DOMAIN <<>> : <<>>[j].op # "rename"
  OBVIOUS
<1> HIDE DEF t
<1>6. CASE SaveTo(i)
  BY <1>2, <1>6, SaveKeeps
<1>7. CASE writeAtomicFile(i)
  <2>1. x.op = "write" /\ ring' = ring /\ disk' = disk /\ Goes(i, <<>>)
    BY <1>4, <1>7 DEF writeAtomicFile
  <2>2. Gives(x, ring, <<>>) /\ Files(x, ring, ring')
    BY <2>1 DEF Gives, Files
  <2> QED
    BY <2>1, <2>2, <1>2, <1>3, <1>5, GoesKeeps DEF t
<1>8. CASE SetSecret(i)
  <2>1. x.op = "set" /\ ring' = [ring EXCEPT ![x.to][x.slot] = x.v] /\ disk' = disk /\ Goes(i, <<>>)
    BY <1>4, <1>8 DEF SetSecret
  <2>2. x.to \in Names /\ x.slot \in Slots /\ x.v \in Nat
    BY <1>4, <2>1 DEF KeyringStep
  <2>3. ring' \in [Names -> [Slots -> Nat]]
    BY <1>3, <2>1, <2>2
  <2>4. Gives(x, ring, <<>>) /\ Files(x, ring, ring')
    BY <1>3, <2>1, <2>2 DEF Gives, Files
  <2> QED
    BY <2>1, <2>3, <2>4, <1>2, <1>5, GoesKeeps DEF t
<1>9. CASE DeleteSecret(i)
  <2>1. /\ x.op = "delete" /\ disk' = disk /\ Goes(i, <<>>)
        /\ ring' = IF keyring THEN [ring EXCEPT ![x.from][x.slot] = 0] ELSE ring
    BY <1>4, <1>9 DEF DeleteSecret
  <2>2. x.from \in Names /\ x.slot \in Slots
    BY <1>4, <2>1 DEF KeyringStep
  <2>3. ring' \in [Names -> [Slots -> Nat]]
    BY <1>3, <2>1, <2>2
  <2>4. keyring => Gives(x, ring, <<>>) /\ Files(x, ring, ring')
    BY <1>3, <2>1, <2>2 DEF Gives, Files
  <2> QED
    BY <2>1, <2>3, <2>4, <1>2, <1>5, GoesKeeps DEF t
<1>10. CASE copyOne(i)
  <2> DEFINE held == ring[x.from][x.slot]
             b == IF held = 0 \/ ~keyring THEN <<>> ELSE <<Set(x.to, x.slot, held)>>
  <2>1. x.op = "copy" /\ Goes(i, b) /\ ring' = ring /\ disk' = disk
    BY <1>4, <1>10 DEF copyOne
  <2>2. x.from \in Names /\ x.to \in Names /\ x.slot \in Slots
    BY <1>4, <2>1 DEF KeyringStep
  <2>3. held \in Nat
    BY <1>3, <2>2
  <2>4. Set(x.to, x.slot, held) \in KeyringStep /\ Set(x.to, x.slot, held).op = "set"
    BY <2>2, <2>3 DEF Set, Step, KeyringStep
  <2>5. b \in Seq(KeyringStep) /\ \A j \in DOMAIN b : b[j].op # "rename"
    BY <2>4
  <2>6. keyring => Gives(x, ring, b) /\ Files(x, ring, ring')
    BY <2>1 DEF Gives, Files
  <2> HIDE DEF b
  <2> QED
    BY <2>1, <2>5, <2>6, <1>2, <1>3, GoesKeeps DEF t
<1>11. CASE renameOne(i)
  <2> DEFINE held == ring[x.from][x.slot]
             b == IF held = 0 \/ ~keyring THEN <<>> ELSE <<Set(x.to, x.slot, held), Delete(x.from, x.slot)>>
  <2>1. x.op = "move" /\ Goes(i, b) /\ ring' = ring /\ disk' = disk
    BY <1>4, <1>11 DEF renameOne
  <2>2. x.from \in Names /\ x.to \in Names /\ x.slot \in Slots
    BY <1>4, <2>1 DEF KeyringStep
  <2>3. held \in Nat
    BY <1>3, <2>2
  <2>4. /\ Set(x.to, x.slot, held) \in KeyringStep /\ Set(x.to, x.slot, held).op = "set"
        /\ Delete(x.from, x.slot) \in KeyringStep /\ Delete(x.from, x.slot).op = "delete"
    BY <2>2, <2>3 DEF Set, Delete, Step, KeyringStep
  <2>5. b \in Seq(KeyringStep) /\ \A j \in DOMAIN b : b[j].op # "rename"
    BY <2>4
  <2>6. keyring => Gives(x, ring, b) /\ Files(x, ring, ring')
    BY <2>1 DEF Gives, Files
  <2> HIDE DEF b
  <2> QED
    BY <2>1, <2>5, <2>6, <1>2, <1>3, GoesKeeps DEF t
<1> QED
  BY <1>1, <1>6, <1>7, <1>8, <1>9, <1>10, <1>11

\* A command that fails, or a program that stops, is no longer alone or had
\* nothing in flight.
LEMMA StopKeeps ==
  ASSUME ProfilesInv, (\E i \in DOMAIN cmds : PersistFails(i)) \/ Restart
  PROVE  ProfilesInv'
<1> USE DEF ProfilesInv
<1>1. CASE Restart
  <2>1. /\ cmds' = <<>> /\ cfg' = disk.list
        /\ UNCHANGED <<disk, ring, keyring, typed>> /\ alone' = (alone /\ cmds = <<>>)
    BY <1>1 DEF Restart, LoadFrom, ProfilesTypeOK
  <2>2. ProfilesTypeOK'
    <3>1. <<>> \in Seq(Command) /\ disk.list \in Seq(Profile)
      BY DEF ProfilesTypeOK
    <3>2. alone' \in BOOLEAN
      BY <2>1
    <3> QED
      BY <2>1, <3>1, <3>2 DEF ProfilesTypeOK
  <2>3. ListsUnique'
    BY <2>1 DEF ListsUnique, Unique
  <2>4. Following'
    <3>1. DOMAIN cmds' = {} /\ Len(cmds') = 0
      BY <2>1
    <3>2. alone' => cfg' = cfg
      BY <2>1 DEF Following
    <3> QED
      BY <2>1, <3>1, <3>2 DEF Following
  <2>5. DOMAIN cmds' = {}
    BY <2>1
  <2> QED
    BY <2>2, <2>3, <2>4, <2>5
<1>2. ASSUME NEW i \in DOMAIN cmds, PersistFails(i) PROVE ProfilesInv'
  <2>1. /\ cmds' \in Seq(Command)
        /\ \A j \in DOMAIN cmds' : \E k \in DOMAIN cmds : cmds'[j] = cmds[k]
    BY <1>2, EndsIs DEF PersistFails
  <2>2. UNCHANGED <<cfg, disk, ring, keyring, typed>> /\ alone' = FALSE
    BY <1>2 DEF PersistFails
  <2>3. ProfilesTypeOK'
    BY <2>1, <2>2 DEF ProfilesTypeOK
  <2>4. ListsUnique'
    BY <2>1, <2>2 DEF ListsUnique, Unique
  <2>5. Following'
    BY <2>2 DEF Following
  <2>6. \A j \in DOMAIN cmds' : EndsWithFile(cmds'[j].todo)
    BY <2>1
  <2> QED
    BY <2>3, <2>4, <2>5, <2>6
<1> QED
  BY <1>1, <1>2

\* A name that is taken changes nothing.
LEMMA RefusedKeeps ==
  ASSUME ProfilesInv, NEW old \in Names \cup {""}, NEW n \in Names, RefusedForm(old, n)
  PROVE  ProfilesInv'
<1>1. UNCHANGED <<cfg, disk, ring, keyring, cmds, typed, alone>>
  BY DEF RefusedForm, Upsert
<1> QED
  BY <1>1 DEF ProfilesInv, ProfilesTypeOK, ListsUnique, Following, Unique

-----------------------------------------------------------------------------

\* No profile, no secret, no command.
LEMMA ProfilesInitInv == ProfilesInit => ProfilesInv
<1> SUFFICES ASSUME ProfilesInit PROVE ProfilesInv
  OBVIOUS
<1>1. DOMAIN cfg = {} /\ DOMAIN cmds = {} /\ DOMAIN disk.list = {} /\ Len(cmds) = 0
  BY DEF ProfilesInit
<1>2. ProfilesTypeOK
  BY DEF ProfilesInit, ProfilesTypeOK, NoSecrets
<1>3. ListsUnique
  BY <1>1 DEF ListsUnique, Unique
<1>4. Following
  <2>1. \A n \in Names : n \notin NamesOf(cfg)
    BY <1>1 DEF NamesOf
  <2> QED
    BY <1>1, <2>1 DEF ProfilesInit, Following, Secrets
<1> QED
  BY <1>1, <1>2, <1>3, <1>4 DEF ProfilesInv

\* Every step keeps the invariant.
LEMMA ProfilesStep == ProfilesInv /\ [ProfilesNext]_profileVars => ProfilesInv'
<1> SUFFICES ASSUME ProfilesInv, [ProfilesNext]_profileVars PROVE ProfilesInv'
  OBVIOUS
<1>1. CASE UNCHANGED profileVars
  BY <1>1 DEF profileVars, ProfilesInv, ProfilesTypeOK, ListsUnique, Following, Unique
<1>2. CASE \E n \in Names, slots \in SUBSET Slots, old \in Names \cup {""} : SubmitForm(old, n, slots)
  BY <1>2, SubmitKeeps
<1>3. CASE \E n \in Names, old \in Names \cup {""} : RefusedForm(old, n)
  BY <1>3, RefusedKeeps
<1>4. CASE \E src, n \in Names, slots \in SUBSET Slots : Duplicate(src, n, slots)
  BY <1>4, DuplicateKeeps
<1>5. CASE \E n \in Names : RemoveConnection(n) \/ Reorder(n)
  BY <1>5, RemoveKeeps, ReorderKeeps
<1>6. CASE Call
  BY <1>6, CallKeeps
<1>7. CASE (\E i \in DOMAIN cmds : PersistFails(i)) \/ Restart
  BY <1>7, StopKeeps
<1> QED
  BY <1>1, <1>2, <1>3, <1>4, <1>5, <1>6, <1>7 DEF ProfilesNext

\* The invariant says what the profiles promise.
LEMMA ProfilesInvKept == ProfilesInv => ProfilesKept
<1> SUFFICES ASSUME ProfilesInv PROVE ProfilesKept
  OBVIOUS
<1>1. UniqueNames
  <2>1. cfg \in Seq(Profile) /\ Unique(cfg) /\ disk.list \in Seq(Profile) /\ Unique(disk.list)
    BY DEF ProfilesInv, ProfilesTypeOK, ListsUnique
  <2> QED
    BY <2>1, UniqueCounts DEF UniqueNames
<1>2. FileWhole
  BY DEF FileWhole, ProfilesInv, ProfilesTypeOK
<1>3. Followed
  BY DEF Followed, ProfilesInv, Following, Secrets
<1> QED
  BY <1>1, <1>2, <1>3 DEF ProfilesKept

\* The inductive invariant of the profiles and their commands.
THEOREM ProfilesInvariant == ProfilesSpec => []ProfilesInv
<1> QED
  BY ProfilesInitInv, ProfilesStep, PTL DEF ProfilesSpec

\* config.toml is always one whole list with unique names, and where commands
\* did not overlap and none failed, at rest the file is the list and the
\* keyring holds exactly the secrets last typed or copied (config.SaveTo,
\* Upsert, persistCmd, duplicatePersistCmd, forgetCmd, secrets.Rename).
THEOREM ProfilesAreKept == ProfilesSpec => []ProfilesKept
<1> QED
  BY ProfilesInvariant, ProfilesInvKept, PTL
=============================================================================
