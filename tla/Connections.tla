----------------------------- MODULE Connections -----------------------------
(***************************************************************************)
(* Connections from the key to the session (ui/connections.go, ui/ssh.go,   *)
(* ui/ephemeral.go, the connection messages of ui/model.go): dials run in   *)
(* goroutines, several at a time, each through a tunnel (sshtunnel), a      *)
(* driver (db) and a first listing; a reply is adopted, refused, or asks    *)
(* the user something and dials again. Rows are renamed and removed, an     *)
(* unsaved file comes and goes, and a session of an earlier run is restored *)
(* while all of this happens.                                              *)
(***************************************************************************)
EXTENDS Integers, Sequences, FiniteSets

CONSTANTS
  Rows,       \* names of rows of panel [1]
  HostKeys,   \* keys a jump host may present
  MaxDials,   \* bound on the dials of a behaviour
  MaxEdits    \* bound on the renames, removals, files opened and key changes

ASSUME ConnectionsBounds == "" \notin Rows /\ HostKeys # {} /\ MaxDials \in Nat /\ MaxEdits \in Nat

VARIABLES
  saved,      \* the kind of each saved profile: how it is dialled
  ephem,      \* Model.ephem: the row of the file that is not saved
  active,     \* Model.active
  live,       \* the dial Model.driver and Model.tunnel come from
  dials,      \* every dial and what it holds
  status,     \* Model.connState
  restoring,  \* Model.restoreSess: the connection to restore
  prompt,     \* the modal that is about a dial or a row
  loads,      \* listings of tables, and pages, in flight
  hostKey,    \* the key the jump host presents now
  known,      \* the keys of known_hosts
  edits,      \* changes made so far
  accepted,   \* keys that were known at the start or that the user confirmed
  abandoned,  \* the restore was cancelled before it connected
  up          \* the program has not quit

rowVars == <<saved, ephem, status, edits>>
sessVars == <<active, live, loads>>
keyVars == <<hostKey, known, accepted>>
connVars == <<rowVars, sessVars, keyVars, dials, restoring, prompt, abandoned, up>>

NoPrompt == [kind |-> "none", row |-> "", dial |-> "connect", key |-> 0]
\* Dialled as it is, after its password is asked for, or through a jump host.
Kinds == {"direct", "ask", "ssh"}

isEphemeral(r) == r # "" /\ ephem = r
connNames == {r \in Rows : saved[r] # "none" \/ ephem = r}
nameTaken(r) == r \in connNames

\* An ephemeral file is direct; a saved profile is what it is.
findConn(r) == IF isEphemeral(r) THEN "direct" ELSE saved[r]

\* A file named on the command line is dialled at the start and takes over
\* from the session to restore, which New drops when its profile is gone.
ConnInit ==
  /\ saved \in [Rows -> {"none", "ask", "ssh"}]
  /\ ephem = ""
  /\ \E r \in Rows : saved[r] # "none"
  /\ restoring \in {""} \cup {r \in Rows : saved[r] # "none"}
  /\ active = "" /\ live = 0
  /\ dials = <<>>
  /\ status = [r \in Rows |-> "none"]
  /\ prompt = IF restoring = "" THEN NoPrompt ELSE [NoPrompt EXCEPT !.kind = "start", !.row = restoring]
  /\ loads = {}
  /\ hostKey \in HostKeys
  /\ known \in SUBSET HostKeys /\ Cardinality(known) < 2
  /\ accepted = known
  /\ edits = 0
  /\ abandoned = FALSE
  /\ up = TRUE

-----------------------------------------------------------------------------
(* A dial, step by step. Its record holds what it opened; "at" says who is  *)
(* to close it: the dial, its reply, the session or a closing command.      *)

Dial(r, kind, secret) ==
  [row |-> r, kind |-> kind, secret |-> secret, at |-> IF findConn(r) = "ssh" THEN "tunnel" ELSE "driver",
   ssh |-> findConn(r) = "ssh", tunnel |-> "none", driver |-> "none", reg |-> FALSE,
   err |-> "none", key |-> 0]

\* Of a dial that is over only what it left open matters.
Gone(d) == [d EXCEPT !.at = "gone", !.row = "", !.kind = "connect", !.ssh = FALSE, !.secret = FALSE,
                     !.err = "none", !.key = 0]

Redial(r, kind, secret) ==
  /\ Len(dials) < MaxDials
  /\ dials' = Append(dials, Dial(r, kind, secret))

\* The host key is checked in the handshake: in known_hosts, unknown where
\* it has no entry, changed where it has another.
checkHostKey ==
  CASE hostKey \in known -> "none"
    [] known = {} -> "unknown"
    [] OTHER -> "changed"

\* A passphrase or password that nobody gave is asked for once.
openTunnel(i) ==
  /\ dials[i].at = "tunnel"
  /\ \E e \in {checkHostKey, "failed"} \cup (IF dials[i].secret THEN {} ELSE {"secret"}) :
       dials' = [dials EXCEPT ![i] =
         IF e = "none" THEN [@ EXCEPT !.tunnel = "open", !.key = hostKey, !.at = "driver"]
         ELSE [@ EXCEPT !.err = e, !.key = hostKey, !.at = "reply"]]

\* Through a tunnel the dialer is registered with the engine's driver, for
\* this connection alone, and taken back when the handle does not open.
openDB(d, opens) == [d EXCEPT !.driver = IF opens THEN "open" ELSE @, !.reg = opens /\ d.ssh]

\* OpenOpts and Connect: a driver that does not connect is closed all the
\* same, and the tunnel after it.
openDriver(i) ==
  /\ dials[i].at = "driver"
  /\ \E opens, connects \in BOOLEAN :
       dials' = [dials EXCEPT ![i] =
         [openDB(@, opens) EXCEPT !.err = IF opens /\ connects THEN "none" ELSE "failed",
                                  !.at = IF opens /\ connects /\ dials[i].kind # "test" THEN "list" ELSE "unwind"]]

\* The namespaces are listed before the reply.
listDatabases(i) ==
  /\ dials[i].at = "list"
  /\ \E ok \in BOOLEAN :
       dials' = [dials EXCEPT ![i] =
         IF ok THEN [@ EXCEPT !.at = "reply"] ELSE [@ EXCEPT !.err = "failed", !.at = "unwind"]]

\* The handle, and the registration that outlives it.
closeDriver(d) == [d EXCEPT !.driver = "closed", !.reg = FALSE]

\* Plausible bug: the tunnel is closed under its driver.
closeTunnelFirst(i) ==
  /\ dials[i].at \in {"unwind", "closing"}
  /\ dials' = [dials EXCEPT ![i] =
       IF @.tunnel = "open" THEN [@ EXCEPT !.tunnel = "closed"]
       ELSE IF @.driver = "open" THEN closeDriver(@)
       ELSE IF @.at = "unwind" THEN [@ EXCEPT !.at = "reply"] ELSE Gone(@)]

\* The driver first, then the tunnel; a dial that failed then replies.
closeSession(i) ==
  /\ dials[i].at \in {"unwind", "closing"}
  /\ dials' = [dials EXCEPT ![i] =
       IF @.driver = "open" THEN closeDriver(@)
       ELSE IF @.tunnel = "open" THEN [@ EXCEPT !.tunnel = "closed"]
       ELSE IF @.at = "unwind" THEN [@ EXCEPT !.at = "reply"] ELSE Gone(@)]

DialStep ==
  /\ \E i \in DOMAIN dials :
       openTunnel(i) \/ openDriver(i) \/ listDatabases(i) \/ closeSession(i)
  /\ UNCHANGED <<rowVars, sessVars, keyVars, restoring, prompt, abandoned, up>>

-----------------------------------------------------------------------------
(* Rows and their status.                                                  *)

\* A status belongs to a row: that of a row that is gone is dropped.
refreshConnections(st) == status' = [r \in Rows |-> IF saved'[r] # "none" \/ ephem' = r THEN st[r] ELSE "none"]
setConnStatus(r, s) == [status EXCEPT ![r] = s]

\* A status, and the live connection's name, follow a rename.
renameConnState(old, new) ==
  /\ refreshConnections(IF old = "" \/ old = new THEN status
                        ELSE [status EXCEPT ![new] = IF status[old] = "none" THEN @ ELSE status[old], ![old] = "none"])
  /\ active' = IF old # "" /\ active = old THEN new ELSE active

Edit == edits < MaxEdits /\ edits' = edits + 1
Free == up /\ prompt = NoPrompt

\* A form of a new profile (old = "") or of a saved one.
SaveProfile(old, new, kind) ==
  /\ Free /\ Edit
  /\ saved[new] = "none" \/ new = old
  /\ old \in {""} \cup {r \in Rows : saved[r] # "none" /\ ~isEphemeral(r)}
  /\ saved' = [r \in Rows |-> IF r = new THEN kind ELSE IF r = old THEN "none" ELSE saved[r]]
  /\ ephem' = ephem
  /\ renameConnState(old, new)
  /\ UNCHANGED <<live, loads, keyVars, dials, restoring, prompt, abandoned, up>>

\* d, then its confirmation. What is live on the row is closed.
AskRemove(r) ==
  /\ Free /\ saved[r] # "none" /\ ~isEphemeral(r)
  /\ prompt' = [NoPrompt EXCEPT !.kind = "remove", !.row = r]
  /\ UNCHANGED <<rowVars, sessVars, keyVars, dials, restoring, abandoned, up>>

Leave == active' = "" /\ live' = 0 /\ loads' = loads
Closing(ds) == IF live = 0 THEN ds ELSE [ds EXCEPT ![live].at = "closing"]

RemoveRow ==
  /\ up /\ prompt.kind = "remove" /\ saved[prompt.row] # "none" /\ Edit
  /\ saved' = [saved EXCEPT ![prompt.row] = "none"]
  /\ ephem' = ephem
  /\ refreshConnections(setConnStatus(prompt.row, "none"))
  /\ IF active = prompt.row THEN Leave /\ dials' = Closing(dials)
     ELSE UNCHANGED <<sessVars, dials>>
  /\ prompt' = NoPrompt
  /\ UNCHANGED <<keyVars, restoring, abandoned, up>>

\* o: a file under a name no row has; it replaces the one before it.
openEphemeral(r) ==
  /\ Free /\ Edit
  /\ ~nameTaken(r)
  /\ ephem' = r /\ saved' = saved
  /\ refreshConnections([status EXCEPT ![r] = "pending"])
  /\ Redial(r, "connect", FALSE)
  /\ UNCHANGED <<sessVars, keyVars, restoring, prompt, abandoned, up>>

-----------------------------------------------------------------------------
(* The keys that dial.                                                     *)

\* enter and t on a row. The question about an open transaction comes before
\* this, and belongs to another module.
dialSelected(r, kind) ==
  /\ Free /\ r \in connNames /\ kind \in {"connect", "test"}
  /\ saved' = saved /\ ephem' = ephem
  /\ IF findConn(r) = "ask"
     THEN /\ prompt' = [NoPrompt EXCEPT !.kind = "password", !.row = r, !.dial = kind]
          /\ UNCHANGED <<dials, status>>
     ELSE /\ Redial(r, kind, FALSE)
          /\ status' = IF kind = "connect" THEN setConnStatus(r, "pending") ELSE status
          /\ prompt' = prompt
  /\ UNCHANGED <<sessVars, keyVars, edits, restoring, abandoned, up>>

\* The first message of a run with a session to restore.
restoreStart ==
  /\ up /\ prompt.kind = "start"
  /\ IF restoring = "" \/ saved[prompt.row] = "none"
     THEN prompt' = NoPrompt /\ restoring' = "" /\ UNCHANGED dials
     ELSE /\ restoring' = restoring
          /\ IF saved[restoring] = "ask"
             THEN prompt' = [NoPrompt EXCEPT !.kind = "password", !.row = restoring, !.dial = "restore"] /\ UNCHANGED dials
             ELSE prompt' = NoPrompt /\ Redial(restoring, "restore", FALSE)
  /\ UNCHANGED <<rowVars, sessVars, keyVars, abandoned, up>>

\* enter on a password or a passphrase: the dial, or again with the answer.
AnswerSecret ==
  /\ up /\ prompt.kind \in {"password", "secret"}
  /\ Redial(prompt.row, prompt.dial, prompt.kind = "secret")
  /\ prompt' = NoPrompt
  /\ UNCHANGED <<rowVars, sessVars, keyVars, restoring, abandoned, up>>

\* AcceptHostKey writes the key that was shown, then the dial is repeated.
AcceptHostKey ==
  /\ up /\ prompt.kind = "hostkey"
  /\ known' = known \cup {prompt.key}
  /\ accepted' = accepted \cup {prompt.key}
  /\ Redial(prompt.row, prompt.dial, FALSE)
  /\ prompt' = NoPrompt
  /\ UNCHANGED <<rowVars, sessVars, hostKey, restoring, abandoned, up>>

\* esc on a modal; on the password prompt of a restore it ends the restore.
Dismiss ==
  /\ up /\ prompt.kind \in {"password", "secret", "hostkey", "info", "remove"}
  /\ prompt' = NoPrompt
  /\ IF prompt.kind = "password" /\ prompt.dial = "restore"
     THEN restoring' = "" /\ abandoned' = (live = 0 \/ dials[live].kind # "restore")
     ELSE UNCHANGED <<restoring, abandoned>>
  /\ UNCHANGED <<rowVars, sessVars, keyVars, dials, up>>

\* esc without a modal while a restore is pending.
CancelRestore ==
  /\ Free /\ restoring # ""
  /\ restoring' = ""
  /\ abandoned' = (live = 0 \/ dials[live].kind # "restore")
  /\ UNCHANGED <<rowVars, sessVars, keyVars, dials, prompt, up>>

\* x on the live row. A file that is not saved goes with its session.
disconnectActive ==
  /\ Free /\ active \in connNames
  /\ Leave /\ dials' = Closing(dials)
  /\ saved' = saved
  /\ ephem' = IF isEphemeral(active) THEN "" ELSE ephem
  /\ refreshConnections(setConnStatus(active, "idle"))
  /\ UNCHANGED <<keyVars, edits, restoring, prompt, abandoned, up>>

-----------------------------------------------------------------------------
(* Replies.                                                                *)

\* The popup of a failed dial: an answer the user can give is asked for; a
\* changed host key is refused without one.
sshFailureModal(d) ==
  CASE d.err = "unknown" -> [kind |-> "hostkey", row |-> d.row, dial |-> d.kind, key |-> d.key]
    [] d.err = "secret" -> [kind |-> "secret", row |-> d.row, dial |-> d.kind, key |-> 0]
    [] OTHER -> IF d.kind = "test" THEN prompt ELSE [NoPrompt EXCEPT !.kind = "info"]

Reply(i) == up /\ dials[i].at = "reply"

\* A test colours its row, whether or not the row is connected.
connTested(i) ==
  LET d == dials[i]
  IN /\ Reply(i) /\ d.kind = "test"
     /\ saved' = saved /\ ephem' = ephem
     /\ refreshConnections(IF d.err # "none" THEN setConnStatus(d.row, "error")
                           ELSE IF active # d.row THEN setConnStatus(d.row, "idle") ELSE status)
     /\ prompt' = IF d.err = "none" \/ prompt.kind = "start" THEN prompt ELSE sshFailureModal(d)
     /\ dials' = [dials EXCEPT ![i] = Gone(@)]
     /\ UNCHANGED <<sessVars, keyVars, edits, restoring, abandoned, up>>

\* A restore that failed only logs, and is over.
connectFailed(i) ==
  LET d == dials[i]
  IN /\ Reply(i) /\ d.kind # "test" /\ d.err # "none"
     /\ saved' = saved /\ ephem' = ephem
     /\ IF d.kind = "restore"
        THEN restoring' = "" /\ UNCHANGED <<status, prompt>>
        ELSE /\ refreshConnections(setConnStatus(d.row, "error"))
             /\ prompt' = sshFailureModal(d)
             /\ restoring' = restoring
     /\ dials' = [dials EXCEPT ![i] = Gone(@)]
     /\ UNCHANGED <<sessVars, keyVars, edits, abandoned, up>>

\* A restore that was given up in the meantime: its session is closed.
restoreRefused(i) ==
  /\ Reply(i) /\ dials[i].kind = "restore" /\ dials[i].err = "none" /\ restoring = ""
  /\ dials' = [dials EXCEPT ![i].at = "closing"]
  /\ UNCHANGED <<rowVars, sessVars, keyVars, restoring, prompt, abandoned, up>>

\* The session that is replaced is closed.
Adopted(i) == [Closing(dials) EXCEPT ![i].at = "held"]

\* The new session, and its first listing where there is one namespace or
\* the session to restore names one.
connected(i) ==
  LET d == dials[i]
      before == IF active # "" /\ active # d.row THEN setConnStatus(active, "idle") ELSE status
  IN /\ Reply(i) /\ d.kind # "test" /\ d.err = "none"
     /\ d.kind = "restore" => restoring # ""
     /\ dials' = Adopted(i)
     /\ live' = i /\ active' = d.row
     /\ saved' = saved /\ ephem' = ephem
     /\ refreshConnections([before EXCEPT ![d.row] = "ok"])
     /\ \/ loads' = loads \cup {[row |-> d.row, what |-> "tables"]} /\ restoring' = restoring
        \/ loads' = loads /\ restoring' = IF d.kind = "restore" THEN "" ELSE restoring
     /\ UNCHANGED <<keyVars, edits, prompt, abandoned, up>>

\* The tables arrive: of the live connection, or not.
relationsLoaded(l) ==
  /\ up /\ l \in loads /\ l.what = "tables"
  /\ IF l.row = active /\ restoring # ""
     THEN \/ restoring' = "" /\ loads' = loads \ {l}
          \/ restoring' = restoring /\ loads' = (loads \ {l}) \cup {[row |-> l.row, what |-> "page"]}
     ELSE restoring' = restoring /\ loads' = loads \ {l}
  /\ UNCHANGED <<rowVars, active, live, keyVars, dials, prompt, abandoned, up>>

\* The first page of the restored table ends the restore.
pageLoaded(l) ==
  /\ up /\ l \in loads /\ l.what = "page"
  /\ loads' = loads \ {l}
  /\ restoring' = IF l.row = active THEN "" ELSE restoring
  /\ UNCHANGED <<rowVars, active, live, keyVars, dials, prompt, abandoned, up>>

\* q: the session is closed before the program ends; what other dials hold
\* is the operating system's to close.
quit ==
  /\ Free
  /\ up' = FALSE
  /\ active' = "" /\ live' = 0 /\ loads' = {}
  /\ dials' = IF live = 0 THEN <<>>
              ELSE <<Gone([closeDriver(dials[live]) EXCEPT !.tunnel = IF @ = "open" THEN "closed" ELSE @])>>
  /\ UNCHANGED <<rowVars, keyVars, restoring, prompt, abandoned>>

\* The jump host is set up anew.
KeyChanges ==
  /\ up /\ Edit
  /\ hostKey' \in HostKeys \ {hostKey}
  /\ UNCHANGED <<saved, ephem, status, sessVars, known, accepted, dials, restoring, prompt, abandoned, up>>

ConnNext ==
  \/ DialStep
  \/ \E old \in Rows \cup {""}, new \in Rows, kind \in Kinds \ {"ask"} : SaveProfile(old, new, kind)
  \/ \E r \in Rows, kind \in {"connect", "test"} : dialSelected(r, kind)
  \/ \E r \in Rows : AskRemove(r) \/ openEphemeral(r)
  \/ RemoveRow \/ restoreStart \/ AnswerSecret \/ AcceptHostKey \/ Dismiss \/ CancelRestore
  \/ disconnectActive \/ quit \/ KeyChanges
  \/ \E i \in DOMAIN dials : connTested(i) \/ connectFailed(i) \/ restoreRefused(i) \/ connected(i)
  \/ \E l \in loads : relationsLoaded(l) \/ pageLoaded(l)

ConnSpec == ConnInit /\ [][ConnNext]_connVars

-----------------------------------------------------------------------------
(* Every session that was opened is the live one, or someone is closing it. *)
Owned == \A i \in DOMAIN dials :
  /\ dials[i].at = "held" <=> i = live
  /\ dials[i].at = "gone" => dials[i].driver # "open" /\ dials[i].tunnel # "open" /\ ~dials[i].reg

(* No tunnel is closed under its driver.                                   *)
DriverFirst == \A i \in DOMAIN dials : dials[i].tunnel = "closed" => dials[i].driver # "open"

(* Only the live connection's row is green, and only rows have a colour.    *)
GreenIsLive == up => \A r \in Rows :
  /\ status[r] = "ok" => r = active
  /\ status[r] # "none" => r \in connNames

(* A restore that was given up before it connected never connects.          *)
StaysAbandoned == abandoned /\ live # 0 => dials[live].kind # "restore"

(* A session runs through a jump host only when its key was in known_hosts  *)
(* or the user accepted it.                                                *)
KeyVouched == \A i \in DOMAIN dials : dials[i].tunnel = "open" => dials[i].key \in accepted

(* However dials, replies, renames, removals and the keys cross, no session *)
(* or tunnel is leaked or closed out of order (dial, closeSessionCmd), the  *)
(* panel shows what is live (setConnStatus, refreshConnections), a          *)
(* cancelled restore stays cancelled (the connectedMsg case), and no jump   *)
(* host is trusted silently (hostKeyChecker, sshFailureModal).              *)
SessionsOwned == Owned /\ DriverFirst /\ GreenIsLive /\ StaysAbandoned /\ KeyVouched
=============================================================================
