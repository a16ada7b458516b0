------------------------------- MODULE Tunnel -------------------------------
(***************************************************************************)
(* An SSH tunnel and what runs through it (internal/sshtunnel): it opens in *)
(* steps, connections are opened through it by drivers at any time, a local *)
(* forward splices the connections of an external tool onto it, and each of *)
(* them is closed by its user, by the forward or by the tunnel, from        *)
(* different goroutines. A mutex guards each set of open connections; what  *)
(* may block is done without it.                                           *)
(***************************************************************************)
EXTENDS Integers, FiniteSets

CONSTANTS
  Direct,   \* connections a driver asks for
  Spliced,  \* connections an external tool makes to the forward
  Closers   \* goroutines that close the tunnel

ASSUME TunnelConstants ==
  /\ Direct \cap Spliced = {}
  /\ Spliced \cap {"none", "accept", "done"} = {}

VARIABLES
  opening,   \* where Open is
  socket,    \* the TCP connection to the jump host
  agent,     \* the socket of the SSH agent, where the method uses one
  closed,    \* Tunnel.closed
  conns,     \* Tunnel.conns
  shutting,    \* where each caller of Tunnel.Close is
  snapshot,  \* the connections the closing caller took from conns
  dial,      \* where each connection's opening or closing is
  chan,      \* its channel
  fclosed,   \* Forward.closed
  fclose,    \* where the caller of Forward.Close is
  listener,  \* the forward's listener
  acceptor,  \* the connection the accepting goroutine holds, or its state
  fconns,    \* Forward.conns
  local,     \* the tool's end of each connection
  copies,    \* the directions a splice still copies
  wrote,     \* the tool has no more to write
  answered   \* the server has no more to write

tunnelVars == <<opening, socket, agent, closed, conns, shutting, snapshot, dial, chan,
                fclosed, fclose, listener, acceptor, fconns, local, copies, wrote, answered>>
openVars == <<opening, socket, agent>>
forwardVars == <<fclosed, fclose, listener, acceptor, fconns, local>>
spliceVars == <<copies, wrote, answered>>
closeVars == <<closed, conns, shutting, snapshot>>

Conns == Direct \cup Spliced

TunnelInit ==
  /\ opening = "resolve" /\ socket = "none" /\ agent = "none"
  /\ closed = FALSE /\ conns = {}
  /\ shutting = [c \in Closers |-> "idle"]
  /\ snapshot = {}
  /\ dial = [i \in Conns |-> "idle"]
  /\ chan = [i \in Conns |-> "none"]
  /\ fclosed = FALSE /\ fclose = "idle" /\ listener = "none" /\ acceptor = "none"
  /\ fconns = {} /\ local = [i \in Spliced |-> "none"]
  /\ copies = [i \in Spliced |-> {}]
  /\ wrote = {} /\ answered = {}

-----------------------------------------------------------------------------
(* Open.                                                                   *)

\* Everything after the agent's socket can fail, and closes it.
OpenFails(what) ==
  /\ opening' = "failed"
  /\ socket' = IF socket = "open" THEN "closed" ELSE socket
  /\ agent' = what

closeExtra == IF agent = "open" THEN "closed" ELSE agent

Resolve ==
  /\ opening = "resolve"
  /\ \/ opening' = "auth" /\ UNCHANGED <<socket, agent>>
     \/ OpenFails(agent)

\* The agent's method holds its socket open; a password or key does not.
authMethods ==
  /\ opening = "auth"
  /\ \/ opening' = "dial" /\ agent' \in {"none", "open"} /\ UNCHANGED socket
     \/ OpenFails(agent)

\* known_hosts is read, then the jump host is dialled.
dialHost ==
  /\ opening = "dial"
  /\ \/ opening' = "handshake" /\ socket' = "open" /\ UNCHANGED agent
     \/ OpenFails(closeExtra)

handshake ==
  /\ opening = "handshake"
  /\ \/ opening' = "up" /\ UNCHANGED <<socket, agent>>
     \/ OpenFails(closeExtra)

OpenTunnel ==
  /\ Resolve \/ authMethods \/ dialHost \/ handshake
  /\ UNCHANGED <<closeVars, dial, chan, forwardVars, spliceVars>>

-----------------------------------------------------------------------------
(* DialContext: a look at closed, the channel without the lock, and again.  *)

DialRefused(i) == dial' = [dial EXCEPT ![i] = "failed"]

dialCheck(i) ==
  /\ opening = "up" /\ dial[i] = "asked"
  /\ dial' = [dial EXCEPT ![i] = IF closed THEN "failed" ELSE "opening"]
  /\ UNCHANGED chan

\* The far side may refuse, answer late, or never.
dialChannel(i) ==
  /\ dial[i] = "opening"
  /\ \/ socket = "open" /\ chan' = [chan EXCEPT ![i] = "open"] /\ dial' = [dial EXCEPT ![i] = "opened"]
     \/ DialRefused(i) /\ UNCHANGED chan

\* Plausible bug: nobody looks whether the forward's context is cancelled.
dialEndsWithSocket(i) ==
  /\ dial[i] = "opening" /\ socket # "open"
  /\ DialRefused(i) /\ UNCHANGED chan

\* It ends when the connection under it does, or the forward's context.
dialEnds(i) ==
  /\ dial[i] = "opening" /\ (socket # "open" \/ (i \in Spliced /\ fclosed))
  /\ DialRefused(i) /\ UNCHANGED chan

\* Plausible bug: a connection opened while the tunnel closed is handed out.
dialTracksAlways(i) ==
  /\ dial[i] = "opened"
  /\ conns' = conns \cup {i} /\ dial' = [dial EXCEPT ![i] = "open"] /\ UNCHANGED chan

\* Handed out and tracked, unless Close came first.
dialTrack(i) ==
  /\ dial[i] = "opened"
  /\ IF closed THEN DialRefused(i) /\ chan' = [chan EXCEPT ![i] = "closed"] /\ UNCHANGED conns
     ELSE conns' = conns \cup {i} /\ dial' = [dial EXCEPT ![i] = "open"] /\ UNCHANGED chan

DriverDials(i) ==
  /\ opening = "up" /\ i \in Direct /\ dial[i] = "idle"
  /\ dial' = [dial EXCEPT ![i] = "asked"]
  /\ UNCHANGED <<openVars, closeVars, chan, forwardVars, spliceVars>>

DialContext(i) ==
  /\ \/ (dialCheck(i) \/ dialChannel(i) \/ dialEnds(i)) /\ UNCHANGED conns
     \/ dialTrack(i)
  /\ UNCHANGED <<openVars, closed, shutting, snapshot, forwardVars, spliceVars>>

\* A tracked connection leaves the set, once, and is then closed.
Untrack(i) == conns' = conns \ {i} /\ dial' = [dial EXCEPT ![i] = "closing"]

DriverCloses(i) ==
  /\ i \in Direct /\ dial[i] = "open"
  /\ Untrack(i)
  /\ UNCHANGED <<openVars, closed, shutting, snapshot, chan, forwardVars, spliceVars>>

ConnCloses(i) ==
  /\ dial[i] = "closing"
  /\ chan' = [chan EXCEPT ![i] = "closed"] /\ dial' = [dial EXCEPT ![i] = "closed"]
  /\ UNCHANGED <<openVars, closeVars, forwardVars, spliceVars>>

-----------------------------------------------------------------------------
(* Tunnel.Close, by several callers.                                       *)

Closer(c, to) == shutting' = [shutting EXCEPT ![c] = to]

\* The first caller closes; another waits for it.
TunnelClose(c) ==
  /\ opening = "up" /\ shutting[c] = "idle"
  /\ IF closed THEN Closer(c, "waiting") /\ UNCHANGED <<closed, conns, snapshot>>
     ELSE /\ Closer(c, "conns")
          /\ closed' = TRUE /\ snapshot' = conns /\ conns' = {}
  /\ UNCHANGED <<openVars, dial, chan, forwardVars, spliceVars>>

\* Each connection of the snapshot.
TunnelClosesConn(c, i) ==
  /\ shutting[c] = "conns" /\ i \in snapshot
  /\ snapshot' = snapshot \ {i}
  /\ chan' = [chan EXCEPT ![i] = "closed"]
  /\ UNCHANGED <<openVars, closed, conns, shutting, dial, forwardVars, spliceVars>>

\* The SSH connection: no channel survives it.
TunnelClosesClient(c) ==
  /\ shutting[c] = "conns" /\ snapshot = {}
  /\ Closer(c, "agent")
  /\ socket' = "closed"
  /\ chan' = [i \in Conns |-> IF chan[i] = "open" THEN "closed" ELSE chan[i]]
  /\ UNCHANGED <<opening, agent, closed, conns, snapshot, dial, forwardVars, spliceVars>>

\* The agent's socket, and then whoever waits.
TunnelClosed(c) ==
  /\ shutting[c] = "agent"
  /\ agent' = closeExtra
  /\ shutting' = [d \in Closers |-> IF d = c \/ shutting[d] = "waiting" THEN "returned" ELSE shutting[d]]
  /\ UNCHANGED <<opening, socket, closed, conns, snapshot, dial, chan, forwardVars, spliceVars>>

\* After it was closed a caller finds the channel of the waiters closed.
TunnelClosedBefore(c) ==
  /\ shutting[c] = "waiting" /\ \E d \in Closers : shutting[d] = "returned"
  /\ Closer(c, "returned")
  /\ UNCHANGED <<openVars, closed, conns, snapshot, dial, chan, forwardVars, spliceVars>>

-----------------------------------------------------------------------------
(* The forward: its listener, its accepting goroutine, and a splice for     *)
(* each connection.                                                        *)

Listen ==
  /\ opening = "up" /\ listener = "none"
  /\ listener' = "open" /\ acceptor' = "accept"
  /\ UNCHANGED <<openVars, closeVars, dial, chan, fclosed, fclose, fconns, local, spliceVars>>

Accept(i) ==
  /\ acceptor = "accept" /\ listener = "open" /\ local[i] = "none"
  /\ local' = [local EXCEPT ![i] = "open"]
  /\ acceptor' = i
  /\ UNCHANGED <<openVars, closeVars, dial, chan, fclosed, fclose, listener, fconns, spliceVars>>

AcceptEnds ==
  /\ acceptor = "accept" /\ listener = "closed"
  /\ acceptor' = "done"
  /\ UNCHANGED <<openVars, closeVars, dial, chan, fclosed, fclose, listener, fconns, local, spliceVars>>

\* A connection accepted while the forward closed is closed at once.
Accepted(i) ==
  /\ acceptor = i
  /\ IF fclosed
     THEN local' = [local EXCEPT ![i] = "closed"] /\ acceptor' = "done" /\ UNCHANGED <<fconns, dial>>
     ELSE /\ fconns' = fconns \cup {i} /\ acceptor' = "accept" /\ UNCHANGED local
          /\ dial' = [dial EXCEPT ![i] = "asked"]
  /\ UNCHANGED <<openVars, closeVars, chan, fclosed, fclose, listener, spliceVars>>

\* The channel is there: both directions are copied.
splice(i) ==
  /\ dial[i] = "open" /\ local[i] # "none" /\ copies[i] = {} /\ i \in fconns
  /\ copies' = [copies EXCEPT ![i] = {"up", "down"}]
  /\ dial' = [dial EXCEPT ![i] = "spliced"]
  /\ UNCHANGED <<openVars, closeVars, chan, forwardVars, wrote, answered>>

ToolWrote(i) ==
  /\ local[i] = "open" /\ i \notin wrote
  /\ wrote' = wrote \cup {i}
  /\ UNCHANGED <<openVars, closeVars, dial, chan, forwardVars, copies, answered>>

ServerAnswered(i) ==
  /\ chan[i] = "open" /\ i \notin answered
  /\ answered' = answered \cup {i}
  /\ UNCHANGED <<openVars, closeVars, dial, chan, forwardVars, copies, wrote>>

\* The tool's end is no more read. A tracked connection has no CloseWrite of
\* its own, so the channel is closed, both directions of it.
copyUp(i) ==
  /\ "up" \in copies[i]
  /\ i \in wrote \/ local[i] = "closed" \/ chan[i] = "closed"
  /\ copies' = [copies EXCEPT ![i] = @ \ {"up"}]
  /\ conns' = conns \ {i}
  /\ chan' = [chan EXCEPT ![i] = "closed"]
  /\ UNCHANGED <<openVars, closed, shutting, snapshot, dial, forwardVars, wrote, answered>>

\* The server's end is no more read: the tool sees the end of it.
copyDown(i) ==
  /\ "down" \in copies[i]
  /\ i \in answered \/ local[i] = "closed" \/ chan[i] = "closed"
  /\ copies' = [copies EXCEPT ![i] = @ \ {"down"}]
  /\ UNCHANGED <<openVars, closeVars, dial, chan, forwardVars, wrote, answered>>

\* Both are done, or the channel was refused: the connections are closed.
spliceEnds(i) ==
  /\ i \in fconns
  /\ \/ dial[i] = "spliced" /\ copies[i] = {} /\ Untrack(i)
     \/ dial[i] = "failed" /\ UNCHANGED <<conns, dial>>
  /\ fconns' = fconns \ {i}
  /\ local' = [local EXCEPT ![i] = "closed"]
  /\ UNCHANGED <<openVars, closed, shutting, snapshot, chan, fclosed, fclose, listener, acceptor, spliceVars>>

\* Forward.Close: the context, then the listener and each connection, then it
\* waits for the goroutines.
ForwardClose ==
  /\ listener = "open" /\ fclose = "idle"
  /\ fclosed' = TRUE
  /\ fclose' = "closing"
  /\ UNCHANGED <<openVars, closeVars, dial, chan, listener, acceptor, fconns, local, spliceVars>>

ForwardCloses ==
  /\ fclose = "closing"
  /\ listener' = "closed"
  /\ local' = [i \in Spliced |-> IF i \in fconns THEN "closed" ELSE local[i]]
  /\ fclose' = "waiting"
  /\ UNCHANGED <<openVars, closeVars, dial, chan, fclosed, acceptor, fconns, spliceVars>>

ForwardWaited ==
  /\ fclose = "waiting" /\ acceptor = "done" /\ fconns = {}
  /\ fclose' = "returned"
  /\ UNCHANGED <<openVars, closeVars, dial, chan, fclosed, listener, acceptor, fconns, local, spliceVars>>

ForwardSteps ==
  \/ AcceptEnds \/ ForwardCloses \/ ForwardWaited
  \/ \E i \in Spliced : Accepted(i) \/ splice(i) \/ copyUp(i) \/ copyDown(i) \/ spliceEnds(i)

dialRuns(i) ==
  /\ \/ (dialCheck(i) \/ dialEnds(i)) /\ UNCHANGED conns
     \/ dialTrack(i)
  /\ UNCHANGED <<openVars, closed, shutting, snapshot, forwardVars, spliceVars>>
closerRuns(c) ==
  \/ TunnelClosesClient(c) \/ TunnelClosed(c) \/ TunnelClosedBefore(c)
  \/ \E i \in Conns : TunnelClosesConn(c, i)

TunnelNext ==
  \/ OpenTunnel \/ Listen \/ ForwardClose \/ ForwardSteps
  \/ \E i \in Conns : DriverDials(i) \/ DialContext(i) \/ DriverCloses(i) \/ ConnCloses(i)
  \/ \E i \in Spliced : Accept(i) \/ ToolWrote(i) \/ ServerAnswered(i)
  \/ \E c \in Closers : TunnelClose(c) \/ closerRuns(c)

\* What runs goes on: the goroutines, and a dial once it can only end. The
\* far side's answers and the users' calls are theirs to make.
TunnelFairness ==
  /\ WF_tunnelVars(ForwardSteps)
  /\ \A i \in Conns : WF_tunnelVars(dialRuns(i) \/ ConnCloses(i))
  /\ \A c \in Closers : WF_tunnelVars(closerRuns(c))

TunnelSpec == TunnelInit /\ [][TunnelNext]_tunnelVars /\ TunnelFairness

-----------------------------------------------------------------------------
(* A closed tunnel tracks nothing, and one that is not tracks what it gave  *)
(* out.                                                                    *)
Tracked ==
  /\ closed => conns = {}
  /\ \A i \in Conns : ~closed /\ dial[i] \in {"open", "spliced"} /\ chan[i] = "open" => i \in conns

(* When Close returned, to either caller, nothing of the tunnel is open.    *)
NothingOutlives ==
  (\E c \in Closers : shutting[c] = "returned") =>
    socket # "open" /\ agent # "open" /\ \A i \in Conns : chan[i] # "open" \/ dial[i] = "opened"

(* An Open that failed holds nothing.                                      *)
FailedOpenHoldsNothing == opening = "failed" => socket # "open" /\ agent # "open"

(* When Forward.Close returned, the tool's connections and the goroutines   *)
(* that served them are gone.                                              *)
ForwardGone ==
  fclose = "returned" =>
    /\ acceptor = "done" /\ listener = "closed"
    /\ \A i \in Spliced : local[i] # "open" /\ copies[i] = {}

(* Whoever closes what, in whatever order, nothing of a tunnel outlives it  *)
(* (Tunnel.Open, DialContext, Close) and nothing of a forward outlives the  *)
(* forward (Forward.accept, splice, Close).                                *)
TunnelTidy == Tracked /\ NothingOutlives /\ FailedOpenHoldsNothing /\ ForwardGone

(* Close returns, of the tunnel and of the forward, though a channel was    *)
(* still being opened or a tool keeps its connection (Tunnel.Close waits    *)
(* for the SSH connection, Forward.Close for its goroutines).               *)
ClosesReturn ==
  /\ \A c \in Closers : shutting[c] # "idle" ~> shutting[c] = "returned"
  /\ fclose # "idle" ~> fclose = "returned"
=============================================================================
