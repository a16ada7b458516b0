---------------------------- MODULE StagedCommit ----------------------------
(***************************************************************************)
(* The life of a staged change in the update loop (internal/ui/edit.go,    *)
(* rowops.go, schemaops.go, model.go): it is staged by a key or through a  *)
(* modal, captured by the commit's confirmation, executed by a goroutine   *)
(* on whatever driver is live when the confirmation is answered, and       *)
(* dropped when the reply says the commit succeeded. Meanwhile dials may   *)
(* replace the connection and the editor may open a transaction.           *)
(*                                                                         *)
(* What a change says and how the changeset keeps it is module Changeset;  *)
(* here a change is an identity. The guarantees depend on the user waiting *)
(* for what is in flight and on answers that arrive: risks records what    *)
(* did not, and each property says which of it would break it.             *)
(***************************************************************************)
EXTENDS Naturals, FiniteSets

CONSTANTS
  Sessions,         \* identities of the drivers dials return, each used once
  Changes,          \* identities of the changes staged, each used once
  None,             \* no driver
  ReadOnlySessions, \* sessions on read-only connections
  MaxDials,         \* bound on the dials of a behaviour
  MaxCommits        \* bound on the commits confirmed

ASSUME StagedAssumption ==
  /\ None \notin Sessions
  /\ ReadOnlySessions \subseteq Sessions
  /\ MaxDials \in Nat
  /\ MaxCommits \in Nat

VARIABLES
  live,    \* Model.driver
  opened,  \* drivers that have been live
  dialed,  \* dials started so far
  dials,   \* of those, still in flight
  modal,   \* the open modal: its kind, the driver it was opened over and
            \* the changes it captured
  staged,  \* the changeset
  home,    \* a change: the driver whose tables it was staged for
  gone,    \* a change: why it left the changeset
  commits, \* commits confirmed so far
  flights, \* commits executing: the driver and the changes
  replies, \* changesCommittedMsg not reduced yet
  applied, \* a change: how often each driver has applied it
  told,    \* the last reply reduced: what it carried and what it said
  tx,      \* the editor's transaction on the live driver: "none", "begin", "open"
  risks    \* "dial", "commit": a key was pressed while one was in flight;
            \* "lost": the answer to a COMMIT was lost

stagedVars == <<live, opened, dialed, dials, modal, staged, home, gone, commits, flights,
          replies, applied, told, tx, risks>>

conns == <<live, opened, dialed, dials>>
changes == <<staged, home, gone>>
commit == <<commits, flights, replies, applied, told>>

NoModal == [kind |-> "none", over |-> None, changes |-> {}]
Modal(k, cs) == [kind |-> k, over |-> live, changes |-> cs]
Silence == [changes |-> {}, ok |-> TRUE, driver |-> None]

\* A key reaches the grid: no modal takes it.
Unawaited == {w \in {"dial", "commit"} : IF w = "dial" THEN dials > 0 ELSE flights \cup replies # {}}
Key == modal = NoModal /\ risks' = risks \cup Unawaited

StagedInit ==
  /\ live = None
  /\ opened = {}
  /\ dialed = 0
  /\ dials = 0
  /\ modal = NoModal
  /\ staged = {}
  /\ home = [c \in Changes |-> None]
  /\ gone = [c \in Changes |-> "no"]
  /\ commits = 0
  /\ flights = {}
  /\ replies = {}
  /\ applied = [c \in Changes |-> [s \in Sessions |-> 0]]
  /\ told = Silence
  /\ tx = "none"
  /\ risks = {}

-----------------------------------------------------------------------------
(* Staging.                                                                *)

New(c) == home[c] = None /\ gone[c] = "no"

stageOn(c, s) ==
  /\ New(c)
  /\ staged' = staged \cup {c}
  /\ home' = [home EXCEPT ![c] = s]
  /\ gone' = gone

Leaves(cs, why) ==
  /\ staged' = staged \ cs
  /\ gone' = [c \in Changes |-> IF c \in staged \cap cs THEN why ELSE gone[c]]
  /\ home' = home

Editable == Key /\ live # None /\ live \notin ReadOnlySessions

\* d, and a schema change without a confirmation: staged on the spot.
StageNow(c) ==
  /\ Editable
  /\ stageOn(c, live)
  /\ UNCHANGED <<conns, modal, commit, tx>>

\* e, n, D, and a destructive schema change: a modal first. It keeps the
\* table it was opened on and stages into the changeset of the moment.
OpenEdit ==
  /\ Editable
  /\ modal' = Modal("edit", {})
  /\ UNCHANGED <<conns, changes, commit, tx>>

ConfirmEdit(c) ==
  /\ modal.kind = "edit"
  /\ stageOn(c, modal.over)
  /\ modal' = NoModal
  /\ UNCHANGED <<conns, commit, tx, risks>>

\* u
Unstage(c) ==
  /\ Key
  /\ c \in staged
  /\ Leaves({c}, "unstaged")
  /\ UNCHANGED <<conns, modal, commit, tx>>

\* U and R ask before they throw the changeset away.
confirmDiscard ==
  /\ Key
  /\ staged # {}
  /\ modal' = Modal("discard", {})
  /\ UNCHANGED <<conns, changes, commit, tx>>

ConfirmDiscard ==
  /\ modal.kind = "discard"
  /\ modal' = NoModal
  /\ Leaves(staged, "discarded")
  /\ UNCHANGED <<conns, commit, tx, risks>>

-----------------------------------------------------------------------------
(* Committing.                                                             *)

\* Plausible bug: a BEGIN in flight is not a transaction yet.
refuseWithTxOpen == tx = "open"
refuseWithTx == tx # "none"

\* c: refused on a read-only connection and while the editor has a
\* transaction; the modal keeps the statements of this moment.
openCommitModal ==
  /\ Key
  /\ live # None
  /\ live \notin ReadOnlySessions
  /\ staged # {}
  /\ modal' = IF refuseWithTx THEN Modal("info", {}) ELSE Modal("commit", staged)
  /\ UNCHANGED <<conns, changes, commit, tx>>

\* commitChangesCmd on the driver of the moment.
ConfirmCommit ==
  /\ modal.kind = "commit"
  /\ commits < MaxCommits
  /\ commits' = commits + 1
  /\ modal' = NoModal
  /\ flights' = flights \cup {[n |-> commits', driver |-> live, changes |-> modal.changes]}
  /\ UNCHANGED <<conns, changes, replies, applied, told, tx, risks>>

Reply(f, ok) == [n |-> f.n, driver |-> f.driver, changes |-> f.changes, ok |-> ok]

\* The session refuses a write by itself.
MayExec(f) == f.driver \notin ReadOnlySessions

Apply(cs, d) ==
  applied' = [c \in Changes |-> IF c \in cs THEN [applied[c] EXCEPT ![d] = @ + 1] ELSE applied[c]]

\* Plausible bug: an error returns without rolling back what ran before it.
LeavesSome(f) == f.changes

\* What a failed commit leaves applied: ExecTx rolls every statement back.
LeavesApplied(f) == {}

\* The answer to the COMMIT may be lost, which the caller sees as an error.
ExecOn(f) ==
  /\ f \in flights
  /\ flights' = flights \ {f}
  /\ \/ /\ MayExec(f)
        /\ Apply(f.changes, f.driver)
        /\ \/ replies' = replies \cup {Reply(f, TRUE)} /\ risks' = risks
           \/ replies' = replies \cup {Reply(f, FALSE)} /\ risks' = risks \cup {"lost"}
     \/ /\ Apply(LeavesApplied(f), f.driver)
        /\ replies' = replies \cup {Reply(f, FALSE)}
        /\ risks' = risks
  /\ UNCHANGED <<conns, modal, changes, commits, told, tx>>

Succeeded(r) == Leaves(staged, "committed")
Failed(r) == UNCHANGED changes

\* changesCommittedMsg: success clears the changeset, whatever it holds by
\* now; an error keeps it.
changesCommitted(r) ==
  /\ r \in replies
  /\ replies' = replies \ {r}
  /\ told' = [changes |-> r.changes, ok |-> r.ok, driver |-> r.driver]
  /\ IF r.ok THEN Succeeded(r) ELSE Failed(r)
  /\ UNCHANGED <<conns, modal, commits, flights, applied, tx, risks>>

-----------------------------------------------------------------------------
(* The connection and the editor's transaction.                            *)

Dial ==
  /\ Key
  /\ dialed < MaxDials
  /\ IF tx = "none" THEN dialed' = dialed + 1 /\ dials' = dials + 1 /\ modal' = modal
     ELSE modal' = Modal("connect", {}) /\ UNCHANGED <<dialed, dials>>
  /\ UNCHANGED <<live, opened, changes, commit, tx>>

ConfirmConnect ==
  /\ modal.kind = "connect"
  /\ dialed' = dialed + 1
  /\ dials' = dials + 1
  /\ modal' = NoModal
  /\ UNCHANGED <<live, opened, changes, commit, tx, risks>>

\* Plausible bug: the changeset survives its connection.
resetBrowseKeeps == UNCHANGED changes /\ tx' = "none"

\* "They are discarded, not committed."
resetBrowse == Leaves(staged, "session") /\ tx' = "none"

\* connectedMsg, under whatever modal is open.
Connected(s) ==
  /\ dials > 0
  /\ s \notin opened
  /\ dials' = dials - 1
  /\ opened' = opened \cup {s}
  /\ live' = s
  /\ resetBrowse
  /\ UNCHANGED <<dialed, modal, commit, risks>>

ConnectFailed ==
  /\ dials > 0
  /\ dials' = dials - 1
  /\ modal' = Modal("info", {})
  /\ UNCHANGED <<live, opened, dialed, changes, commit, tx, risks>>

\* x, and removing the connection.
Disconnect ==
  /\ Key
  /\ live # None
  /\ IF tx = "none" THEN live' = None /\ resetBrowse /\ modal' = modal
     ELSE modal' = Modal("disconnect", {}) /\ UNCHANGED <<live, changes, tx>>
  /\ UNCHANGED <<opened, dialed, dials, commit>>

ConfirmDisconnect ==
  /\ modal.kind = "disconnect"
  /\ modal' = NoModal
  /\ live' = None
  /\ resetBrowse
  /\ UNCHANGED <<opened, dialed, dials, commit, risks>>

\* B looks at the connection and the editor's own state only.
beginTx ==
  /\ Key
  /\ live # None
  /\ live \notin ReadOnlySessions
  /\ tx = "none"
  /\ tx' = "begin"
  /\ UNCHANGED <<conns, modal, changes, commit>>

applyTxBegun ==
  /\ tx = "begin"
  /\ tx' \in {"open", "none"}
  /\ UNCHANGED <<conns, modal, changes, commit, risks>>

\* C or U, confirmed and served, or a statement that ended it: the reply is
\* reduced under whatever modal is open.
TxEnds ==
  /\ tx = "open"
  /\ tx' = "none"
  /\ UNCHANGED <<conns, modal, changes, commit, risks>>

Dismiss ==
  /\ modal # NoModal
  /\ modal' = NoModal
  /\ UNCHANGED <<conns, changes, commit, tx, risks>>

StagedNext ==
  \/ \E c \in Changes : StageNow(c) \/ ConfirmEdit(c) \/ Unstage(c)
  \/ OpenEdit \/ confirmDiscard \/ ConfirmDiscard
  \/ openCommitModal \/ ConfirmCommit
  \/ \E f \in flights : ExecOn(f)
  \/ \E r \in replies : changesCommitted(r)
  \/ Dial \/ ConfirmConnect \/ ConnectFailed \/ Disconnect \/ ConfirmDisconnect
  \/ \E s \in Sessions : Connected(s)
  \/ beginTx \/ applyTxBegun \/ TxEnds \/ Dismiss

StagedSpec == StagedInit /\ [][StagedNext]_stagedVars

-----------------------------------------------------------------------------
Flights == [n : 1..MaxCommits, driver : Sessions \cup {None}, changes : SUBSET Changes]
CommitReplies == [n : 1..MaxCommits, driver : Sessions \cup {None}, changes : SUBSET Changes, ok : BOOLEAN]

(* Every variable keeps its type.                                          *)
StagedTypeOK ==
  /\ live \in Sessions \cup {None}
  /\ opened \subseteq Sessions
  /\ dialed \in 0..(MaxDials + 1)
  /\ dials \in 0..(MaxDials + 1)
  /\ modal \in [kind : {"none", "edit", "discard", "commit", "info", "connect", "disconnect"},
                over : Sessions \cup {None}, changes : SUBSET Changes]
  /\ staged \subseteq Changes
  /\ home \in [Changes -> Sessions \cup {None}]
  /\ gone \in [Changes -> {"no", "unstaged", "discarded", "session", "committed"}]
  /\ commits \in 0..MaxCommits
  /\ flights \in SUBSET Flights
  /\ replies \in SUBSET CommitReplies
  /\ applied \in [Changes -> [Sessions -> Nat]]
  /\ told \in [changes : SUBSET Changes, ok : BOOLEAN, driver : Sessions \cup {None}]
  /\ tx \in {"none", "begin", "open"}
  /\ risks \subseteq {"dial", "commit", "lost"}

(* A change is applied on the connection whose tables it was staged for    *)
(* and nowhere else (model.go resetBrowse: "Staged changes reference the   *)
(* connection's tables; they cannot survive it"), however the user races   *)
(* the commits; that he awaits his dials is needed, see NeverElsewhere.    *)
AppliedWhereStaged ==
  "dial" \notin risks =>
    \A c \in Changes, s \in Sessions : applied[c][s] > 0 => home[c] = s

(* No change is applied twice: one staged insert is one row                *)
(* (db/changeset.go RowInsert). A second commit confirmed beside the first *)
(* or a retry after a lost answer would.                                   *)
AppliedOnce ==
  risks \cap {"commit", "lost"} = {} =>
    \A c \in Changes : Cardinality({s \in Sessions : applied[c][s] > 0}) <= 1
                       /\ \A s \in Sessions : applied[c][s] <= 1

(* What the changeset says of a commit is true. A change leaves it as      *)
(* committed only when it was applied: anything else goes through a key    *)
(* that unstages it, a confirmed discard or the end of its connection      *)
(* (edit.go confirmDiscard: "throw the whole changeset away, after         *)
(* asking"). A commit reported as failed applied nothing (edit.go          *)
(* openCommitModal: "on error nothing is applied and the changeset is      *)
(* kept"), unless its answer was lost. A change staged or a commit         *)
(* confirmed beside one in flight has neither.                             *)
OutcomeIsTrue ==
  "commit" \notin risks =>
    /\ \A c \in Changes : gone[c] = "committed" => \E s \in Sessions : applied[c][s] > 0
    /\ "lost" \notin risks /\ ~told.ok /\ flights \cup replies = {} =>
         \A c \in told.changes, s \in Sessions : applied[c][s] = 0

(* The changeset's commit never runs beside the editor's transaction       *)
(* (edit.go openCommitModal: "it is never interleaved with - or silently   *)
(* nested in - the editor's"), unless B comes after it.                    *)
NeverInterleaved ==
  "commit" \notin risks => \A f \in flights : f.driver = live => tx = "none"

(* The same as AppliedWhereStaged whatever the user does, as model.go      *)
(* resetBrowse has it: "They are discarded, not committed".                *)
NeverElsewhere ==
  \A c \in Changes, s \in Sessions : applied[c][s] > 0 => home[c] = s

(* A change is applied where it was staged, and once.                       *)
AppliedAsStaged == StagedTypeOK /\ AppliedWhereStaged /\ AppliedOnce
=============================================================================
