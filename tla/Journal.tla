------------------------------- MODULE Journal -------------------------------
(***************************************************************************)
(* The files of recalled text: the statements that ran and the WHERE        *)
(* clauses that were applied (internal/history, ui/history.go,              *)
(* ui/filterhistory.go) and the named snippets (internal/snippets,          *)
(* ui/snippets.go). The list in memory is the session's truth; each change  *)
(* starts a command that appends a line or rewrites the file from a         *)
(* snapshot. A package's lock makes each write whole among the writes, but  *)
(* commands run in any order, the load at startup reads without the lock,   *)
(* and the program may stop at any moment, within a line too.               *)
(*                                                                         *)
(* The files share no state, so a behaviour is about one of them.           *)
(***************************************************************************)
EXTENDS Integers, Sequences, FiniteSets, SequencesExt

CONSTANTS
  Texts,       \* statements or clauses
  Scopes,      \* connections, relations or names; 0 is a legacy entry's
  MaxEntries,  \* history.MaxEntries
  MaxRelation, \* history.MaxRelationEntries
  MaxWrites,   \* bound on the changes of a behaviour
  MaxStops     \* bound on its stops and failed writes

ASSUME JournalAssumption ==
  /\ Scopes \subseteq Nat /\ MaxEntries \in Nat \ {0} /\ MaxRelation \in Nat \ {0}
  /\ MaxWrites \in Nat /\ MaxStops \in Nat

VARIABLES
  kind,    \* which of the files: history, filters or snippets
  list,    \* queryModel.history or .snippets, gridModel.filters
  file,    \* the lines that parse; open: the last line is cut off
  writing,    \* the write commands in flight
  load,    \* the load of the startup and the entries it read
  pane,    \* the open historyModal
  clock,   \* the time of the newest entry
  stops,   \* how often the program stopped or a write failed
  dropped, \* what the user dropped from the list since the startup
  clean,   \* no write overlapped another or the load
  owed     \* a write failed since the file was last rewritten

journalVars == <<kind, list, file, writing, load, pane, clock, stops, dropped, clean, owed>>

Entries == [text : Texts, scope : Scopes \cup {0}, at : 0 .. MaxWrites]
Closed == [open |-> FALSE, entries |-> <<>>, cur |-> 1]
Reading == [at |-> "reading", got |-> <<>>]

\* Two names of a snippet are the same in any spelling: 2 and 3 are two
\* spellings, 4 is another name. The sort is by name, then by spelling.
Folded(name) == name \div 2
SameName(e, f) == Folded(e.scope) = Folded(f.scope)
NameBefore(e, f) == e.scope < f.scope
SameClause(e, f) == e.text = f.text /\ e.scope = f.scope

Put(l, e) ==
  SortSeq(Append(SelectSeq(l, LAMBDA f : ~SameName(e, f)), e), NameBefore)

\* The oldest entries of a relation beyond its cap go; l is newest first.
TrimRelation(l, s) ==
  FoldLeft(LAMBDA kept, e :
             IF e.scope = s /\ Len(SelectSeq(kept, LAMBDA f : f.scope = s)) = MaxRelation
             THEN kept ELSE Append(kept, e),
           <<>>, l)

JournalInit ==
  /\ kind \in {"history", "filters", "snippets"}
  /\ list = <<>>
  /\ file \in {[lines |-> <<>>, open |-> FALSE]} \cup
       {[lines |-> <<[text |-> t, scope |-> IF kind = "history" THEN 0 ELSE 2, at |-> 0]>>,
         open |-> FALSE] : t \in Texts}
  /\ writing = {}
  /\ load = Reading
  /\ pane = Closed
  /\ clock = 0 /\ stops = 0
  /\ dropped = {} /\ clean = TRUE /\ owed = FALSE

-----------------------------------------------------------------------------
(* A change of the list starts a command: append one entry, or save all.   *)

WriteLines(op, arg) ==
  /\ writing' = writing \cup {[op |-> op, arg |-> arg, id |-> clock']}
  /\ clean' = (clean /\ load.at = "done" /\ \A j \in writing : j.op = "append" /\ op = "append")

\* The clock runs with each change, so entries made in a session are apart.
Tick == clock < MaxWrites /\ clock' = clock + 1

New(t, s) == [text |-> t, scope |-> s, at |-> clock']

\* At the front, unless the newest entry is the same, and within the cap.
pushHistory(e) ==
  /\ ~ (list # <<>> /\ SameClause(list[1], e))
  /\ list' = SubSeq(<<e>> \o list, 1, IF Len(list) < MaxEntries THEN Len(list) + 1 ELSE MaxEntries)

\* A statement ran.
RecordHistory(t, s) ==
  /\ kind = "history"
  /\ pushHistory(New(t, s))
  /\ dropped' = dropped
  /\ WriteLines("append", <<New(t, s)>>)

\* Plausible bug: a clause applied again is appended, as a new one is.
RecordFilterAppends(t, s) ==
  LET e == New(t, s)
      kept == TrimRelation(<<e>> \o SelectSeq(list, LAMBDA f : ~SameClause(e, f)), s)
  IN /\ kind = "filters"
     /\ list' = kept
     /\ dropped' = dropped \cup (ToSet(list) \ ToSet(kept))
     /\ WriteLines("append", <<e>>)

\* A clause was applied: an older copy and what outgrows the relation go,
\* and then the file is rewritten.
RecordFilter(t, s) ==
  LET e == New(t, s)
      kept == TrimRelation(<<e>> \o SelectSeq(list, LAMBDA f : ~SameClause(e, f)), s)
  IN /\ kind = "filters"
     /\ list' = kept
     /\ dropped' = dropped \cup (ToSet(list) \ ToSet(kept))
     /\ IF Len(kept) = Len(list) + 1 THEN WriteLines("append", <<e>>) ELSE WriteLines("save", kept)

\* The snippet of that name, if any, hands on its creation time.
putSnippet(e) ==
  LET old == SelectSeq(list, LAMBDA f : SameName(e, f))
  IN Put(list, IF old # <<>> /\ old[1].at # 0 THEN [e EXCEPT !.at = old[1].at] ELSE e)

\* A statement is kept under a name; one of that name is replaced, after a
\* confirmation.
StoreSnippet(t, s) ==
  LET l == putSnippet(New(t, s))
  IN /\ kind = "snippets"
     /\ list' = l
     /\ dropped' = (dropped \cup ToSet(list)) \ ToSet(l)
     /\ WriteLines("save", l)

Record ==
  /\ Tick
  /\ \E t \in Texts, s \in Scopes : RecordHistory(t, s) \/ RecordFilter(t, s) \/ StoreSnippet(t, s)
  /\ UNCHANGED <<kind, file, load, pane, stops, owed>>

-----------------------------------------------------------------------------
(* The pane shows a snapshot; a delete is by value, or by the name.        *)

ForConnection(s) == SelectSeq(list, LAMBDA e : e.scope = 0 \/ e.scope = s)

\* What the keys of the WHERE line recall on relation s, newest first.
InRelation(s) == SelectSeq(list, LAMBDA e : e.scope = s)

OpenPane(s) ==
  /\ ~pane.open /\ kind # "filters"
  /\ pane' = [open |-> TRUE, cur |-> 1,
              entries |-> IF kind = "history" THEN ForConnection(s) ELSE list]
  /\ UNCHANGED <<kind, list, file, writing, load, clock, stops, dropped, clean, owed>>

MoveCursor(d) ==
  /\ pane.open /\ pane.cur + d \in 1 .. Len(pane.entries)
  /\ pane' = [pane EXCEPT !.cur = @ + d]
  /\ UNCHANGED <<kind, list, file, writing, load, clock, stops, dropped, clean, owed>>

ClosePane ==
  /\ pane.open /\ pane' = Closed
  /\ UNCHANGED <<kind, list, file, writing, load, clock, stops, dropped, clean, owed>>

\* The first entry of l that is e, all its fields, goes.
DropHistory(l, e) == RemoveFirst(l, e)

\* The row goes from the snapshot, the entry from the list, and the file is
\* rewritten whether the list held it or not.
DeleteEntry(e) ==
  LET left == RemoveAt(pane.entries, pane.cur)
  IN /\ kind = "history"
     /\ pane' = [pane EXCEPT !.entries = left,
                             !.cur = IF @ > Len(left) /\ @ > 1 THEN @ - 1 ELSE @]
     /\ list' = DropHistory(list, e)
     /\ WriteLines("save", list')

removeSnippet(l, e) == SelectSeq(l, LAMBDA f : ~SameName(e, f))

\* The confirmation replaces the pane; the snippet of that name goes.
DeleteSnippet(e) ==
  /\ kind = "snippets"
  /\ pane' = Closed
  /\ list' = removeSnippet(list, e)
  /\ IF list' # list THEN WriteLines("save", list') ELSE UNCHANGED <<writing, clean>>

RemoveSnippet ==
  /\ pane.open /\ pane.cur \in DOMAIN pane.entries
  /\ Tick
  /\ LET e == pane.entries[pane.cur]
     IN /\ DeleteEntry(e) \/ DeleteSnippet(e)
        /\ dropped' = dropped \cup {e} \cup
             IF kind = "snippets" THEN ToSet(list) \ ToSet(list') ELSE {}
  /\ UNCHANGED <<kind, file, load, stops, owed>>

-----------------------------------------------------------------------------
(* The writers. A line appended to one that is cut off is lost with it.    *)

AppendTo(f, e) ==
  IF f.open THEN [f EXCEPT !.open = FALSE] ELSE [f EXCEPT !.lines = Append(@, e)]

\* The file is oldest first, but the snippets are in the order of the list.
SaveHistory(l) == [lines |-> Reverse(l), open |-> FALSE]
SaveSnippets(l) == [lines |-> l, open |-> FALSE]
SaveLines(l) == IF kind = "snippets" THEN SaveSnippets(l) ELSE SaveHistory(l)

RunWrite(j) ==
  /\ writing' = writing \ {j}
  /\ file' = IF j.op = "append" THEN AppendTo(file, j.arg[1]) ELSE SaveLines(j.arg)
  /\ clean' = (clean /\ ~ (j.op = "append" /\ file.open))
  /\ owed' = (owed /\ j.op = "append")
  /\ UNCHANGED <<kind, list, load, pane, clock, stops, dropped>>

\* An append may fail within its line; a rewrite fails before its rename.
WriteFails(j) ==
  /\ stops < MaxStops /\ stops' = stops + 1
  /\ writing' = writing \ {j}
  /\ \E cut \in {FALSE, j.op = "append"} : file' = [file EXCEPT !.open = @ \/ cut]
  /\ owed' = TRUE
  /\ UNCHANGED <<kind, list, load, pane, clock, dropped, clean>>

\* Plausible bug: a rewrite truncates the file first.
LeftBehindTruncated ==
  {file} \cup IF \E j \in writing : j.op = "save" THEN {[file EXCEPT !.lines = <<>>]} ELSE {}

\* What a stop leaves of the file: a line being appended may be cut off,
\* a rewrite is a rename.
LeftBehind ==
  {file} \cup IF \E j \in writing : j.op = "append" THEN {[file EXCEPT !.open = TRUE]} ELSE {}

\* The program stops, or quits with commands in flight, and starts anew.
RestartJournal ==
  /\ stops < MaxStops /\ stops' = stops + 1
  /\ file' \in LeftBehind
  /\ list' = <<>> /\ writing' = {} /\ load' = Reading /\ pane' = Closed
  /\ dropped' = {} /\ owed' = FALSE
  /\ UNCHANGED <<kind, clock, clean>>

-----------------------------------------------------------------------------
(* The load of the startup.                                                *)

\* A name met again replaces the earlier line's.
LoadSnippets == [at |-> "read", got |-> FoldLeft(Put, <<>>, file.lines)]

\* Newest first; more than MaxEntries are cut, and the file with them.
LoadHistory ==
  LET l == Reverse(file.lines)
  IN IF Len(l) > MaxEntries
     THEN [at |-> "compact", got |-> SubSeq(l, 1, MaxEntries)]
     ELSE [at |-> "read", got |-> l]

Read ==
  /\ load.at = "reading"
  /\ load' = IF kind = "snippets" THEN LoadSnippets ELSE LoadHistory
  /\ UNCHANGED <<kind, list, file, writing, pane, clock, stops, dropped, clean, owed>>

Compact ==
  /\ load.at = "compact"
  /\ load' = [load EXCEPT !.at = "read"]
  /\ file' \in {file, SaveLines(load.got)}
  /\ UNCHANGED <<kind, list, writing, pane, clock, stops, dropped, clean, owed>>

\* The reply replaces the list, with what was recorded before it came.
Loaded ==
  /\ load.at = "read"
  /\ load' = [at |-> "done", got |-> <<>>]
  /\ list' = load.got
  /\ UNCHANGED <<kind, file, writing, pane, clock, stops, dropped, clean, owed>>

\* A file that cannot be read leaves the list empty, and later writes go on
\* from there.
LoadFails ==
  /\ load.at = "reading" /\ stops < MaxStops
  /\ stops' = stops + 1
  /\ load' = [at |-> "done", got |-> <<>>]
  /\ clean' = FALSE
  /\ UNCHANGED <<kind, list, file, writing, pane, clock, dropped, owed>>

-----------------------------------------------------------------------------
JournalNext ==
  \/ Record \/ RemoveSnippet \/ ClosePane \/ RestartJournal
  \/ \E s \in Scopes : OpenPane(s)
  \/ \E d \in {-1, 1} : MoveCursor(d)
  \/ \E j \in writing : RunWrite(j) \/ WriteFails(j)
  \/ Read \/ Compact \/ Loaded \/ LoadFails

JournalSpec == JournalInit /\ [][JournalNext]_journalVars

-----------------------------------------------------------------------------
\* Each list keeps to its rule whatever was interleaved: the history to its
\* cap, the snippets to one of a name in the order of the names; and the
\* filters, while no write overlapped another, to one copy of a clause and
\* to the cap of a relation.
Tidy ==
  /\ kind = "history" => Len(list) <= MaxEntries
  /\ kind = "snippets" =>
       \A i, k \in DOMAIN list : i < k => Folded(list[i].scope) < Folded(list[k].scope)
  /\ kind = "filters" /\ clean =>
       \A s \in Scopes :
         /\ Len(InRelation(s)) <= MaxRelation
         /\ \A i, k \in DOMAIN InRelation(s) :
              InRelation(s)[i].text = InRelation(s)[k].text => i = k

\* The lists keep to their rules; and once the writes have run, and if none overlapped another or
\* failed, the file holds what the list shows and nothing that the user dropped.
Settled ==
  /\ Tidy
  /\ clean /\ ~owed /\ writing = {} /\ load.at = "done" =>
       ToSet(list) \subseteq ToSet(file.lines) /\ ToSet(file.lines) \cap dropped = {}

\* No stop, failed write or load takes a line from the file: it goes when
\* the user dropped it, or when newer ones pushed it out of the list or,
\* at the load, beyond the cap.
NothingLost ==
  [][clean' =>
       \A e \in ToSet(file.lines) \ ToSet(file'.lines) :
         \/ e \in dropped
         \/ kind # "snippets" /\ load.at = "done" /\ e \notin ToSet(list)
         \/ kind # "snippets" /\ e \in ToSet(SubSeq(file.lines, 1, Len(file.lines) - MaxEntries))]_journalVars
=============================================================================
