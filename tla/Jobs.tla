-------------------------------- MODULE Jobs --------------------------------
(***************************************************************************)
(* The jobs that run beside the update loop (ui/exportsmodel.go): an export *)
(* to a file, the DDL of a whole database, a CSV import, and a dump or      *)
(* restore. Each kind runs one at a time: a prompt starts a worker, which   *)
(* reports on an unbuffered channel that only the loop pulls, one message   *)
(* per message it reduced, and whose last message frees the kind.           *)
(*                                                                         *)
(* Replacing or closing the connection cancels what runs through it, at any *)
(* moment, also under an open prompt. The DDL worker has no channel: its    *)
(* command returns the last message, the one reader it starts with.         *)
(***************************************************************************)
EXTENDS Naturals, Sequences, FiniteSets

CONSTANTS
  MaxJobs,   \* bound on the jobs of a behaviour
  MaxDue     \* bound on the follow-up messages in flight

ASSUME BoundsAssumption == MaxJobs \in Nat /\ MaxDue \in Nat

Kinds == {"file", "ddl", "csv", "backup"}
Acts == {"dump", "restore"}

VARIABLES
  live,    \* Model.driver is set
  grid,    \* the grid shows a relation or a result
  modal,   \* the open modal
  due,     \* how many importSetupMsg and backupPasswordMsg are in flight
  run,     \* exportsModel: per kind its running, id and, as job, its ctx and ch
  jobs,    \* the workers, in the order they started
  half,    \* the kinds, file and backup, whose path holds a part of the file
  dumped   \* the dump's path holds a complete dump

shell == <<live, grid>>
disk == <<half, dumped>>
vars == <<shell, modal, due, run, jobs, disk>>

Ready == modal = "none"
Ids == DOMAIN jobs

\* The worker of job j, whose next step is at.
Worker(j, at) == j \in Ids /\ jobs[j].at = at

\* Job j's message is of the run its kind is in.
Current(j) == run[jobs[j].kind].id = jobs[j].id

Init ==
  /\ live = FALSE /\ grid = FALSE
  /\ modal = "none"
  /\ due = [m \in Acts \cup {"csv"} |-> 0]
  /\ run = [k \in Kinds |-> [running |-> FALSE, id |-> 0, job |-> 0]]
  /\ jobs = <<>>
  /\ half = {} /\ dumped = FALSE

-----------------------------------------------------------------------------
(* The connection.                                                         *)

resetBrowse == grid' = FALSE

\* cancelAll stops what is running.
Stops(k) == run[k].running
Stopped(j) == \E k \in Kinds : Stops(k) /\ run[k].job = j

\* The workers once the session is left behind: what ran through it, and
\* what did not, is told to stop.
Left ==
  [j \in Ids |-> [jobs[j] EXCEPT
    !.cancelled = @ \/ Stopped(j),
    !.through = IF @ = "live" THEN "left" ELSE @]]

\* A dial ended: the new driver takes over under whatever modal is open.
Connected ==
  /\ live' = TRUE
  /\ resetBrowse
  /\ jobs' = Left
  /\ UNCHANGED <<modal, due, run, disk>>

ConnectFailed == modal' = "info" /\ UNCHANGED <<shell, due, run, jobs, disk>>

Disconnect ==
  /\ Ready
  /\ live
  /\ live' = FALSE
  /\ resetBrowse
  /\ jobs' = Left
  /\ UNCHANGED <<modal, due, run, disk>>

OpenRelation ==
  /\ Ready
  /\ live
  /\ grid' = TRUE
  /\ UNCHANGED <<live, modal, due, run, jobs, disk>>

-----------------------------------------------------------------------------
(* From the key to the worker.                                             *)

Ask(m) == modal' = m /\ UNCHANGED <<shell, due, run, jobs, disk>>

\* esc, and every answer refused for what was typed.
Dismiss == ~Ready /\ Ask("none")

\* A run of kind k: its number is the last one's plus one.
Start(k, others, job) ==
  /\ Len(jobs) < MaxJobs
  /\ jobs' = Append(others, [job EXCEPT !.id = run[k].id + 1])
  /\ run' = [run EXCEPT ![k] = [running |-> TRUE, id |-> @.id + 1, job |-> Len(jobs')]]
  /\ modal' = "none"

\* A worker before its first step. Only an external tool's stderr can jam.
Job(k, through, tool, writes) ==
  [kind |-> k, id |-> 0, through |-> through, tool |-> tool, writes |-> writes, at |-> "work",
   badDump |-> FALSE, cancelled |-> FALSE, readers |-> 1, posted |-> 0]

Due == due["csv"] + due["dump"] + due["restore"]
Post(m) == Due < MaxDue /\ due' = [due EXCEPT ![m] = @ + 1]
Take(m) == due[m] > 0 /\ due' = [due EXCEPT ![m] = @ - 1]

\* E on the grid: the prompt stands between the check and the start.
startExport ==
  /\ Ready /\ grid /\ live /\ ~run["file"].running
  /\ Ask("file")

\* The file is created, or truncated, before the worker starts.
runExport ==
  /\ modal = "file" /\ grid /\ live
  /\ Start("file", jobs, Job("file", "live", FALSE, TRUE))
  /\ half' = half \cup {"file"}
  /\ UNCHANGED <<shell, due, dumped>>

\* Relations are listed by messages, at any time.
databaseDDLPrecheck == live /\ ~run["ddl"].running

startDatabaseDDLExport == Ready /\ databaseDDLPrecheck /\ Ask("ddl")

\* Either destination checks again.
runDatabaseDDLExport ==
  /\ modal = "ddl" /\ databaseDDLPrecheck
  /\ Start("ddl", jobs, Job("ddl", "live", FALSE, FALSE))
  /\ UNCHANGED <<shell, due, disk>>

startImport ==
  /\ Ready /\ live /\ ~run["csv"].running
  /\ Ask("csvPath")

\* The path is given: the head of the file is read by a command.
loadImportSetup ==
  /\ modal = "csvPath"
  /\ modal' = "none"
  /\ Post("csv")
  /\ UNCHANGED <<shell, run, jobs, disk>>

\* The settings open over whatever modal is open, or the file was unusable.
openImportSettings ==
  /\ Take("csv")
  /\ modal' \in {modal, "csvSettings"}
  /\ UNCHANGED <<shell, run, jobs, disk>>

runImport ==
  /\ modal = "csvSettings" /\ live /\ ~run["csv"].running
  /\ Start("csv", jobs, Job("csv", "live", FALSE, FALSE))
  /\ UNCHANGED <<shell, due, disk>>

\* The prompt for the password.
Secret == [dump |-> "dumpSecret", restore |-> "restoreSecret"]

\* B, then dump or restore; a profile that asks for its password does first.
startBackup(act) ==
  /\ Ready /\ ~run["backup"].running
  /\ Ask(act) \/ Ask(Secret[act])

GiveSecret(act) ==
  /\ modal = Secret[act]
  /\ modal' = "none"
  /\ Post(act)
  /\ UNCHANGED <<shell, run, jobs, disk>>

openBackupModal(act) ==
  /\ Take(act)
  /\ modal' \in {modal, act}
  /\ UNCHANGED <<shell, run, jobs, disk>>

\* The form may have waited for a password while another job started.
MayBackup == ~run["backup"].running

\* An external tool, on its own or through the live tunnel.
runTool(act, through) ==
  /\ modal = act /\ MayBackup
  /\ through = "none" \/ live
  /\ Start("backup", jobs, Job("backup", through, TRUE, act = "dump"))
  /\ UNCHANGED <<shell, due, disk>>

\* The file engines: statements through the live driver.
runSQL(act) ==
  /\ modal = act /\ MayBackup /\ live
  /\ Start("backup", jobs, Job("backup", "live", FALSE, act = "dump"))
  /\ UNCHANGED <<shell, due, disk>>

\* SQLite's restore copies over the database, with the session closed first.
runCopy ==
  /\ modal = "restore" /\ MayBackup /\ live
  /\ live' = FALSE
  /\ resetBrowse
  /\ Start("backup", Left, Job("backup", "none", FALSE, FALSE))
  /\ UNCHANGED <<due, disk>>

\* X. The DDL export has no key of its own.
CancelKey(k) ==
  /\ Ready /\ run[k].running
  /\ jobs' = [jobs EXCEPT ![run[k].job].cancelled = TRUE]
  /\ UNCHANGED <<shell, modal, due, run, disk>>

\* It has a deadline.
Deadline(j) ==
  /\ Worker(j, "work") /\ jobs[j].kind = "ddl"
  /\ jobs' = [jobs EXCEPT ![j].cancelled = TRUE]
  /\ UNCHANGED <<shell, modal, due, run, disk>>

-----------------------------------------------------------------------------
(* The workers.                                                            *)

At(j, at) == jobs' = [jobs EXCEPT ![j].at = at]
Aside == UNCHANGED <<shell, modal, due, run>>

\* A progress line, a line of the tool's stderr.
Report(j) ==
  /\ Worker(j, "work")
  /\ jobs[j].tool \/ jobs[j].kind \in {"file", "csv"}
  /\ At(j, "send") /\ Aside /\ UNCHANGED disk

\* The channel is unbuffered: a send needs a command waiting in it.
Hand(j) ==
  /\ Worker(j, "send") /\ jobs[j].readers > 0
  /\ jobs' = [jobs EXCEPT ![j].at = "work", ![j].readers = @ - 1, ![j].posted = @ + 1]
  /\ Aside /\ UNCHANGED disk

Skip(j) ==
  /\ Worker(j, "send") /\ jobs[j].cancelled
  /\ At(j, "work") /\ Aside /\ UNCHANGED disk

\* The dump reaches its path, over what is there.
Write(j) ==
  /\ Worker(j, "work") /\ jobs[j].kind = "backup" /\ jobs[j].writes
  /\ half' = half \cup {"backup"}
  /\ dumped' = FALSE
  /\ Aside /\ UNCHANGED jobs

\* A line beyond the scanner's buffer: nothing reads the tool's stderr any
\* more and it hangs on the full pipe until it is killed.
Jam(j) ==
  /\ Worker(j, "work") /\ jobs[j].tool
  /\ At(j, "jam") /\ Aside /\ UNCHANGED disk

\* Plausible bug: a failed export leaves what it wrote.
SettlesEnded(j, ok) == jobs[j].writes /\ ok

\* Job j leaves no part of a file: an export that fails removes its own, a
\* dump leaves that to finishBackup.
Settles(j, ok) == jobs[j].writes /\ (ok \/ jobs[j].kind = "file")

\* The work ends, well or not; a cancelled job may have been done already.
End(j) ==
  /\ \/ Worker(j, "work")
     \/ Worker(j, "jam") /\ jobs[j].cancelled
  /\ \E ok \in {FALSE, jobs[j].at = "work"} :
       LET dump == jobs[j].kind = "backup" /\ jobs[j].writes
       IN  /\ jobs' = [jobs EXCEPT ![j].at = "done", ![j].badDump = dump /\ ~ok, ![j].tool = FALSE]
           /\ half' = IF Settles(j, ok) THEN half \ {jobs[j].kind} ELSE half
           /\ dumped' = (dumped \/ (dump /\ ok))
  /\ Aside

\* The last message, sent without a way out.
Finish(j) ==
  /\ Worker(j, "done") /\ jobs[j].readers > 0
  /\ jobs' = [jobs EXCEPT ![j].at = "sent", ![j].readers = @ - 1]
  /\ Aside /\ UNCHANGED disk

-----------------------------------------------------------------------------
(* The loop takes a message.                                               *)

\* Plausible bug: the channel is only read on while the job is wanted.
ReadOnUncancelled(j) == Current(j) /\ run[jobs[j].kind].running /\ ~jobs[run[jobs[j].kind].job].cancelled

\* A progress message of the current run puts a reader back.
ReadOn(j) == Current(j) /\ run[jobs[j].kind].running

Progress(j) ==
  /\ j \in Ids /\ jobs[j].posted > 0
  /\ jobs' = [i \in Ids |-> [jobs[i] EXCEPT
       !.posted = IF i = j THEN @ - 1 ELSE @,
       !.readers = IF ReadOn(j) /\ i = run[jobs[j].kind].job THEN @ + 1 ELSE @]]
  /\ Aside /\ UNCHANGED disk

\* Plausible bug: the outcome of a cancelled run is not wanted any more.
FreesUncancelled(j) ==
  IF jobs[j].cancelled THEN run ELSE [run EXCEPT ![jobs[j].kind].running = FALSE, ![jobs[j].kind].job = 0]

\* What the last message leaves: a kind that may start again. The DDL
\* export's numbers start over.
Frees(j) ==
  LET k == jobs[j].kind
  IN  [run EXCEPT ![k] = [running |-> FALSE, id |-> IF k = "ddl" THEN 0 ELSE @.id, job |-> 0]]

\* A dump that did not end well is removed, whatever is at its path.
Removes(j) == jobs[j].badDump

\* All that is left of a worker that is done is its number.
Over(j) ==
  [kind |-> jobs[j].kind, id |-> jobs[j].id, through |-> "none", tool |-> FALSE, writes |-> FALSE,
   at |-> "gone", badDump |-> FALSE, cancelled |-> FALSE, readers |-> 0, posted |-> 0]

Done(j) ==
  /\ Worker(j, "sent")
  /\ jobs' = [jobs EXCEPT ![j] = Over(j)]
  /\ IF Current(j)
     THEN /\ run' = Frees(j)
          /\ half' = IF Removes(j) THEN half \ {"backup"} ELSE half
          /\ dumped' = (dumped /\ ~Removes(j))
     ELSE UNCHANGED <<run, disk>>
  /\ UNCHANGED <<shell, modal, due>>

-----------------------------------------------------------------------------
Keys ==
  \/ Disconnect \/ OpenRelation \/ Dismiss
  \/ startExport \/ runExport
  \/ startDatabaseDDLExport \/ runDatabaseDDLExport
  \/ startImport \/ loadImportSetup \/ runImport
  \/ \E act \in Acts :
       \/ startBackup(act) \/ GiveSecret(act) \/ runSQL(act)
       \/ \E through \in {"none", "live"} : runTool(act, through)
  \/ runCopy
  \/ \E k \in Kinds \ {"ddl"} : CancelKey(k)

Messages ==
  \/ Connected \/ ConnectFailed \/ openImportSettings
  \/ \E act \in Acts : openBackupModal(act)
  \/ \E j \in Ids : Progress(j) \/ Done(j)

Workers == \E j \in Ids :
  Report(j) \/ Hand(j) \/ Skip(j) \/ Write(j) \/ Jam(j) \/ Deadline(j) \/ End(j) \/ Finish(j)

Next == Keys \/ Messages \/ Workers

Spec == Init /\ [][Next]_vars

-----------------------------------------------------------------------------
TypeOK ==
  /\ live \in BOOLEAN /\ grid \in BOOLEAN /\ (grid => live)
  /\ modal \in {"none", "info", "file", "ddl", "csvPath", "csvSettings",
                "dump", "restore", "dumpSecret", "restoreSecret"}
  /\ due \in [Acts \cup {"csv"} -> 0 .. MaxDue]
  /\ run \in [Kinds -> [running : BOOLEAN, id : 0 .. MaxJobs, job : 0 .. MaxJobs]]
  /\ jobs \in Seq([kind : Kinds, id : 1 .. MaxJobs, through : {"none", "live", "left"}, tool : BOOLEAN,
                   writes : BOOLEAN, at : {"work", "send", "jam", "done", "sent", "gone"},
                   badDump : BOOLEAN, cancelled : BOOLEAN, readers : 0 .. 1, posted : 0 .. 1])
  /\ half \subseteq {"file", "backup"} /\ dumped \in BOOLEAN

\* A worker always has somebody waiting for it, or a message on its way
\* whose handler will wait again: it never blocks for good, a cancelled one
\* with its last message included.
Served == \A j \in Ids : jobs[j].at \notin {"sent", "gone"} => jobs[j].readers + jobs[j].posted = 1

\* Whatever still runs through a driver or tunnel that was replaced or
\* closed has been told to stop, also what was asked for before the session
\* went away and started after.
StopsWithSession == \A j \in Ids :
  /\ jobs[j].through = "live" => live
  /\ jobs[j].through = "left" => jobs[j].cancelled

\* No half of a file is left where it looks complete, once the job that
\* wrote it has been reported.
NoHalfFile == \A k \in half :
  \E j \in Ids : jobs[j].kind = k /\ jobs[j].writes /\ jobs[j].at # "gone"

\* Each kind keeps the promise of JobSlot: its workers run one after the
\* other, and one told to stop is never taken for wanted again. What the
\* kind shows is true on the way: one that runs has exactly the worker X and
\* a reconnect cancel, one that is free has none, so no start is refused for
\* a job that is over and none is let in beside one that is not. A kind for
\* which that fails is astray, a state no slot has.
Of(k) == {j \in Ids : jobs[j].kind = k}
LastOf(k) == IF Of(k) = {} THEN 0 ELSE CHOOSE j \in Of(k) : \A i \in Of(k) : i <= j
AliveOf(k) == {j \in Of(k) : jobs[j].at # "gone"}
StateOf(k) ==
  IF AliveOf(k) # (IF run[k].running THEN {run[k].job} ELSE {}) THEN "astray"
  ELSE IF AliveOf(k) = {} THEN "idle"
  ELSE IF jobs[LastOf(k)].cancelled THEN "stopping" ELSE "running"
FileSlot == INSTANCE JobSlot WITH last <- LastOf("file"), state <- StateOf("file")
DDLSlot == INSTANCE JobSlot WITH last <- LastOf("ddl"), state <- StateOf("ddl")
ImportSlot == INSTANCE JobSlot WITH last <- LastOf("csv"), state <- StateOf("csv")
BackupSlot == INSTANCE JobSlot WITH last <- LastOf("backup"), state <- StateOf("backup")
OneAtATime == FileSlot!Spec /\ DDLSlot!Spec /\ ImportSlot!Spec /\ BackupSlot!Spec

\* A failed or cancelled dump removes its partial file
\* (userdocs/troubleshooting.md), never a complete dump made before.
RemovesOnlyPartial == [][dumped => dumped' \/ "backup" \in half']_vars

\* A job is heard to its end, and its session's end is its own (dumprestore.go,
\* ddlexport.go, export.go, csvimport.go).
Heard == TypeOK /\ Served /\ StopsWithSession
=============================================================================
