--------------------------- MODULE BackgroundProofs ---------------------------
(***************************************************************************)
(* Theorems about what runs behind the screen. Jobs, for every bound on the *)
(* jobs and the messages: no worker waits for ever, none outlives its       *)
(* session unnoticed, no half of a file is left, and each kind of job       *)
(* implements JobSlot. Reports, for any servers, names and bounds: a        *)
(* statement that runs can be seen and stopped, a report shows what was     *)
(* asked for and is acted on where it came from, and one that waits is      *)
(* answered. The two share no variable.                                     *)
(***************************************************************************)
EXTENDS Jobs, Reports, SequenceTheorems, FiniteSetTheorems, TLAPS

(***************************************************************************)
(* Jobs.                                                                   *)
(***************************************************************************)

JobType ==
  [kind : Kinds, id : 1 .. MaxJobs, through : {"none", "live", "left"}, tool : BOOLEAN,
   writes : BOOLEAN, at : {"work", "send", "jam", "done", "sent", "gone"},
   badDump : BOOLEAN, cancelled : BOOLEAN, readers : 0 .. 1, posted : 0 .. 1]

-----------------------------------------------------------------------------
(* The inductive invariant.                                                *)

\* What one worker keeps to: it has a reader or a message until it sent its
\* last, it runs through the live session or was told to stop, and a part of
\* a file it is done with is a dump to be removed.
JobKeeps(j) ==
  /\ jobs[j].readers + jobs[j].posted = IF jobs[j].at \in {"sent", "gone"} THEN 0 ELSE 1
  /\ jobs[j].at = "gone" => jobs[j].through = "none"
  /\ jobs[j].through = "live" => live
  /\ jobs[j].through = "left" => jobs[j].cancelled
  /\ jobs[j].badDump => jobs[j].kind = "backup"
  /\ jobs[j].at \in {"done", "sent"} /\ jobs[j].writes /\ jobs[j].kind \in half => jobs[j].badDump

\* A kind and its worker know each other, and the worker is the kind's last.
SlotInv ==
  /\ \A j \in Ids : jobs[j].at # "gone" =>
       LET r == run[jobs[j].kind] IN r.running /\ r.job = j /\ r.id = jobs[j].id
  /\ \A k \in Kinds : run[k].running =>
       /\ run[k].job \in Ids /\ jobs[run[k].job].kind = k /\ jobs[run[k].job].at # "gone"
       /\ \A j \in Of(k) : j <= run[k].job
  /\ modal = "file" => ~run["file"].running

\* A number is given to no more runs than there are jobs; the last of a kind
\* is there.
NumberInv ==
  /\ Len(jobs) <= MaxJobs
  /\ \A k \in Kinds : run[k].id <= Len(jobs)
  /\ \A k \in Kinds : Of(k) # {} => \E j \in Of(k) : \A i \in Of(k) : i <= j

JobsInv ==
  /\ TypeOK
  /\ \A j \in Ids : JobKeeps(j)
  /\ SlotInv
  /\ NumberInv
  /\ NoHalfFile

-----------------------------------------------------------------------------
(* The jobs as a sequence.                                                 *)

\* Functions over 1..n are sequences.
LEMMA FunctionIsSeq ==
  ASSUME NEW S, NEW n \in Nat, NEW t \in [1..n -> S]
  PROVE  t \in Seq(S) /\ Len(t) = n /\ DOMAIN t = 1..n
  OBVIOUS

\* Every job has its type.
LEMMA JobsTyped ==
  ASSUME TypeOK
  PROVE  /\ jobs \in Seq(JobType) /\ Len(jobs) \in Nat /\ Ids = 1..Len(jobs)
         /\ jobs \in [1..Len(jobs) -> JobType]
         /\ \A j \in Ids : jobs[j] \in JobType
<1>1. jobs \in Seq(JobType)
  BY DEF TypeOK, JobType
<1> QED
  BY <1>1, LenProperties, ElementOfSeq DEF Ids

\* Leaving the session changes what a job runs through, and stops it.
LEMMA LeftIs ==
  ASSUME TypeOK
  PROVE  /\ Left \in Seq(JobType) /\ Len(Left) = Len(jobs) /\ DOMAIN Left = Ids
         /\ \A j \in Ids : Left[j] = [jobs[j] EXCEPT
              !.cancelled = @ \/ Stopped(j), !.through = IF @ = "live" THEN "left" ELSE @]
<1>1. /\ Len(jobs) \in Nat /\ Ids = 1..Len(jobs)
      /\ \A j \in Ids : jobs[j] \in JobType
  BY JobsTyped
<1>2. \A j \in Ids : Left[j] = [jobs[j] EXCEPT
        !.cancelled = @ \/ Stopped(j), !.through = IF @ = "live" THEN "left" ELSE @]
  BY DEF Left
<1>3. ASSUME NEW j \in Ids PROVE Left[j] \in JobType
  <2> DEFINE stops == jobs[j].cancelled \/ Stopped(j)
             now == IF jobs[j].through = "live" THEN "left" ELSE jobs[j].through
  <2>1. stops \in BOOLEAN /\ now \in {"none", "live", "left"} /\ jobs[j] \in JobType
    BY <1>1 DEF Stopped, JobType
  <2>2. Left[j] = [jobs[j] EXCEPT !.cancelled = stops, !.through = now]
    BY <1>2
  <2> HIDE DEF stops, now
  <2> QED
    BY ONLY <2>1, <2>2 DEF JobType
<1>4. DOMAIN Left = 1..Len(jobs) /\ Left = [j \in 1..Len(jobs) |-> Left[j]]
  BY <1>1 DEF Left
<1>5. Left \in [1..Len(jobs) -> JobType]
  BY <1>1, <1>3, <1>4
<1>6. Left \in Seq(JobType) /\ Len(Left) = Len(jobs)
  BY <1>1, <1>5, FunctionIsSeq
<1> QED
  BY <1>1, <1>2, <1>4, <1>6

-----------------------------------------------------------------------------
(* What a step can do.                                                     *)

Modals == {"none", "info", "file", "ddl", "csvPath", "csvSettings",
           "dump", "restore", "dumpSecret", "restoreSecret"}

\* A prompt opens or closes, a message is posted or taken, a relation opens.
Prompts ==
  /\ modal' \in Modals /\ (modal' = "file" => modal = "file" \/ ~run["file"].running)
  /\ due' \in [Acts \cup {"csv"} -> 0 .. MaxDue]
  /\ grid' \in BOOLEAN /\ (grid' => live)
  /\ UNCHANGED <<live, run, jobs, disk>>

\* The session is replaced or closed.
Leaves ==
  /\ live' \in BOOLEAN /\ grid' = FALSE /\ jobs' = Left
  /\ UNCHANGED <<modal, due, run, disk>>

\* A job starts; with SQLite's restore the session is closed first.
Fresh(k, through, tool, writes) == [Job(k, through, tool, writes) EXCEPT !.id = run[k].id + 1]

Starts(k, through, tool, writes) ==
  /\ ~run[k].running /\ Len(jobs) < MaxJobs
  /\ \/ jobs' = Append(jobs, Fresh(k, through, tool, writes)) /\ UNCHANGED shell
     \/ jobs' = Append(Left, Fresh(k, through, tool, writes)) /\ live' = FALSE /\ grid' = FALSE
  /\ run' = [run EXCEPT ![k] = [running |-> TRUE, id |-> run[k].id + 1, job |-> Len(jobs) + 1]]
  /\ modal' = "none"
  /\ through = "live" => live'
  /\ half' = half \cup (IF k = "file" THEN {"file"} ELSE {})
  /\ k = "file" => writes
  /\ UNCHANGED <<due, dumped>>

\* A worker that is not gone goes on as w.
Moves(j, w) ==
  /\ jobs' = [jobs EXCEPT ![j] = w]
  /\ jobs[j].at # "gone" /\ w.at # "gone"
  /\ w.kind = jobs[j].kind /\ w.id = jobs[j].id /\ w.through = jobs[j].through
  /\ w.writes = jobs[j].writes
  /\ jobs[j].cancelled => w.cancelled
  /\ w.readers + w.posted = IF w.at = "sent" THEN 0 ELSE 1
  /\ w.badDump => w.kind = "backup"
  /\ w.at \in {"done", "sent"} /\ w.writes /\ w.kind \in half' => w.badDump
  /\ half' \subseteq half \cup (IF w.writes THEN {w.kind} \cap {"backup"} ELSE {})
  /\ dumped' \in BOOLEAN
  /\ UNCHANGED <<shell, modal, due, run>>

\* A worker was reported.
Ends(j) ==
  /\ jobs[j].at = "sent"
  /\ jobs' = [jobs EXCEPT ![j] = Over(j)]
  /\ run' = [run EXCEPT ![jobs[j].kind] =
       [running |-> FALSE, id |-> IF jobs[j].kind = "ddl" THEN 0 ELSE run[jobs[j].kind].id, job |-> 0]]
  /\ half' = IF jobs[j].badDump THEN half \ {"backup"} ELSE half
  /\ dumped' \in BOOLEAN
  /\ UNCHANGED <<shell, modal, due>>

Shapes ==
  \/ Prompts \/ Leaves
  \/ \E k \in Kinds, through \in {"none", "live"}, tool, writes \in BOOLEAN : Starts(k, through, tool, writes)
  \/ \E j \in Ids, w \in JobType : Moves(j, w)
  \/ \E j \in Ids : Ends(j)

\* A fresh job has a reader, nothing posted, and the next number.
LEMMA FreshIs ==
  ASSUME NEW k \in Kinds, NEW through \in {"none", "live"}, NEW tool \in BOOLEAN, NEW writes \in BOOLEAN,
         run[k].id + 1 \in 1 .. MaxJobs
  PROVE  LET w == Fresh(k, through, tool, writes)
         IN  /\ w \in JobType
             /\ w.kind = k /\ w.id = run[k].id + 1 /\ w.through = through /\ w.writes = writes
             /\ w.at = "work" /\ ~w.badDump /\ ~w.cancelled /\ w.readers = 1 /\ w.posted = 0
<1> DEFINE w == Fresh(k, through, tool, writes)
<1>1. /\ w.kind = k /\ w.id = run[k].id + 1 /\ w.through = through /\ w.writes = writes
      /\ w.at = "work" /\ w.badDump = FALSE /\ w.cancelled = FALSE /\ w.readers = 1 /\ w.posted = 0
  BY DEF Fresh, Job
<1>2. w \in JobType
  <2> DEFINE n == run[k].id + 1
  <2>1. n \in 1 .. MaxJobs
    OBVIOUS
  <2> HIDE DEF n
  <2>2. [Job(k, through, tool, writes) EXCEPT !.id = n] \in JobType
    <3>1. /\ k \in Kinds /\ through \in {"none", "live", "left"} /\ tool \in BOOLEAN /\ writes \in BOOLEAN
          /\ 1 \in 0 .. 1 /\ 0 \in 0 .. 1
      OBVIOUS
    <3> QED
      BY ONLY <2>1, <3>1 DEF Job, JobType
  <2> QED
    BY <2>2 DEF n, Fresh
<1> QED
  BY <1>1, <1>2

\* A start, by its operator.
LEMMA StartShape ==
  ASSUME NEW k \in Kinds, NEW through \in {"none", "live"}, NEW tool \in BOOLEAN, NEW writes \in BOOLEAN,
         TypeOK, ~run[k].running, k = "file" => writes,
         half' = half \cup (IF k = "file" THEN {"file"} ELSE {}),
         UNCHANGED <<due, dumped>>,
         \/ Start(k, jobs, Job(k, through, tool, writes)) /\ UNCHANGED shell
         \/ Start(k, Left, Job(k, through, tool, writes)) /\ live' = FALSE /\ grid' = FALSE,
         through = "live" => live'
  PROVE  Shapes
<1>2. /\ Len(jobs) < MaxJobs /\ Len(jobs) \in Nat /\ Len(Left) = Len(jobs)
      /\ jobs \in Seq(JobType) /\ Left \in Seq(JobType)
  BY JobsTyped, LeftIs DEF Start
<1>3. Len(jobs') = Len(jobs) + 1
  BY <1>2 DEF Start
<1>4. Starts(k, through, tool, writes)
  BY <1>2, <1>3 DEF Start, Starts, Fresh
<1> QED
  BY <1>4 DEF Shapes

\* A move, by the record it leaves.
LEMMA MoveShape ==
  ASSUME NEW j \in Ids, NEW w \in JobType, Moves(j, w)
  PROVE  Shapes
  BY DEF Shapes

\* Every step has one of these shapes.
LEMMA StepShapes ==
  ASSUME JobsInv, [Next]_vars
  PROVE  Shapes
<1> USE DEF JobsInv
<1>1. /\ live \in BOOLEAN /\ grid \in BOOLEAN /\ (grid => live) /\ modal \in Modals
      /\ due \in [Acts \cup {"csv"} -> 0 .. MaxDue] /\ MaxDue \in Nat
      /\ dumped \in BOOLEAN
  BY BoundsAssumption DEF TypeOK, Modals
<1>2. /\ Len(jobs) \in Nat /\ Ids = 1..Len(jobs) /\ jobs \in [1..Len(jobs) -> JobType]
      /\ \A j \in Ids : jobs[j] \in JobType
  BY JobsTyped
<1>3. CASE UNCHANGED vars
  BY <1>1, <1>3 DEF vars, shell, disk, Shapes, Prompts
<1>4. CASE ConnectFailed \/ OpenRelation \/ Dismiss \/ startExport \/ startDatabaseDDLExport \/ startImport
  BY <1>1, <1>4 DEF ConnectFailed, OpenRelation, Dismiss, startExport, startDatabaseDDLExport, startImport,
     Ask, shell, disk, Shapes, Prompts, Modals
<1>5. ASSUME NEW m \in Acts \cup {"csv"}, Post(m) \/ Take(m)
      PROVE  due' \in [Acts \cup {"csv"} -> 0 .. MaxDue]
  <2>1. due["csv"] \in Nat /\ due["dump"] \in Nat /\ due["restore"] \in Nat /\ due[m] \in 0 .. MaxDue
    BY <1>1 DEF Acts
  <2>2. Post(m) => due[m] + 1 \in 0 .. MaxDue
    BY <1>1, <2>1 DEF Post, Due, Acts
  <2>3. Take(m) => due[m] - 1 \in 0 .. MaxDue
    BY <1>1, <2>1 DEF Take
  <2> QED
    BY <1>1, <1>5, <2>2, <2>3 DEF Post, Take
<1>6. CASE loadImportSetup \/ openImportSettings
  <2>1. due' \in [Acts \cup {"csv"} -> 0 .. MaxDue]
    BY <1>5, <1>6 DEF loadImportSetup, openImportSettings
  <2> QED
    BY <1>1, <1>6, <2>1 DEF loadImportSetup, openImportSettings, shell, Shapes, Prompts, Modals
<1>7. ASSUME NEW act \in Acts, startBackup(act) \/ GiveSecret(act) \/ openBackupModal(act)
      PROVE  Shapes
  <2>1. due' \in [Acts \cup {"csv"} -> 0 .. MaxDue]
    BY <1>1, <1>5, <1>7 DEF startBackup, GiveSecret, openBackupModal, Ask
  <2>2. Secret[act] \in Modals /\ Secret[act] # "file" /\ act \in Modals /\ act # "file"
    BY DEF Acts, Modals, Secret
  <2> QED
    BY <1>1, <1>7, <2>1, <2>2 DEF startBackup, GiveSecret, openBackupModal, Ask, shell, disk, Shapes,
       Prompts, Modals
<1>8. CASE Connected \/ Disconnect
  BY <1>1, <1>8 DEF Connected, Disconnect, resetBrowse, Shapes, Leaves
<1>9. CASE runExport
  <2>1. ~run["file"].running
    BY <1>9 DEF runExport, SlotInv
  <2>2. half' = half \cup (IF "file" = "file" THEN {"file"} ELSE {})
    BY <1>9 DEF runExport
  <2> QED
    BY <1>1, <1>9, <2>1, <2>2, StartShape DEF runExport, Kinds, shell
<1>10. CASE runDatabaseDDLExport
  BY <1>1, <1>10, StartShape DEF runDatabaseDDLExport, databaseDDLPrecheck, Kinds, disk, shell
<1>11. CASE runImport
  BY <1>1, <1>11, StartShape DEF runImport, Kinds, disk, shell
<1>12. ASSUME NEW act \in Acts, NEW through \in {"none", "live"}, runTool(act, through)
       PROVE  Shapes
  BY <1>1, <1>12, StartShape DEF runTool, MayBackup, Kinds, disk, shell
<1>13. ASSUME NEW act \in Acts, runSQL(act)
       PROVE  Shapes
  BY <1>1, <1>13, StartShape DEF runSQL, MayBackup, Kinds, disk, shell
<1>14. CASE runCopy
  BY <1>1, <1>14, StartShape DEF runCopy, MayBackup, Kinds, disk, resetBrowse

<1>15. ASSUME NEW j \in Ids, NEW w \in JobType,
              jobs[j].at # "gone", w.at # "gone", w.kind = jobs[j].kind, w.id = jobs[j].id,
              w.through = jobs[j].through, w.writes = jobs[j].writes, jobs[j].cancelled => w.cancelled,
              w.readers + w.posted = (IF w.at = "sent" THEN 0 ELSE 1),
              w.badDump = jobs[j].badDump, w.at \in {"done", "sent"} => w.at = jobs[j].at \/ jobs[j].at = "done",
              jobs' = [jobs EXCEPT ![j] = w], disk' = disk, UNCHANGED <<shell, modal, due, run>>
       PROVE  Shapes
  <2>1. JobKeeps(j)
    OBVIOUS
  <2>2. Moves(j, w)
    BY <1>1, <1>15, <2>1 DEF Moves, JobKeeps, disk
  <2> QED
    BY <2>2, MoveShape
<1>16. ASSUME NEW j \in Ids, disk' = disk, UNCHANGED <<shell, modal, due, run>>,
              jobs[j].at # "gone", jobs' = [jobs EXCEPT ![j].cancelled = TRUE]
       PROVE  Shapes
  <2>1. JobKeeps(j) /\ jobs[j] \in JobType
    BY <1>2
  <2> DEFINE w == [jobs[j] EXCEPT !.cancelled = TRUE]
  <2>2. /\ w \in JobType /\ w.at = jobs[j].at /\ w.kind = jobs[j].kind /\ w.id = jobs[j].id
        /\ w.through = jobs[j].through /\ w.writes = jobs[j].writes /\ w.cancelled
        /\ w.readers = jobs[j].readers /\ w.posted = jobs[j].posted /\ w.badDump = jobs[j].badDump
    BY <2>1 DEF JobType
  <2>3. jobs' = [jobs EXCEPT ![j] = w]
    BY <1>16
  <2> HIDE DEF w
  <2>4. Moves(j, w)
    BY <1>1, <1>16, <2>1, <2>2, <2>3 DEF Moves, JobKeeps, disk
  <2> QED
    BY <2>2, <2>4, MoveShape
<1>17. ASSUME NEW j \in Ids, disk' = disk, UNCHANGED <<shell, modal, due, run>>,
              NEW at \in {"work", "send", "jam"}, jobs[j].at \in {"work", "send"}, At(j, at)
       PROVE  Shapes
  <2>1. JobKeeps(j) /\ jobs[j] \in JobType
    BY <1>2
  <2> DEFINE w == [jobs[j] EXCEPT !.at = at]
  <2>2. /\ w \in JobType /\ w.at = at /\ w.kind = jobs[j].kind /\ w.id = jobs[j].id
        /\ w.through = jobs[j].through /\ w.writes = jobs[j].writes /\ w.cancelled = jobs[j].cancelled
        /\ w.readers = jobs[j].readers /\ w.posted = jobs[j].posted /\ w.badDump = jobs[j].badDump
    BY <2>1 DEF JobType
  <2>3. jobs' = [jobs EXCEPT ![j] = w]
    BY <1>17 DEF At
  <2> HIDE DEF w
  <2> QED
    BY <1>15, <1>17, <2>1, <2>2, <2>3 DEF JobKeeps
<1>18. ASSUME NEW k \in Kinds, CancelKey(k)
       PROVE  Shapes
  <2>1. run[k].job \in Ids /\ jobs[run[k].job].at # "gone"
    BY <1>18 DEF CancelKey, SlotInv
  <2> QED
    BY <1>16, <1>18, <2>1 DEF CancelKey
<1>19. ASSUME NEW j \in Ids, Deadline(j) \/ Report(j) \/ Skip(j) \/ Jam(j)
       PROVE  Shapes
  BY <1>16, <1>19, <1>17 DEF Deadline, Report, Skip, Jam, Worker, Aside, disk
<1>20. ASSUME NEW j \in Ids, Write(j)
       PROVE  Shapes
  <2>1. JobKeeps(j) /\ jobs[j] \in JobType /\ jobs' = [jobs EXCEPT ![j] = jobs[j]]
    BY <1>2, <1>20 DEF Write
  <2>2. Moves(j, jobs[j])
    BY <1>1, <1>20, <2>1 DEF Write, Worker, Aside, Moves, JobKeeps
  <2> QED
    BY <2>1, <2>2, MoveShape
<1>21. ASSUME NEW j \in Ids, Hand(j)
       PROVE  Shapes
  <2>1. JobKeeps(j) /\ jobs[j] \in JobType /\ jobs[j].readers = 1 /\ jobs[j].posted = 0
    BY <1>2, <1>21 DEF Hand, Worker, JobKeeps, JobType
  <2> DEFINE rd == jobs[j].readers - 1
             po == jobs[j].posted + 1
             w == [jobs[j] EXCEPT !.at = "work", !.readers = rd, !.posted = po]
  <2>5. jobs' = [jobs EXCEPT ![j] = w]
    BY <1>21 DEF Hand
  <2>6. rd = 0 /\ po = 1
    BY <2>1
  <2>7. jobs[j].at = "send" /\ disk' = disk /\ UNCHANGED <<shell, modal, due, run>>
    BY <1>21 DEF Hand, Worker, Aside
  <2> HIDE DEF rd, po
  <2>2. /\ w \in JobType /\ w.at = "work" /\ w.kind = jobs[j].kind /\ w.id = jobs[j].id
        /\ w.through = jobs[j].through /\ w.writes = jobs[j].writes /\ w.cancelled = jobs[j].cancelled
        /\ w.readers = 0 /\ w.posted = 1 /\ w.badDump = jobs[j].badDump
    BY <2>1, <2>6 DEF JobType
  <2> HIDE DEF w
  <2>4. Moves(j, w)
    BY <1>1, <2>1, <2>2, <2>5, <2>7 DEF Moves, JobKeeps, disk
  <2> QED
    BY <2>2, <2>4, MoveShape
<1>22. ASSUME NEW j \in Ids, Finish(j)
       PROVE  Shapes
  <2>1. JobKeeps(j) /\ jobs[j] \in JobType /\ jobs[j].readers = 1 /\ jobs[j].posted = 0
    BY <1>2, <1>22 DEF Finish, Worker, JobKeeps, JobType
  <2> DEFINE rd == jobs[j].readers - 1
             w == [jobs[j] EXCEPT !.at = "sent", !.readers = rd]
  <2>5. jobs' = [jobs EXCEPT ![j] = w]
    BY <1>22 DEF Finish
  <2>6. rd = 0
    BY <2>1
  <2>7. jobs[j].at = "done" /\ disk' = disk /\ UNCHANGED <<shell, modal, due, run>>
    BY <1>22 DEF Finish, Worker, Aside
  <2> HIDE DEF rd
  <2>2. /\ w \in JobType /\ w.at = "sent" /\ w.kind = jobs[j].kind /\ w.id = jobs[j].id
        /\ w.through = jobs[j].through /\ w.writes = jobs[j].writes /\ w.cancelled = jobs[j].cancelled
        /\ w.readers = 0 /\ w.posted = 0 /\ w.badDump = jobs[j].badDump
    BY <2>1, <2>6 DEF JobType
  <2> HIDE DEF w
  <2>4. Moves(j, w)
    BY <1>1, <2>1, <2>2, <2>5, <2>7 DEF Moves, JobKeeps, disk
  <2> QED
    BY <2>2, <2>4, MoveShape
<1>23. ASSUME NEW j \in Ids, End(j)
       PROVE  Shapes
  <2>1. JobKeeps(j) /\ jobs[j] \in JobType /\ jobs[j].at \in {"work", "jam"}
    BY <1>2, <1>23 DEF End, Worker
  <2> DEFINE dump == jobs[j].kind = "backup" /\ jobs[j].writes
  <2>2. PICK ok \in BOOLEAN :
          /\ jobs' = [jobs EXCEPT ![j].at = "done", ![j].badDump = dump /\ ~ok, ![j].tool = FALSE]
          /\ half' = IF Settles(j, ok) THEN half \ {jobs[j].kind} ELSE half
          /\ dumped' = (dumped \/ (dump /\ ok))
    BY <1>23 DEF End
  <2> DEFINE bad == dump /\ ~ok
             w == [jobs[j] EXCEPT !.at = "done", !.badDump = bad, !.tool = FALSE]
  <2>3. bad \in BOOLEAN /\ (bad => jobs[j].kind = "backup")
    BY <2>1 DEF JobType
  <2>4. jobs' = [jobs EXCEPT ![j] = w]
    BY <2>2
  <2>5. w.kind \in half' /\ w.writes => bad
    <3>1. w.kind = jobs[j].kind /\ w.writes = jobs[j].writes
      BY <2>1 DEF JobType
    <3>2. half \subseteq {"file", "backup"}
      BY DEF TypeOK
    <3> QED
      BY <2>2, <3>1, <3>2 DEF Settles
  <2>6. half' \subseteq half /\ dumped' \in BOOLEAN
    BY <1>1, <2>2
  <2> HIDE DEF bad
  <2>7. /\ w \in JobType /\ w.at = "done" /\ w.kind = jobs[j].kind /\ w.id = jobs[j].id
        /\ w.through = jobs[j].through /\ w.writes = jobs[j].writes /\ w.cancelled = jobs[j].cancelled
        /\ w.readers = jobs[j].readers /\ w.posted = jobs[j].posted /\ w.badDump = bad
    BY <2>1, <2>3 DEF JobType
  <2>8. UNCHANGED <<shell, modal, due, run>>
    BY <1>23 DEF End, Aside
  <2> HIDE DEF w
  <2>9. Moves(j, w)
    BY <2>1, <2>3, <2>4, <2>5, <2>6, <2>7, <2>8 DEF Moves, JobKeeps
  <2> QED
    BY <2>7, <2>9, MoveShape
<1>24. ASSUME NEW j \in Ids, Progress(j)
       PROVE  Shapes
  <2>1. JobKeeps(j) /\ jobs[j] \in JobType /\ jobs[j].readers = 0 /\ jobs[j].posted = 1
    <3>1. JobKeeps(j) /\ jobs[j] \in JobType /\ jobs[j].posted > 0
      BY <1>2, <1>24 DEF Progress
    <3>2. jobs[j].posted \in 0..1 /\ jobs[j].readers \in 0..1
      BY <3>1 DEF JobType
    <3> QED
      BY <3>1, <3>2 DEF JobKeeps
  <2>2. jobs[j].at \notin {"sent", "gone"} /\ run[jobs[j].kind].job = j /\ ReadOn(j)
    BY <2>1 DEF JobKeeps, SlotInv, ReadOn, Current
  <2> DEFINE rd == jobs[j].readers + 1
             po == jobs[j].posted - 1
             w == [jobs[j] EXCEPT !.posted = po, !.readers = rd]
  <2>6. rd = 1 /\ po = 0
    BY <2>1
  <2> HIDE DEF rd, po
  <2>3. /\ w \in JobType /\ w.at = jobs[j].at /\ w.kind = jobs[j].kind /\ w.id = jobs[j].id
        /\ w.through = jobs[j].through /\ w.writes = jobs[j].writes /\ w.cancelled = jobs[j].cancelled
        /\ w.readers = 1 /\ w.posted = 0 /\ w.badDump = jobs[j].badDump
    BY <2>1, <2>6 DEF JobType
  <2>4. jobs' = [jobs EXCEPT ![j] = w]
    <3>1. \A i \in Ids : jobs'[i] = [jobs[i] EXCEPT
            !.posted = IF i = j THEN @ - 1 ELSE @,
            !.readers = IF ReadOn(j) /\ i = run[jobs[j].kind].job THEN @ + 1 ELSE @]
      BY <1>24 DEF Progress
    <3>2. jobs'[j] = w
      BY <2>2, <3>1 DEF rd, po
    <3>3. ASSUME NEW i \in Ids, i # j PROVE jobs'[i] = jobs[i]
      <4>1. jobs[i] \in JobType
        BY <1>2
      <4>2. jobs'[i] = [jobs[i] EXCEPT !.posted = jobs[i].posted, !.readers = jobs[i].readers]
        BY <2>2, <3>1, <3>3
      <4> QED
        BY <4>1, <4>2 DEF JobType
    <3>4. jobs' = [i \in Ids |-> jobs'[i]]
      BY <1>24 DEF Progress
    <3> QED
      BY <1>2, <3>2, <3>3, <3>4
  <2> HIDE DEF w
  <2>7. disk' = disk /\ UNCHANGED <<shell, modal, due, run>>
    BY <1>24 DEF Progress, Aside
  <2>5. Moves(j, w)
    BY <1>1, <2>1, <2>2, <2>3, <2>4, <2>7 DEF Moves, JobKeeps, disk
  <2> QED
    BY <2>3, <2>5, MoveShape
<1>25. ASSUME NEW j \in Ids, Done(j)
       PROVE  Shapes
  <2>1. jobs[j].at = "sent" /\ Current(j) /\ jobs[j] \in JobType
    BY <1>2, <1>25 DEF Done, Worker, SlotInv, Current
  <2>2. Ends(j)
    BY <1>1, <1>25, <2>1 DEF Done, Ends, Frees, Removes
  <2> QED
    BY <2>2 DEF Shapes
<1> QED
  BY <1>3, <1>4, <1>6, <1>7, <1>8, <1>9, <1>10, <1>11, <1>12, <1>13, <1>14, <1>18, <1>19, <1>20, <1>21, <1>22,
     <1>23, <1>24, <1>25 DEF Next, Keys, Messages, Workers

-----------------------------------------------------------------------------
(* Each shape keeps the invariant.                                         *)

\* What is asked on the screen says nothing of the jobs.
LEMMA PromptsKeep ==
  ASSUME JobsInv, Prompts
  PROVE  JobsInv'
<1>1. UNCHANGED <<live, run, jobs, half, dumped>>
  BY DEF Prompts, disk
<1>2. TypeOK'
  BY <1>1 DEF JobsInv, TypeOK, Prompts, Modals
<1>3. (\A j \in Ids : JobKeeps(j))' /\ NumberInv' /\ NoHalfFile'
  BY <1>1 DEF JobsInv, JobKeeps, NumberInv, NoHalfFile, Ids, Of
<1>4. SlotInv'
  BY <1>1 DEF JobsInv, SlotInv, Ids, Of, Prompts
<1> QED
  BY <1>2, <1>3, <1>4 DEF JobsInv

\* w is job j as far as its kind and its progress go.
SameJob(j, w) ==
  /\ w.kind = jobs[j].kind /\ w.id = jobs[j].id /\ w.at = jobs[j].at
  /\ w.writes = jobs[j].writes /\ w.badDump = jobs[j].badDump
  /\ w.readers = jobs[j].readers /\ w.posted = jobs[j].posted
  /\ jobs[j].cancelled => w.cancelled

\* w is job j after its session, told to stop if it ran through it.
LeftJob(j, w) ==
  /\ w.through # "live" /\ (w.through = "left" => w.cancelled)
  /\ w.at = "gone" => w.through = "none"

\* The session's jobs are the same jobs afterwards.
LEMMA LeftFields ==
  ASSUME JobsInv, NEW j \in Ids
  PROVE  SameJob(j, Left[j]) /\ LeftJob(j, Left[j])
<1> DEFINE stops == jobs[j].cancelled \/ Stopped(j)
           now == IF jobs[j].through = "live" THEN "left" ELSE jobs[j].through
<1>1. Left[j] = [jobs[j] EXCEPT !.cancelled = stops, !.through = now] /\ jobs[j] \in JobType
  BY LeftIs, JobsTyped DEF JobsInv
<1>2. jobs[j].cancelled => stops
  OBVIOUS
<1>3. jobs[j].through = "live" => stops
  <2>1. jobs[j].kind \in Kinds
    BY <1>1 DEF JobType
  <2> QED
    BY <2>1 DEF JobKeeps, JobsInv, SlotInv, Stopped, Stops
<1>4. JobKeeps(j)
  BY DEF JobsInv
<1> HIDE DEF stops
<1>5. /\ Left[j].kind = jobs[j].kind /\ Left[j].id = jobs[j].id /\ Left[j].at = jobs[j].at
      /\ Left[j].writes = jobs[j].writes /\ Left[j].badDump = jobs[j].badDump
      /\ Left[j].readers = jobs[j].readers /\ Left[j].posted = jobs[j].posted
      /\ Left[j].through = now /\ Left[j].cancelled = stops
  BY <1>1 DEF JobType
<1> QED
  BY <1>1, <1>2, <1>3, <1>4, <1>5 DEF SameJob, LeftJob, JobKeeps, JobType

\* When the session goes, what ran through it has been told to stop.
LEMMA LeavesKeep ==
  ASSUME JobsInv, Leaves
  PROVE  JobsInv'
<1>1. /\ UNCHANGED <<modal, due, run, half, dumped>> /\ jobs' = Left /\ live' \in BOOLEAN /\ grid' = FALSE
      /\ Ids' = Ids /\ jobs' \in Seq(JobType) /\ Len(jobs') = Len(jobs)
  BY LeftIs DEF Leaves, disk, JobsInv, Ids
<1>2. TypeOK'
  BY <1>1 DEF JobsInv, TypeOK, JobType
<1>3. \A j \in Ids : SameJob(j, jobs'[j]) /\ LeftJob(j, jobs'[j])
  BY <1>1, LeftFields
<1>4. \A j \in Ids : JobKeeps(j)'
  BY <1>1, <1>3 DEF JobsInv, JobKeeps, SameJob, LeftJob
<1>5. \A k \in Kinds : Of(k)' = Of(k)
  BY <1>1, <1>3 DEF Of, SameJob
<1>6. SlotInv' /\ NumberInv'
  BY <1>1, <1>3, <1>5 DEF JobsInv, SlotInv, NumberInv, SameJob
<1>7. NoHalfFile'
  BY <1>1, <1>3 DEF JobsInv, NoHalfFile, SameJob
<1> QED
  BY <1>1, <1>2, <1>4, <1>6, <1>7 DEF JobsInv

\* A worker goes on.
LEMMA MovesKeep ==
  ASSUME JobsInv, NEW j \in Ids, NEW w \in JobType, Moves(j, w)
  PROVE  JobsInv'
<1>1. /\ UNCHANGED <<live, grid, modal, due, run>> /\ jobs' = [jobs EXCEPT ![j] = w] /\ dumped' \in BOOLEAN
      /\ half' \subseteq half \cup (IF w.writes THEN {w.kind} \cap {"backup"} ELSE {})
  BY DEF Moves, shell
<1>2. /\ Len(jobs) \in Nat /\ Ids = 1..Len(jobs) /\ jobs \in Seq(JobType)
      /\ \A i \in Ids : jobs[i] \in JobType
  BY JobsTyped DEF JobsInv
<1>3. /\ jobs' \in Seq(JobType) /\ Len(jobs') = Len(jobs) /\ Ids' = Ids
      /\ jobs'[j] = w /\ \A i \in Ids : i # j => jobs'[i] = jobs[i]
  BY <1>1, <1>2, ExceptSeq DEF Ids
<1>4. TypeOK'
  BY <1>1, <1>3 DEF JobsInv, TypeOK, JobType
<1>5. ASSUME NEW i \in Ids PROVE JobKeeps(i)'
  <2>1. CASE i = j
    BY <1>1, <1>3, <2>1 DEF Moves, JobsInv, JobKeeps
  <2>2. CASE i # j
    <3>1. JobKeeps(i) /\ jobs'[i] = jobs[i]
      BY <1>3, <2>2 DEF JobsInv
    <3>2. jobs[i].at \in {"done", "sent"} => jobs[i].kind # w.kind
      BY <2>2 DEF JobsInv, SlotInv, Moves
    <3> QED
      BY <1>1, <3>1, <3>2 DEF JobKeeps
  <2> QED
    BY <2>1, <2>2
<1>6. \A k \in Kinds : Of(k)' = Of(k)
  BY <1>3 DEF Of, Moves
<1>7. SlotInv'
  BY <1>1, <1>3, <1>6 DEF JobsInv, SlotInv, Moves
<1>8. NumberInv'
  BY <1>1, <1>3, <1>6 DEF JobsInv, NumberInv
<1>9. NoHalfFile'
  BY <1>1, <1>3 DEF JobsInv, NoHalfFile, Moves
<1> QED
  BY <1>3, <1>4, <1>5, <1>7, <1>8, <1>9 DEF JobsInv

\* A job starts in a kind that is free.
LEMMA StartsKeep ==
  ASSUME JobsInv, NEW k \in Kinds, NEW through \in {"none", "live"}, NEW tool \in BOOLEAN,
         NEW writes \in BOOLEAN, Starts(k, through, tool, writes)
  PROVE  JobsInv'
<1>0. PICK n \in Nat : n = Len(jobs) + 1
  BY JobsTyped DEF JobsInv
<1> DEFINE w == Fresh(k, through, tool, writes)
<1>1. /\ Len(jobs) \in Nat /\ Ids = 1..Len(jobs) /\ jobs \in Seq(JobType)
      /\ \A i \in Ids : jobs[i] \in JobType
      /\ run \in [Kinds -> [running : BOOLEAN, id : 0 .. MaxJobs, job : 0 .. MaxJobs]]
      /\ Len(jobs) < MaxJobs /\ run[k].id <= Len(jobs) /\ MaxJobs \in Nat
  BY JobsTyped, BoundsAssumption DEF JobsInv, NumberInv, Starts, TypeOK
<1>2. /\ w \in JobType
      /\ w.kind = k /\ w.id = run[k].id + 1 /\ w.through = through /\ w.writes = writes
      /\ w.at = "work" /\ ~w.badDump /\ ~w.cancelled /\ w.readers = 1 /\ w.posted = 0
  BY <1>0, <1>1, FreshIs
<1>3. PICK others \in {jobs, Left}, left \in BOOLEAN :
        /\ jobs' = Append(others, w)
        /\ ~left => others = jobs /\ live' = live /\ grid' = grid
        /\ left => others = Left /\ live' = FALSE /\ grid' = FALSE
  <2>1. CASE jobs' = Append(jobs, w) /\ UNCHANGED shell
    BY <2>1 DEF shell
  <2>2. CASE jobs' = Append(Left, w) /\ live' = FALSE /\ grid' = FALSE
    BY <2>2
  <2> QED
    BY <2>1, <2>2 DEF Starts
<1>4. others \in Seq(JobType) /\ Len(others) = Len(jobs)
  BY <1>0, <1>1, <1>3, LeftIs DEF JobsInv
<1> HIDE DEF w
<1>5. /\ jobs' \in Seq(JobType) /\ Len(jobs') = n /\ Ids' = 1..n /\ jobs'[n] = w
      /\ \A j \in Ids : jobs'[j] = others[j]
  BY <1>0, <1>1, <1>2, <1>3, <1>4 DEF Ids
<1>6. ASSUME NEW j \in Ids
      PROVE  SameJob(j, jobs'[j]) /\ JobKeeps(j)'
  <2>1. JobKeeps(j)
    BY DEF JobsInv
  <2>2. SameJob(j, jobs[j])
    BY DEF SameJob
  <2>3. SameJob(j, jobs'[j]) /\ (left => LeftJob(j, jobs'[j]))
    BY <1>3, <1>5, <2>2, LeftFields
  <2>4. jobs[j].at # "gone" => jobs[j].kind # k
    BY DEF JobsInv, SlotInv, Starts
  <2>5. half' = half \cup (IF k = "file" THEN {"file"} ELSE {})
    BY DEF Starts
  <2>6. CASE ~left
    BY <1>3, <1>5, <2>1, <2>4, <2>5, <2>6, <2>3 DEF JobKeeps, shell
  <2>7. CASE left
    BY <1>3, <1>5, <2>1, <2>3, <2>4, <2>5, <2>7 DEF JobKeeps, SameJob, LeftJob
  <2> QED
    BY <2>3, <2>6, <2>7
<1>7. JobKeeps(n)'
  <2>1. through = "live" => live'
    BY DEF Starts
  <2>2. through # "left"
    OBVIOUS
  <2> QED
    BY <1>2, <1>5, <2>1, <2>2 DEF JobKeeps
<1>8. /\ run'[k].running /\ run'[k].job = n /\ run'[k].id = run[k].id + 1
      /\ \A l \in Kinds : l # k => run'[l] = run[l]
      /\ run' \in [Kinds -> [running : BOOLEAN, id : 0 .. MaxJobs, job : 0 .. MaxJobs]]
      /\ modal' = "none" /\ due' = due /\ dumped' = dumped
      /\ half' = half \cup (IF k = "file" THEN {"file"} ELSE {})
  <2>1. n \in 0 .. MaxJobs /\ run[k].id + 1 \in 0 .. MaxJobs
    BY <1>0, <1>1
  <2> QED
    BY <1>0, <1>1, <2>1 DEF Starts
<1>9. TypeOK'
  <2>1. live' \in BOOLEAN /\ grid' \in BOOLEAN /\ (grid' => live')
    <3>1. live \in BOOLEAN /\ grid \in BOOLEAN /\ (grid => live)
      BY DEF JobsInv, TypeOK
    <3>2. CASE left
      BY <1>3, <3>2
    <3>3. CASE ~left
      BY <1>3, <3>1, <3>3
    <3> QED
      BY <3>2, <3>3
  <2>2. half' \subseteq {"file", "backup"} /\ dumped' \in BOOLEAN
        /\ due' \in [Acts \cup {"csv"} -> 0 .. MaxDue]
    BY <1>8 DEF JobsInv, TypeOK
  <2> QED
    BY <1>5, <1>8, <2>1, <2>2 DEF TypeOK, JobType
<1>10. \A l \in Kinds : Of(l)' = IF l = k THEN Of(l) \cup {n} ELSE Of(l)
  BY <1>0, <1>1, <1>2, <1>5, <1>6 DEF Of, SameJob
<1>11. SlotInv'
  <2>1. ~run[k].running
    BY DEF Starts
  <2>2. ASSUME NEW j \in Ids', jobs'[j].at # "gone"
        PROVE  LET r == run'[jobs'[j].kind] IN r.running /\ r.job = j /\ r.id = jobs'[j].id
    <3>1. CASE j = n
      BY <1>2, <1>5, <1>8, <3>1
    <3>2. CASE j # n
      <4>1. j \in Ids /\ SameJob(j, jobs'[j])
        <5>1. j \in 1 .. n
          BY <1>5
        <5> QED
          BY <1>0, <1>1, <1>6, <3>2, <5>1
      <4>2. jobs[j].kind \in Kinds /\ jobs[j].kind # k
        BY <1>0, <1>1, <2>1, <2>2, <4>1 DEF JobsInv, SlotInv, SameJob, JobType
      <4> QED
        BY <1>8, <2>2, <4>1, <4>2 DEF JobsInv, SlotInv, SameJob
    <3> QED
      BY <3>1, <3>2
  <2>3. ASSUME NEW l \in Kinds, run'[l].running
        PROVE  /\ run'[l].job \in Ids' /\ jobs'[run'[l].job].kind = l /\ jobs'[run'[l].job].at # "gone"
               /\ \A j \in Of(l)' : j <= run'[l].job
    <3>1. CASE l = k
      BY <1>0, <1>1, <1>2, <1>5, <1>8, <1>10, <3>1 DEF Of
    <3>2. CASE l # k
      <4> DEFINE i == run[l].job
      <4>1. run'[l] = run[l] /\ run[l].running /\ Of(l)' = Of(l)
        BY <1>8, <1>10, <2>3, <3>2
      <4>2. i \in Ids /\ jobs[i].kind = l /\ jobs[i].at # "gone" /\ \A j \in Of(l) : j <= i
        BY <4>1 DEF JobsInv, SlotInv
      <4>3. SameJob(i, jobs'[i])
        BY <1>6, <4>2
      <4>4. jobs'[i].kind = l /\ jobs'[i].at # "gone"
        BY <4>2, <4>3 DEF SameJob
      <4>5. i \in Ids'
        BY <1>0, <1>1, <1>5, <4>2
      <4> QED
        BY <4>1, <4>2, <4>4, <4>5
    <3> QED
      BY <3>1, <3>2
  <2> QED
    BY <1>8, <2>2, <2>3 DEF SlotInv
<1>12. NumberInv'
  <2>1. Len(jobs') <= MaxJobs /\ \A l \in Kinds : run'[l].id <= Len(jobs')
    <3>1. \A l \in Kinds : run[l].id <= Len(jobs) /\ run[l].id \in Nat
      BY <1>1 DEF JobsInv, NumberInv
    <3>2. ASSUME NEW l \in Kinds PROVE run'[l].id <= n
      <4>1. CASE l = k
        BY <1>0, <1>1, <1>8, <3>1, <4>1
      <4>2. CASE l # k
        <5>1. run'[l].id = run[l].id
          BY <1>8, <4>2
        <5> QED
          BY <1>0, <1>1, <3>1, <5>1
      <4> QED
        BY <4>1, <4>2
    <3> QED
      BY <1>0, <1>1, <1>5, <3>2
  <2>2. ASSUME NEW l \in Kinds, Of(l)' # {}
        PROVE  \E j \in Of(l)' : \A i \in Of(l)' : i <= j
    <3>1. CASE l = k
      <4>1. \A i \in Of(k) : i <= n
        BY <1>0, <1>1 DEF Of
      <4>2. Of(k)' = Of(k) \cup {n}
        BY <1>10
      <4> QED
        BY <1>0, <3>1, <4>1, <4>2
    <3>2. CASE l # k
      BY <1>10, <2>2, <3>2 DEF JobsInv, NumberInv
    <3> QED
      BY <3>1, <3>2
  <2> QED
    BY <2>1, <2>2 DEF NumberInv
<1>13. NoHalfFile'
  <2>1. ASSUME NEW l \in half'
        PROVE  \E j \in Ids' : jobs'[j].kind = l /\ jobs'[j].writes /\ jobs'[j].at # "gone"
    <3>1. CASE l \in half
      <4>1. PICK j \in Ids : jobs[j].kind = l /\ jobs[j].writes /\ jobs[j].at # "gone"
        BY <3>1 DEF JobsInv, NoHalfFile
      <4> QED
        BY <1>0, <1>1, <1>5, <1>6, <4>1 DEF SameJob
    <3>2. CASE l \notin half
      <4>1. l = k /\ w.writes
        BY <1>2, <1>8, <2>1, <3>2 DEF Starts
      <4> QED
        BY <1>0, <1>1, <1>2, <1>5, <4>1
    <3> QED
      BY <3>1, <3>2
  <2> QED
    BY <2>1 DEF NoHalfFile
<1>14. (\A j \in Ids : JobKeeps(j))'
  <2>1. \A j \in Ids' : j \in Ids \/ j = n
    BY <1>0, <1>1, <1>5
  <2> QED
    BY <1>6, <1>7, <2>1
<1> QED
  BY <1>9, <1>11, <1>12, <1>13, <1>14 DEF JobsInv

\* A worker that was reported frees its kind, and leaves no part of a file.
LEMMA EndsKeep ==
  ASSUME JobsInv, NEW j \in Ids, Ends(j)
  PROVE  JobsInv'
<1> DEFINE k == jobs[j].kind
           w == Over(j)
<1>1. /\ Len(jobs) \in Nat /\ Ids = 1..Len(jobs) /\ jobs \in Seq(JobType)
      /\ \A i \in Ids : jobs[i] \in JobType
      /\ run \in [Kinds -> [running : BOOLEAN, id : 0 .. MaxJobs, job : 0 .. MaxJobs]]
      /\ MaxJobs \in Nat /\ k \in Kinds /\ jobs[j].at = "sent"
  BY JobsTyped, BoundsAssumption DEF JobsInv, TypeOK, Ends, JobType
<1>2. /\ w \in JobType
      /\ w.kind = k /\ w.id = jobs[j].id /\ w.through = "none" /\ w.writes = FALSE
      /\ w.at = "gone" /\ w.badDump = FALSE /\ w.readers = 0 /\ w.posted = 0
  BY <1>1 DEF Over, JobType
<1>3. /\ run[k].running /\ run[k].job = j
      /\ \A i \in Ids : i # j /\ jobs[i].at # "gone" => jobs[i].kind # k
  BY <1>1 DEF JobsInv, SlotInv
<1> HIDE DEF w
<1>4. /\ jobs' \in Seq(JobType) /\ Len(jobs') = Len(jobs) /\ Ids' = Ids
      /\ jobs'[j] = w /\ \A i \in Ids : i # j => jobs'[i] = jobs[i]
  <2>1. jobs' = [jobs EXCEPT ![j] = w]
    BY DEF Ends, w
  <2> QED
    BY <1>1, <1>2, <2>1, ExceptSeq DEF Ids
<1>5. /\ ~run'[k].running /\ run'[k].id \in {0, run[k].id} /\ \A l \in Kinds : l # k => run'[l] = run[l]
      /\ run' \in [Kinds -> [running : BOOLEAN, id : 0 .. MaxJobs, job : 0 .. MaxJobs]]
  BY <1>1 DEF Ends
<1>6. /\ UNCHANGED <<live, grid, modal, due>> /\ dumped' \in BOOLEAN /\ half' \subseteq half
      /\ half' = IF jobs[j].badDump THEN half \ {"backup"} ELSE half
  BY DEF Ends, shell
<1>7. TypeOK'
  BY <1>4, <1>5, <1>6 DEF JobsInv, TypeOK, JobType
<1>8. ASSUME NEW i \in Ids PROVE JobKeeps(i)'
  <2>1. CASE i = j
    BY <1>2, <1>4, <2>1 DEF JobKeeps
  <2>2. CASE i # j
    BY <1>4, <1>6, <2>2 DEF JobKeeps, JobsInv
  <2> QED
    BY <2>1, <2>2
<1>9. \A l \in Kinds : Of(l)' = Of(l)
  BY <1>2, <1>4 DEF Of
<1>10. SlotInv'
  <2>1. ASSUME NEW i \in Ids, jobs'[i].at # "gone"
        PROVE  LET r == run'[jobs'[i].kind] IN r.running /\ r.job = i /\ r.id = jobs'[i].id
    <3>1. i # j /\ jobs'[i] = jobs[i] /\ jobs[i].kind \in Kinds /\ jobs[i].kind # k
      <4>1. i # j
        BY <1>2, <1>4, <2>1
      <4>2. jobs'[i] = jobs[i] /\ jobs[i] \in JobType
        BY <1>1, <1>4, <4>1
      <4> QED
        BY <1>3, <2>1, <4>1, <4>2 DEF JobType
    <3> QED
      BY <1>5, <2>1, <3>1 DEF JobsInv, SlotInv
  <2>2. ASSUME NEW l \in Kinds, run'[l].running
        PROVE  /\ run'[l].job \in Ids /\ jobs'[run'[l].job].kind = l /\ jobs'[run'[l].job].at # "gone"
               /\ \A i \in Of(l) : i <= run'[l].job
    <3>1. l # k /\ run'[l] = run[l]
      BY <1>5, <2>2
    <3>2. run[l].job \in Ids /\ jobs[run[l].job].kind = l
      BY <2>2, <3>1 DEF JobsInv, SlotInv
    <3> QED
      BY <1>4, <2>2, <3>1, <3>2 DEF JobsInv, SlotInv
  <2>3. modal' = "file" => ~run'["file"].running
    BY <1>5, <1>6 DEF JobsInv, SlotInv, Kinds
  <2> QED
    BY <1>4, <1>9, <2>1, <2>2, <2>3 DEF SlotInv
<1>11. NumberInv'
  <2>1. \A l \in Kinds : run'[l].id <= Len(jobs)
    BY <1>1, <1>5 DEF JobsInv, NumberInv
  <2> HIDE DEF k
  <2> QED
    BY <1>4, <1>9, <2>1 DEF JobsInv, NumberInv
<1>12. NoHalfFile'
  <2>1. k \notin half' \/ ~jobs[j].writes
    BY <1>1, <1>6 DEF JobsInv, JobKeeps
  <2> QED
    BY <1>1, <1>3, <1>4, <1>6, <2>1 DEF JobsInv, NoHalfFile
<1> QED
  BY <1>4, <1>7, <1>8, <1>10, <1>11, <1>12 DEF JobsInv

\* The program starts without a job.
LEMMA JobsInit == Init => JobsInv
<1> SUFFICES ASSUME Init PROVE JobsInv
  OBVIOUS
<1>1. Len(jobs) = 0 /\ Ids = {} /\ jobs \in Seq(JobType)
  BY DEF Init, Ids
<1>2. TypeOK
  <2>1. due \in [Acts \cup {"csv"} -> 0 .. MaxDue]
    BY BoundsAssumption DEF Init
  <2>2. run \in [Kinds -> [running : BOOLEAN, id : 0 .. MaxJobs, job : 0 .. MaxJobs]]
    BY BoundsAssumption DEF Init
  <2>3. jobs \in Seq(JobType)
    BY <1>1
  <2>4. live = FALSE /\ grid = FALSE /\ modal = "none" /\ half = {} /\ dumped = FALSE
    BY DEF Init
  <2> QED
    BY <2>1, <2>2, <2>3, <2>4 DEF TypeOK, JobType
<1>3. SlotInv /\ NumberInv /\ NoHalfFile
  BY <1>1, BoundsAssumption DEF Init, SlotInv, NumberInv, NoHalfFile, Of
<1> QED
  BY <1>1, <1>2, <1>3 DEF JobsInv

\* Every step keeps the invariant.
LEMMA JobsStep == JobsInv /\ [Next]_vars => JobsInv'
<1> SUFFICES ASSUME JobsInv, [Next]_vars PROVE JobsInv'
  OBVIOUS
<1> QED
  BY StepShapes, PromptsKeep, LeavesKeep, MovesKeep, StartsKeep, EndsKeep DEF Shapes

(* The inductive invariant holds of every behaviour: a kind and its worker  *)
(* know each other, and a worker always has a reader or a message on its    *)
(* way (exportsmodel.go).                                                   *)
THEOREM JobsInvariant == Spec => []JobsInv
<1>1. Init => JobsInv
  BY JobsInit
<1>2. JobsInv /\ [Next]_vars => JobsInv'
  BY JobsStep
<1> QED
  BY <1>1, <1>2, PTL DEF Spec

(* A worker never blocks for good on its channel, and one whose session     *)
(* went away has been told to stop (exportsmodel.go cancelAll).             *)
THEOREM WorkersAreHeard == Spec => []Heard
<1>1. JobsInv => Heard
  <2> SUFFICES ASSUME JobsInv PROVE Heard
    OBVIOUS
  <2>1. Served
    BY DEF JobsInv, JobKeeps, Served
  <2>2. StopsWithSession
    BY DEF JobsInv, JobKeeps, StopsWithSession
  <2> QED
    BY <2>1, <2>2 DEF JobsInv, Heard
<1> QED
  BY <1>1, JobsInvariant, PTL

(* No half of a file is left at its path once the job that wrote it was     *)
(* reported (export.go, dumprestore.go finishBackup).                       *)
THEOREM NoHalfIsLeft == Spec => []NoHalfFile
<1>1. JobsInv => NoHalfFile
  BY DEF JobsInv
<1> QED
  BY <1>1, JobsInvariant, PTL

-----------------------------------------------------------------------------
(* Each kind implements JobSlot.                                           *)

\* The state of a kind's slot, and its last job, by what the kind shows.
SlotShows ==
  \A k \in Kinds :
    /\ ~run[k].running => StateOf(k) = "idle"
    /\ run[k].running => /\ LastOf(k) = run[k].job
                         /\ StateOf(k) = IF jobs[run[k].job].cancelled THEN "stopping" ELSE "running"
    /\ LastOf(k) \in 0 .. Len(jobs)

\* It holds wherever the invariant does.
LEMMA SlotIs == JobsInv => SlotShows
<1> SUFFICES ASSUME JobsInv, NEW k \in Kinds
    PROVE  /\ ~run[k].running => StateOf(k) = "idle"
           /\ run[k].running => /\ LastOf(k) = run[k].job
                                /\ StateOf(k) = IF jobs[run[k].job].cancelled THEN "stopping" ELSE "running"
           /\ LastOf(k) \in 0 .. Len(jobs)
  BY DEF SlotShows
<1>1. Len(jobs) \in Nat /\ Ids = 1..Len(jobs)
  BY JobsTyped DEF JobsInv
<1>2. Of(k) \subseteq 1 .. Len(jobs)
  BY <1>1 DEF Of
<1>3. Of(k) # {} => LastOf(k) \in Of(k) /\ \A i \in Of(k) : i <= LastOf(k)
  BY DEF JobsInv, NumberInv, LastOf
<1>4. LastOf(k) \in 0 .. Len(jobs)
  BY <1>1, <1>2, <1>3 DEF LastOf
<1>5. CASE run[k].running
  <2>1. run[k].job \in Of(k) /\ jobs[run[k].job].at # "gone" /\ \A j \in Of(k) : j <= run[k].job
    BY <1>5 DEF JobsInv, SlotInv, Of
  <2>2. LastOf(k) = run[k].job
    BY <1>1, <1>2, <1>3, <2>1
  <2>3. AliveOf(k) = {run[k].job}
    BY <2>1 DEF AliveOf, JobsInv, SlotInv, Of
  <2> QED
    BY <1>4, <1>5, <2>2, <2>3 DEF StateOf
<1>6. CASE ~run[k].running
  <2>1. AliveOf(k) = {}
    BY <1>6 DEF AliveOf, JobsInv, SlotInv, Of
  <2> QED
    BY <1>4, <1>6, <2>1 DEF StateOf
<1> QED
  BY <1>5, <1>6

\* What a step does to one kind: little, a start, or an end.
Quiet(k) ==
  /\ Of(k)' = Of(k) /\ (run'[k].running <=> run[k].running)
  /\ run[k].running => run'[k].job = run[k].job
                       /\ (jobs[run[k].job].cancelled => jobs'[run[k].job].cancelled)
Begins(k) ==
  /\ ~run[k].running /\ run'[k].running /\ run'[k].job = Len(jobs) + 1
  /\ ~jobs'[Len(jobs) + 1].cancelled
Stops_(k) == run[k].running /\ ~run'[k].running /\ Of(k)' = Of(k)

\* Every step does one of these to each kind.
LEMMA KindStep ==
  ASSUME JobsInv, Shapes, NEW k \in Kinds
  PROVE  Quiet(k) \/ Begins(k) \/ Stops_(k)
<1>1. /\ Len(jobs) \in Nat /\ Ids = 1..Len(jobs) /\ jobs \in Seq(JobType)
      /\ \A i \in Ids : jobs[i] \in JobType
      /\ run \in [Kinds -> [running : BOOLEAN, id : 0 .. MaxJobs, job : 0 .. MaxJobs]]
      /\ run[k].running => run[k].job \in Ids
  BY JobsTyped DEF JobsInv, TypeOK, SlotInv
<1>2. CASE Prompts
  BY <1>2 DEF Prompts, Quiet, Of, Ids
<1>3. CASE Leaves
  <2>1. jobs' = Left /\ run' = run /\ Ids' = Ids
    BY <1>3, LeftIs DEF Leaves, JobsInv, Ids
  <2>2. \A j \in Ids : SameJob(j, jobs'[j])
    BY <2>1, LeftFields
  <2> QED
    BY <1>1, <2>1, <2>2 DEF Quiet, Of, SameJob
<1>4. ASSUME NEW j \in Ids, NEW w \in JobType, Moves(j, w)
      PROVE  Quiet(k)
  <2>1. jobs' = [jobs EXCEPT ![j] = w] /\ run' = run
    BY <1>4 DEF Moves
  <2>2. /\ Ids' = Ids /\ jobs'[j] = w /\ \A i \in Ids : i # j => jobs'[i] = jobs[i]
    BY <1>1, <2>1, ExceptSeq DEF Ids
  <2>3. w.kind = jobs[j].kind /\ (jobs[j].cancelled => w.cancelled)
    BY <1>4 DEF Moves
  <2>4. Of(k)' = Of(k)
    BY <2>2, <2>3 DEF Of
  <2> QED
    BY <1>1, <2>1, <2>2, <2>3, <2>4 DEF Quiet
<1>5. ASSUME NEW l \in Kinds, NEW through \in {"none", "live"}, NEW tool \in BOOLEAN, NEW writes \in BOOLEAN,
             Starts(l, through, tool, writes)
      PROVE  Quiet(k) \/ Begins(k)
  <2>1. run[l].id + 1 \in 1 .. MaxJobs
    BY <1>1, <1>5, BoundsAssumption DEF Starts, JobsInv, NumberInv
  <2>2. PICK w \in JobType : w.kind = l /\ ~w.cancelled /\ w = Fresh(l, through, tool, writes)
    BY <2>1, FreshIs
  <2>3. PICK others \in {jobs, Left} : jobs' = Append(others, w)
    BY <1>5, <2>2 DEF Starts
  <2>4. others \in Seq(JobType) /\ Len(others) = Len(jobs)
    BY <1>1, <2>3, LeftIs DEF JobsInv
  <2>5. /\ Ids' = 1 .. Len(jobs) + 1 /\ jobs'[Len(jobs) + 1] = w
        /\ \A j \in Ids : jobs'[j] = others[j]
    BY <1>1, <2>2, <2>3, <2>4 DEF Ids
  <2>6. \A j \in Ids : SameJob(j, others[j])
    BY <2>3, LeftFields DEF SameJob
  <2>7. run' = [run EXCEPT ![l] = [running |-> TRUE, id |-> run[l].id + 1, job |-> Len(jobs) + 1]]
        /\ ~run[l].running
    BY <1>5 DEF Starts
  <2>8. CASE l = k
    BY <1>1, <2>2, <2>5, <2>7, <2>8 DEF Begins
  <2>9. CASE l # k
    <3>1. Of(k)' = Of(k)
      BY <1>1, <2>2, <2>5, <2>6, <2>9 DEF Of, SameJob
    <3> QED
      BY <1>1, <2>5, <2>6, <2>7, <2>9, <3>1 DEF Quiet, SameJob
  <2> QED
    BY <2>8, <2>9
<1>6. ASSUME NEW j \in Ids, Ends(j)
      PROVE  Quiet(k) \/ Stops_(k)
  <2>1. /\ Ids' = Ids /\ jobs'[j] = Over(j) /\ \A i \in Ids : i # j => jobs'[i] = jobs[i]
    BY <1>1, <1>6 DEF Ends, Ids
  <2>2. Over(j).kind = jobs[j].kind
    BY DEF Over
  <2>3. Of(k)' = Of(k)
    BY <2>1, <2>2 DEF Of
  <2>4. run[jobs[j].kind].running /\ run[jobs[j].kind].job = j /\ jobs[j].kind \in Kinds
    BY <1>1, <1>6 DEF Ends, JobsInv, SlotInv, JobType
  <2>5. CASE jobs[j].kind = k
    BY <1>1, <1>6, <2>3, <2>4, <2>5 DEF Ends, Stops_
  <2>6. CASE jobs[j].kind # k
    <3>1. run'[k] = run[k]
      BY <1>1, <1>6, <2>6 DEF Ends
    <3>2. run[k].running => run[k].job # j
      BY <2>6 DEF JobsInv, SlotInv
    <3> QED
      BY <1>1, <2>1, <2>3, <3>1, <3>2 DEF Quiet
  <2> QED
    BY <2>5, <2>6
<1> QED
  BY <1>2, <1>3, <1>4, <1>5, <1>6 DEF Shapes

\* So the slot of a kind takes a step of JobSlot, or none.
SlotStep(k) ==
  \/ UNCHANGED <<LastOf(k), StateOf(k)>>
  \/ StateOf(k) = "idle" /\ LastOf(k)' > LastOf(k) /\ StateOf(k)' = "running"
  \/ StateOf(k) = "running" /\ StateOf(k)' = "stopping" /\ UNCHANGED LastOf(k)
  \/ StateOf(k) # "idle" /\ StateOf(k)' = "idle" /\ UNCHANGED LastOf(k)

\* A quiet step, a start and an end of a kind are steps of its slot.
LEMMA SlotTakesStep ==
  ASSUME JobsInv, JobsInv', Shapes, NEW k \in Kinds
  PROVE  SlotStep(k)
<1>1. Of(k)' = Of(k) => LastOf(k)' = LastOf(k)
  BY DEF LastOf
<1>2. /\ ~run[k].running => StateOf(k) = "idle"
      /\ run[k].running => /\ LastOf(k) = run[k].job
                           /\ StateOf(k) = IF jobs[run[k].job].cancelled THEN "stopping" ELSE "running"
      /\ LastOf(k) \in 0 .. Len(jobs) /\ Len(jobs) \in Nat
  BY SlotIs, JobsTyped DEF JobsInv, SlotShows
<1>3. /\ ~run'[k].running => StateOf(k)' = "idle"
      /\ run'[k].running => /\ LastOf(k)' = run'[k].job
                            /\ StateOf(k)' = IF jobs'[run'[k].job].cancelled THEN "stopping" ELSE "running"
  <2>1. SlotShows'
    BY SlotIs, PTL
  <2> QED
    BY <2>1 DEF SlotShows
<1>4. CASE Quiet(k)
  BY <1>1, <1>2, <1>3, <1>4 DEF Quiet, SlotStep
<1>5. CASE Begins(k)
  BY <1>2, <1>3, <1>5 DEF Begins, SlotStep
<1>6. CASE Stops_(k)
  BY <1>1, <1>2, <1>3, <1>6 DEF Stops_, SlotStep
<1> QED
  BY <1>4, <1>5, <1>6, KindStep

\* Before the first job a slot is idle.
LEMMA SlotStarts ==
  ASSUME Init, NEW k \in Kinds
  PROVE  LastOf(k) = 0 /\ StateOf(k) = "idle"
<1>1. Of(k) = {} /\ AliveOf(k) = {} /\ ~run[k].running
  BY DEF Init, Of, AliveOf, Ids
<1> QED
  BY <1>1 DEF LastOf, StateOf

(* Each kind of job implements JobSlot: its workers run one after the       *)
(* other, one told to stop is never wanted again, and what the kind shows   *)
(* is true on the way (exportsmodel.go).                                    *)
THEOREM KindsAreSlots == Spec => OneAtATime
<1>1. Init => FileSlot!Init /\ DDLSlot!Init /\ ImportSlot!Init /\ BackupSlot!Init
  BY SlotStarts DEF FileSlot!Init, DDLSlot!Init, ImportSlot!Init, BackupSlot!Init, Kinds
<1>2. ASSUME JobsInv, [Next]_vars
      PROVE  /\ [FileSlot!Next]_<<LastOf("file"), StateOf("file")>>
             /\ [DDLSlot!Next]_<<LastOf("ddl"), StateOf("ddl")>>
             /\ [ImportSlot!Next]_<<LastOf("csv"), StateOf("csv")>>
             /\ [BackupSlot!Next]_<<LastOf("backup"), StateOf("backup")>>
  <2>1. JobsInv' /\ Shapes
    BY <1>2, JobsStep, StepShapes
  <2>2. SlotStep("file") /\ SlotStep("ddl") /\ SlotStep("csv") /\ SlotStep("backup")
    BY <1>2, <2>1, SlotTakesStep DEF Kinds
  <2>3. [FileSlot!Next]_<<LastOf("file"), StateOf("file")>>
    BY <2>2 DEF SlotStep, FileSlot!Next, FileSlot!Start, FileSlot!Stop, FileSlot!End
  <2>4. [DDLSlot!Next]_<<LastOf("ddl"), StateOf("ddl")>>
    BY <2>2 DEF SlotStep, DDLSlot!Next, DDLSlot!Start, DDLSlot!Stop, DDLSlot!End
  <2>5. [ImportSlot!Next]_<<LastOf("csv"), StateOf("csv")>>
    BY <2>2 DEF SlotStep, ImportSlot!Next, ImportSlot!Start, ImportSlot!Stop, ImportSlot!End
  <2>6. [BackupSlot!Next]_<<LastOf("backup"), StateOf("backup")>>
    BY <2>2 DEF SlotStep, BackupSlot!Next, BackupSlot!Start, BackupSlot!Stop, BackupSlot!End
  <2> QED
    BY <2>3, <2>4, <2>5, <2>6
<1>3. Spec => FileSlot!Spec
  BY <1>1, <1>2, JobsInvariant, PTL DEF Spec, FileSlot!Spec
<1>4. Spec => DDLSlot!Spec
  BY <1>1, <1>2, JobsInvariant, PTL DEF Spec, DDLSlot!Spec
<1>5. Spec => ImportSlot!Spec
  BY <1>1, <1>2, JobsInvariant, PTL DEF Spec, ImportSlot!Spec
<1>6. Spec => BackupSlot!Spec
  BY <1>1, <1>2, JobsInvariant, PTL DEF Spec, BackupSlot!Spec
<1> QED
  BY <1>3, <1>4, <1>5, <1>6 DEF OneAtATime

(***************************************************************************)
(* Reports.                                                                *)
(***************************************************************************)

-----------------------------------------------------------------------------
(* The inductive invariant, one part per report, each with its types.      *)

PlanType == [id : 0 .. MaxAsks, running : BOOLEAN, analyzed : BOOLEAN, req : 0 .. MaxAsks, shows : 0 .. MaxAsks]
ExplainType == [n : 1 .. MaxAsks, id : 1 .. MaxAsks, analyzed : BOOLEAN, cancelled : BOOLEAN]

\* A plan that is made has its request in flight, the one request of its
\* number; ctrl+c belongs to the script or to the statement of the plan.
PlanInv ==
  /\ query \in BOOLEAN /\ ctrlC \in BOOLEAN /\ plan \in PlanType /\ explains \subseteq ExplainType
  /\ plan.id <= asks /\ plan.req <= asks
  /\ \A r \in explains : r.n <= asks
  /\ \A r, s \in explains : r.n = s.n => r = s
  /\ plan.running => \E r \in explains : r.n = plan.req
  /\ plan.running => \A r \in explains : r.n = plan.req => r.id = plan.id /\ (r.analyzed <=> plan.analyzed)
  /\ query => ~Analyzing
  /\ dialog.kind = "analyze" => ~query
  /\ "restart" \notin risks =>
       /\ \A r \in explains : plan # NoPlan /\ r.id = plan.id => plan.running /\ plan.req = r.n
       /\ ctrlC <=> (query \/ Analyzing)
       /\ \A r \in explains : r.analyzed /\ ~r.cancelled => plan.running /\ plan.req = r.n
       /\ plan.shows \in {0, plan.req}

DialogType ==
  [kind : {"none", "info", "analyze", "kill", "diff", "diffSecret"},
   on : Servers \cup {None}, listed : Servers \cup {None}]
ViewType ==
  [conn : Names \cup {None}, id : 0 .. MaxAsks, loading : BOOLEAN, auto : BOOLEAN,
   gen : 0 .. MaxGen, of : Servers \cup {None}]
ReadType == [n : 1 .. MaxAsks, id : 1 .. MaxAsks, conn : Names, server : Servers]
KillType == [n : 1 .. MaxAsks, on : Servers, listed : Servers, conn : Names]

\* What a question to kill a session captured, and the kills, stay on the
\* server that listed it.
ShellInv ==
  /\ server \in Servers \cup {None} /\ nameOf \in [Servers -> Names] /\ dialog \in DialogType
  /\ kills \subseteq KillType
  /\ dialog.kind = "kill" => dialog.on \in Servers /\ dialog.listed \in Servers
  /\ "rename" \notin risks =>
       /\ \A s \in Servers : nameOf[s] = s
       /\ dialog.kind = "kill" => dialog.on = dialog.listed
       /\ \A k \in kills : k.on = k.listed

Ticks(v) == IF v.auto THEN 1 ELSE 0

\* A list that loads has its read in flight, its schedule one tick, and what
\* it shows is of the server that is live. A request pays for the numbers its
\* read and its schedule will take.
ViewInv ==
  /\ view \in ViewType /\ reads \subseteq ReadType
  /\ beats \in [0 .. MaxGen -> 0 .. MaxAsks]
  /\ view # NoView => server # None /\ view.id >= 1
  /\ view.id <= asks
  /\ IsFiniteSet(reads) /\ \A r \in reads : r.n <= asks
  /\ view.gen + Cardinality(reads) + Ticks(view) <= 3 * asks
  /\ \A g \in 0 .. MaxGen : beats[g] <= asks
  /\ "rename" \notin risks =>
       /\ \A r \in reads : r.conn = r.server
       /\ view.of \in {None, server}
       /\ view.loading => \E r \in reads : AnswersList(r)
  /\ "reopen" \notin risks /\ view # NoView =>
       /\ beats[view.gen] = Ticks(view)
       /\ \A g \in 0 .. MaxGen : g > view.gen => beats[g] = 0

DiffType == [id : 0 .. MaxAsks, running : BOOLEAN, req : 0 .. MaxAsks, shows : 0 .. MaxAsks]
WorkerType ==
  [n : 1 .. MaxAsks, id : 1 .. MaxAsks, at : {"work", "send", "done", "sent", "gone"},
   readers : Nat, posted : Nat]

\* The worker of the comparison that is open has one reader or one message,
\* and no other worker is left.
DiffInv ==
  /\ diff \in DiffType /\ workers \subseteq WorkerType /\ secret \in BOOLEAN
  /\ diff.id <= asks /\ diff.req <= asks
  /\ \A w \in workers : w.n <= asks
  /\ \A w, u \in workers : w.n = u.n => w = u
  /\ \A w \in workers : diff # NoDiff /\ w.n = diff.req => w.id = diff.id
  /\ "away" \notin risks =>
       /\ diff.shows \in {0, diff.req}
       /\ \A w \in workers :
            /\ w.at # "gone" => diff.running /\ diff.req = w.n
            /\ w.readers + w.posted = IF w.at \in {"sent", "gone"} THEN 0 ELSE 1

CountInv == asks \in 0 .. MaxAsks /\ risks \subseteq {"restart", "reopen", "away", "rename"}

ReportsInv == CountInv /\ PlanInv /\ ShellInv /\ ViewInv /\ DiffInv

-----------------------------------------------------------------------------
(* What every step does.                                                   *)

Grows ==
  /\ asks' \in {asks, asks + 1} /\ asks' \in 0 .. MaxAsks
  /\ risks \subseteq risks' /\ risks' \subseteq {"restart", "reopen", "away", "rename"}

\* A request counts on, and a risk stays one.
LEMMA StepGrows ==
  ASSUME CountInv, [ReportsNext]_reportsVars
  PROVE  Grows
<1>1. asks \in 0 .. MaxAsks /\ risks \subseteq {"restart", "reopen", "away", "rename"} /\ MaxAsks \in Nat
  BY ReportsAssumption DEF CountInv
<1>2. ASSUME AskServer
      PROVE  asks' \in {asks, asks + 1} /\ asks' \in 0 .. MaxAsks
  BY <1>1, <1>2 DEF AskServer
<1>3. CASE UNCHANGED <<asks, risks>>
  BY <1>1, <1>3 DEF Grows
<1>4. ASSUME risks' = risks, UNCHANGED asks \/ AskServer PROVE Grows
  BY <1>1, <1>2, <1>4 DEF Grows
<1>5. ASSUME NEW analyzed, startExplain(analyzed) PROVE Grows
  BY <1>1, <1>2, <1>5 DEF startExplain, Grows, Risk
<1>6. CASE explainQuery \/ ConfirmAnalyze
  BY <1>3, <1>5, <1>6 DEF explainQuery, ConfirmAnalyze
<1>7. CASE explainAnalyzeQuery \/ closePlan \/ startQuery \/ cancelQuery \/ CloseActivity \/ killSelectedProcess
           \/ openSchemaDiff \/ GiveDiffSecret \/ closeDiff \/ ReportsDisconnect \/ DismissReport
  <2>1. UNCHANGED <<asks, risks>>
    BY <1>7 DEF explainAnalyzeQuery, closePlan, startQuery, cancelQuery, CloseActivity, killSelectedProcess,
       openSchemaDiff, GiveDiffSecret, closeDiff, ReportsDisconnect, DismissReport
  <2> QED
    BY <1>3, <2>1
<1>8. CASE \/ \E r \in explains : finishExplain(r)
           \/ finishQuery
           \/ \E r \in reads : applyActivity(r)
           \/ \E w \in workers : applyDiffProgress(w) \/ finishDiff(w)
           \/ \E s \in Servers : ReportsConnected(s)
           \/ ReportsConnectFailed \/ ReportWorkers \/ UNCHANGED reportsVars
  <2>1. UNCHANGED <<asks, risks>>
    BY <1>8 DEF finishExplain, finishQuery, applyActivity, applyDiffProgress, finishDiff, ReportsConnected,
       ReportsConnectFailed, ReportWorkers, DiffReports, DiffHands, DiffEnds, DiffFinishes, ReportsAside, reportsVars
  <2> QED
    BY <1>3, <2>1
<1>9. CASE refreshActivity \/ toggleActivityAuto \/ ConfirmKill
           \/ (\E g \in 0 .. MaxGen : activityTick(g)) \/ \E k \in kills : finishKill(k)
  <2>1. risks' = risks /\ (UNCHANGED asks \/ AskServer)
    BY <1>9 DEF refreshActivity, toggleActivityAuto, ConfirmKill, activityTick, finishKill, Refresh, AskOther
  <2> QED
    BY <1>4, <2>1
<1>10. CASE openActivity
  BY <1>1, <1>2, <1>10 DEF openActivity, Refresh, AskOther, Risk, Grows
<1>11. CASE CompareThem \/ promptDiffSecrets
  BY <1>1, <1>2, <1>3, <1>11 DEF CompareThem, promptDiffSecrets, AskSecret, startSchemaDiff, AskOther,
     Risk, Grows
<1>12. CASE \E n \in Names : Rename(n)
  BY <1>1, <1>12 DEF Rename, Grows
<1> QED
  BY <1>6, <1>7, <1>8, <1>9, <1>10, <1>11, <1>12 DEF ReportsNext, ReportKeys, ReportMessages

-----------------------------------------------------------------------------
(* Plans.                                                                  *)

\* The requests that are told to stop stay the requests they were.
LEMMA CancelledIs ==
  ASSUME PlanInv
  PROVE  /\ Cancelled \subseteq ExplainType
         /\ \A x \in Cancelled : \E r \in explains :
              /\ x.n = r.n /\ x.id = r.id /\ x.analyzed = r.analyzed
              /\ r.cancelled \/ x.n = plan.req => x.cancelled
         /\ \A r \in explains : \E x \in Cancelled : x.n = r.n
         /\ \A x, y \in Cancelled : x.n = y.n => x = y
<1> DEFINE C(r) == r.cancelled \/ r.n = plan.req
           F(r) == [r EXCEPT !.cancelled = C(r)]
<1>1. Cancelled = {F(r) : r \in explains}
  BY DEF Cancelled
<1>2. \A r \in explains : r \in ExplainType /\ C(r) \in BOOLEAN
  BY DEF PlanInv
<1> HIDE DEF C
<1>3. \A r \in explains : /\ F(r) \in ExplainType /\ F(r).n = r.n /\ F(r).id = r.id /\ F(r).analyzed = r.analyzed
                          /\ F(r).cancelled = C(r)
  BY ONLY <1>2 DEF ExplainType
<1> HIDE DEF F
<1>4. \A x \in Cancelled : \E r \in explains : x = F(r)
  BY <1>1
<1>5. \A r \in explains : F(r) \in Cancelled
  BY <1>1
<1>6. \A r, s \in explains : r.n = s.n => r = s
  BY DEF PlanInv
<1>7. \A r \in explains : r.cancelled \/ r.n = plan.req => F(r).cancelled
  BY <1>3 DEF C
<1> QED
  BY <1>3, <1>4, <1>5, <1>6, <1>7

\* So do those of a plan that is dropped; an analyzed one is told to stop.
LEMMA DroppedIs ==
  ASSUME PlanInv
  PROVE  /\ Dropped \subseteq ExplainType
         /\ \A x \in Dropped : \E r \in explains : x.n = r.n /\ x.id = r.id
         /\ \A x, y \in Dropped : x.n = y.n => x = y
         /\ "restart" \notin risks => \A x \in Dropped : x.analyzed => x.cancelled
<1>1. CASE Analyzing
  <2>1. Dropped = Cancelled
    BY <1>1 DEF Dropped
  <2>2. "restart" \notin risks => \A x \in Cancelled : x.analyzed => x.cancelled
    <3>1. "restart" \notin risks => \A r \in explains : r.analyzed /\ ~r.cancelled => r.n = plan.req
      BY DEF PlanInv
    <3> QED
      BY <3>1, CancelledIs
  <2> QED
    BY <2>1, <2>2, CancelledIs
<1>2. CASE ~Analyzing
  <2>1. Dropped = explains
    BY <1>2 DEF Dropped
  <2>2. "restart" \notin risks => \A x \in explains : x.analyzed => x.cancelled
    BY <1>2 DEF PlanInv, Analyzing
  <2> QED
    BY <2>1, <2>2 DEF PlanInv
<1> QED
  BY <1>1, <1>2

\* What every step may do while the plan is left alone.
LEMMA PlanAside ==
  ASSUME PlanInv, CountInv, Grows, UNCHANGED plans, dialog'.kind = "analyze" => ~query
  PROVE  PlanInv'
<1>1. asks <= asks' /\ asks \in Nat /\ asks' \in Nat /\ ("restart" \notin risks' => "restart" \notin risks)
  BY DEF Grows, CountInv
<1>2. UNCHANGED <<query, ctrlC, plan, explains>>
  BY DEF plans
<1>3. plan.id \in Nat /\ plan.req \in Nat /\ \A r \in explains : r.n \in Nat
  BY DEF PlanInv, PlanType, ExplainType
<1>4. plan.id <= asks' /\ plan.req <= asks' /\ \A r \in explains : r.n <= asks'
  BY <1>1, <1>3 DEF PlanInv
<1> QED
  BY <1>1, <1>2, <1>4 DEF PlanInv, Analyzing

\* The view of the plan goes, and ctrl+c is the script's.
LEMMA PlanDropped ==
  ASSUME PlanInv, CountInv, Grows, plan' = NoPlan, explains' = Dropped, query' \in BOOLEAN, ctrlC' \in BOOLEAN,
         dialog'.kind = "analyze" => ~query', "restart" \notin risks => ctrlC' = query'
  PROVE  PlanInv'
<1>1. asks <= asks' /\ asks \in Nat /\ asks' \in Nat /\ ("restart" \notin risks' => "restart" \notin risks)
      /\ MaxAsks \in Nat
  BY ReportsAssumption DEF Grows, CountInv
<1>2. /\ plan' \in PlanType /\ plan'.id = 0 /\ plan'.req = 0 /\ plan'.shows = 0
      /\ plan'.running = FALSE /\ plan'.analyzed = FALSE
  BY <1>1 DEF NoPlan, PlanType
<1>3. explains' \subseteq ExplainType /\ \A x \in explains' : \E r \in explains : x.n = r.n
  BY DroppedIs
<1>4. \A x \in explains' : x.n <= asks'
  BY <1>1, <1>3 DEF PlanInv, ExplainType
<1>5. \A x, y \in explains' : x.n = y.n => x = y
  BY DroppedIs
<1>6. "restart" \notin risks' => \A x \in explains' : x.analyzed => x.cancelled
  BY <1>1, DroppedIs
<1> QED
  BY <1>1, <1>2, <1>3, <1>4, <1>5, <1>6 DEF PlanInv, Analyzing

\* A request for a plan starts.
LEMMA PlanStarts ==
  ASSUME PlanInv, CountInv, Grows, NEW analyzed \in BOOLEAN, startExplain(analyzed), query' = query,
         analyzed => ~query, dialog'.kind # "analyze"
  PROVE  PlanInv'
<1> DEFINE id == IF plan = NoPlan THEN 1 ELSE plan.id + 1
           new == [n |-> asks + 1, id |-> id, analyzed |-> analyzed, cancelled |-> FALSE]
<1>0. "restart" \notin risks' => "restart" \notin risks
  BY DEF Grows
<1>1. asks \in Nat /\ asks' = asks + 1 /\ asks + 1 \in 1 .. MaxAsks /\ MaxAsks \in Nat
  <2>1. asks \in 0 .. MaxAsks /\ asks' = asks + 1 /\ asks < MaxAsks
    BY DEF CountInv, startExplain, AskServer
  <2>2. MaxAsks \in Nat
    BY ReportsAssumption
  <2> QED
    BY <2>1, <2>2
<1>2. plan.id \in Nat /\ plan.id <= asks /\ query \in BOOLEAN /\ ctrlC \in BOOLEAN
  BY DEF PlanInv, PlanType
<1>3. id \in 1 .. MaxAsks /\ id <= asks'
  BY <1>1, <1>2
<1>4. /\ plan' = [NoPlan EXCEPT !.id = id, !.running = TRUE, !.analyzed = analyzed, !.req = asks + 1]
      /\ explains' = Dropped \cup {new}
      /\ ctrlC' = (KeyLeft \/ analyzed)
      /\ "restart" \notin risks' => \A r \in explains : r.id # id
  BY <1>1 DEF startExplain, Risk
<1> HIDE DEF id
<1>5. /\ plan' \in PlanType /\ plan'.id = id /\ plan'.req = asks + 1 /\ plan'.shows = 0 /\ plan'.running = TRUE
      /\ plan'.analyzed = analyzed
  <2>1. NoPlan \in PlanType /\ NoPlan.shows = 0
    BY <1>1 DEF NoPlan, PlanType
  <2>2. PICK n \in 1 .. MaxAsks : n = asks + 1
    BY <1>1
  <2>3. plan' = [NoPlan EXCEPT !.id = id, !.running = TRUE, !.analyzed = analyzed, !.req = n]
    BY <1>4, <2>2
  <2>4. id \in 0 .. MaxAsks /\ n \in 0 .. MaxAsks
    BY <1>1, <1>3, <2>2
  <2> QED
    BY <2>1, <2>2, <2>3, <2>4 DEF PlanType
<1>6. new \in ExplainType /\ new.n = asks + 1 /\ new.id = id /\ new.analyzed = analyzed /\ new.cancelled = FALSE
  BY <1>1, <1>3 DEF ExplainType
<1> HIDE DEF new
<1>7. Dropped \subseteq ExplainType /\ \A x \in Dropped : x.n <= asks /\ x.n \in Nat
  BY DroppedIs DEF PlanInv, ExplainType
<1>8. \A x \in Dropped : x.n # asks + 1
  BY <1>1, <1>7
<1>9. \A x, y \in explains' : x.n = y.n => x = y
  BY <1>4, <1>6, <1>8, DroppedIs
<1>10. explains' \subseteq ExplainType /\ \A x \in explains' : x.n <= asks'
  BY <1>1, <1>4, <1>6, <1>7
<1>11. \A x \in explains' : x.n = plan'.req => x = new
  BY <1>4, <1>5, <1>8
<1>12. ctrlC' \in BOOLEAN /\ ("restart" \notin risks' => (ctrlC' <=> (query \/ analyzed)))
  BY <1>0, <1>2, <1>4 DEF KeyLeft, PlanInv
<1>13. "restart" \notin risks' => /\ \A x \in Dropped : x.id # id
                                  /\ \A x \in Dropped : x.analyzed => x.cancelled
  BY <1>0, <1>4, DroppedIs
<1>14. "restart" \notin risks' => /\ \A x \in explains' : x.id = id => x = new
                                  /\ \A x \in explains' : x.analyzed /\ ~x.cancelled => x = new
  BY <1>4, <1>13
<1>15. new \in explains'
  BY <1>4
<1>16. Analyzing' <=> analyzed
  BY <1>5 DEF Analyzing
<1>17. plan'.id <= asks' /\ plan'.req <= asks'
  BY <1>1, <1>3, <1>5
<1> QED
  BY <1>2, <1>5, <1>6, <1>9, <1>10, <1>11, <1>12, <1>14, <1>15, <1>16, <1>17 DEF PlanInv

\* An answer arrives, for the plan that is open or not.
LEMMA PlanAnswered ==
  ASSUME PlanInv, CountInv, Grows, NEW r \in explains, finishExplain(r)
  PROVE  PlanInv'
<1>1. /\ asks' = asks /\ risks' = risks /\ query' = query /\ dialog' = dialog
      /\ explains' = explains \ {r}
      /\ r \in ExplainType /\ plan \in PlanType /\ query \in BOOLEAN /\ ctrlC \in BOOLEAN
  BY DEF finishExplain, PlanInv
<1>2. CASE ~AnswersPlan(r)
  <2>1. plan' = plan /\ ctrlC' = ctrlC
    BY <1>2 DEF finishExplain
  <2>2. plan.running => r.n # plan.req
    <3>1. plan.running => plan # NoPlan
      BY DEF NoPlan
    <3> QED
      BY <1>2, <3>1 DEF AnswersPlan, PlanInv
  <2> QED
    BY <1>1, <2>1, <2>2 DEF PlanInv, Analyzing
<1>3. CASE AnswersPlan(r)
  <2>1. plan' = [plan EXCEPT !.running = FALSE, !.shows = r.n] /\ ctrlC' = (ctrlC /\ (~r.analyzed \/ query))
        /\ plan # NoPlan /\ r.id = plan.id
    BY <1>3 DEF finishExplain, AnswersPlan
  <2>2. r.n \in 0 .. MaxAsks
    BY <1>1 DEF ExplainType
  <2>3. /\ plan' \in PlanType /\ plan'.id = plan.id /\ plan'.req = plan.req /\ plan'.running = FALSE
        /\ plan'.shows = r.n
    BY <1>1, <2>1, <2>2 DEF PlanType
  <2>4. "restart" \notin risks => /\ plan.running /\ plan.req = r.n
                                  /\ \A x \in explains' : x.id # plan.id
                                  /\ \A x \in explains' : x.n # r.n
    BY <1>1, <2>1 DEF PlanInv
  <2>5. "restart" \notin risks => \A x \in explains' : x.analyzed => x.cancelled
    BY <1>1, <2>4 DEF PlanInv
  <2>6. ctrlC' \in BOOLEAN /\ ("restart" \notin risks => (ctrlC' <=> query))
    <3>1. "restart" \notin risks => (r.analyzed <=> plan.analyzed)
      BY <2>4 DEF PlanInv
    <3> QED
      BY <1>1, <2>1, <2>4, <3>1 DEF PlanInv, Analyzing
  <2>7. ~Analyzing'
    BY <2>3 DEF Analyzing
  <2> QED
    BY <1>1, <2>3, <2>4, <2>5, <2>6, <2>7 DEF PlanInv
<1> QED
  BY <1>2, <1>3

\* Every step keeps the part of the plans.
LEMMA PlanKeeps ==
  ASSUME ReportsInv, [ReportsNext]_reportsVars
  PROVE  PlanInv'
<1> USE DEF ReportsInv
<1>1. Grows
  BY StepGrows
<1>2. query \in BOOLEAN /\ ctrlC \in BOOLEAN
  BY DEF PlanInv
<1>3. dialog \in DialogType /\ \A k : Modal(k).kind = k
  BY DEF ShellInv, Modal, NoModal
<1>4. ASSUME UNCHANGED plans, UNCHANGED dialog \/ dialog'.kind # "analyze" \/ ~query
      PROVE  PlanInv'
  BY <1>1, <1>4, PlanAside DEF PlanInv
<1>5. CASE explainQuery
  BY <1>1, <1>5, PlanStarts DEF explainQuery, NoReportModal, NoModal
<1>6. CASE explainAnalyzeQuery
  BY <1>4, <1>6 DEF explainAnalyzeQuery, MayAnalyze
<1>7. CASE ConfirmAnalyze
  <2>1. ~query /\ dialog' = NoModal /\ query' = query
    BY <1>7 DEF ConfirmAnalyze, PlanInv
  <2>2. dialog'.kind # "analyze"
    BY <2>1 DEF NoModal
  <2>3. CASE server = None
    BY <1>4, <1>7, <2>2, <2>3 DEF ConfirmAnalyze, plans
  <2>4. CASE server # None
    BY <1>1, <1>7, <2>1, <2>2, <2>4, PlanStarts DEF ConfirmAnalyze
  <2> QED
    BY <2>3, <2>4
<1>8. ASSUME dropPlan, UNCHANGED <<query, dialog>>
      PROVE  PlanInv'
  <2>1. ctrlC' \in BOOLEAN /\ ("restart" \notin risks => ctrlC' = query')
    BY <1>2, <1>8 DEF dropPlan, KeyLeft, PlanInv
  <2>2. dialog'.kind = "analyze" => ~query'
    BY <1>8 DEF PlanInv
  <2> QED
    BY <1>1, <1>2, <1>8, <2>1, <2>2, PlanDropped DEF dropPlan
<1>9. CASE closePlan \/ ReportsDisconnect \/ \E s \in Servers : ReportsConnected(s)
  BY <1>8, <1>9 DEF closePlan, ReportsDisconnect, ReportsConnected, resetReports
<1>10. CASE startQuery
  <2>1. plan' = NoPlan /\ explains' = Dropped /\ query' = TRUE /\ ctrlC' = TRUE /\ dialog'.kind # "analyze"
    BY <1>10 DEF startQuery, NoReportModal, NoModal
  <2> QED
    BY <1>1, <2>1, PlanDropped
<1>11. CASE finishQuery
  <2>1. UNCHANGED <<plan, explains, asks, risks>> /\ query' = FALSE /\ ctrlC' = FALSE /\ query
    BY <1>11 DEF finishQuery
  <2>2. ~Analyzing
    BY <2>1 DEF PlanInv
  <2> QED
    BY <2>1, <2>2 DEF PlanInv, Analyzing
<1>12. CASE cancelQuery
  <2>1. UNCHANGED <<query, ctrlC, plan, asks, risks, dialog>> /\ explains' = Cancelled /\ plan.running
    BY <1>12 DEF cancelQuery, Analyzing
  <2>2. \A x \in explains' : \E r \in explains :
           x.n = r.n /\ x.id = r.id /\ x.analyzed = r.analyzed /\ (r.cancelled => x.cancelled)
    BY <2>1, CancelledIs
  <2>3. explains' \subseteq ExplainType /\ (\A x, y \in explains' : x.n = y.n => x = y)
        /\ \A r \in explains : \E x \in explains' : x.n = r.n
    BY <2>1, CancelledIs
  <2>4. /\ \A x \in explains' : x.n <= asks
        /\ plan.running => \E x \in explains' : x.n = plan.req
        /\ \A x \in explains' : x.n = plan.req => x.id = plan.id /\ (x.analyzed <=> plan.analyzed)
    BY <2>1, <2>2, <2>3 DEF PlanInv
  <2>5. "restart" \notin risks =>
          /\ \A x \in explains' : plan # NoPlan /\ x.id = plan.id => plan.running /\ plan.req = x.n
          /\ \A x \in explains' : x.analyzed /\ ~x.cancelled => plan.running /\ plan.req = x.n
    BY <2>2 DEF PlanInv
  <2> QED
    BY <2>1, <2>3, <2>4, <2>5 DEF PlanInv, Analyzing
<1>13. ASSUME NEW r \in explains, finishExplain(r) PROVE PlanInv'
  BY <1>1, <1>13, PlanAnswered
<1>14. CASE \/ openActivity \/ refreshActivity \/ toggleActivityAuto \/ CloseActivity \/ closeDiff
            \/ \E n \in Names : Rename(n)
            \/ \E r \in reads : applyActivity(r)
            \/ \E g \in 0 .. MaxGen : activityTick(g)
            \/ \E k \in kills : finishKill(k)
            \/ \E w \in workers : applyDiffProgress(w) \/ finishDiff(w)
            \/ ReportWorkers \/ UNCHANGED reportsVars
  <2>1. UNCHANGED <<plans, dialog>>
    BY <1>14 DEF openActivity, refreshActivity, toggleActivityAuto, CloseActivity, closeDiff, Rename,
       applyActivity,
       activityTick, finishKill, applyDiffProgress, finishDiff, ReportWorkers, DiffReports, DiffHands,
       DiffEnds, DiffFinishes, ReportsAside, reportsVars
  <2> QED
    BY <1>4, <2>1
<1>15. CASE killSelectedProcess \/ ConfirmKill \/ openSchemaDiff \/ CompareThem \/ GiveDiffSecret
            \/ DismissReport \/ promptDiffSecrets \/ ReportsConnectFailed
  <2>1. UNCHANGED plans /\ (dialog' = dialog \/ dialog'.kind # "analyze")
    BY <1>3, <1>15 DEF killSelectedProcess, ConfirmKill, openSchemaDiff, CompareThem, GiveDiffSecret,
       DismissReport,
       promptDiffSecrets, ReportsConnectFailed, AskSecret, NoModal
  <2> QED
    BY <1>4, <2>1
<1> QED
  BY <1>5, <1>6, <1>7, <1>9, <1>10, <1>11, <1>12, <1>13, <1>14, <1>15 DEF ReportsNext, ReportKeys,
     ReportMessages

-----------------------------------------------------------------------------
(* The sessions of the server.                                             *)

\* What every step may do while the list is left alone.
LEMMA ViewAside ==
  ASSUME ViewInv, CountInv, Grows, UNCHANGED <<server, view, reads, beats>>,
         nameOf' = nameOf \/ "rename" \in risks'
  PROVE  ViewInv'
<1>1. /\ asks <= asks' /\ asks \in Nat /\ asks' \in Nat
      /\ ("rename" \notin risks' => "rename" \notin risks) /\ ("reopen" \notin risks' => "reopen" \notin risks)
  BY DEF Grows, CountInv
<1>2. view.id <= asks' /\ (\A r \in reads : r.n <= asks') /\ \A g \in 0 .. MaxGen : beats[g] <= asks'
  <2>1. view.id \in Nat /\ \A r \in reads : r.n \in Nat
    BY DEF ViewInv, ViewType, ReadType
  <2>2. MaxAsks \in Nat /\ \A g \in 0 .. MaxGen : beats[g] \in 0 .. MaxAsks
    BY ReportsAssumption DEF ViewInv
  <2> QED
    BY <1>1, <2>1, <2>2 DEF ViewInv
<1>3. view.gen + Cardinality(reads) + Ticks(view) <= 3 * asks'
  <2>1. Cardinality(reads) \in Nat /\ view.gen \in Nat /\ Ticks(view) \in Nat
    BY FS_CardinalityType DEF ViewInv, ViewType, Ticks
  <2> QED
    BY <1>1, <2>1 DEF ViewInv
<1>4. "rename" \notin risks' => active' = active
  BY DEF active
<1>5. Ticks(view)' = Ticks(view)
  BY DEF Ticks
<1> QED
  BY <1>1, <1>2, <1>3, <1>4, <1>5 DEF ViewInv, AnswersList

\* A list that is put away leaves reads and ticks that nothing waits for.
LEMMA ViewCloses ==
  ASSUME ViewInv, CountInv, Grows, view' = NoView, UNCHANGED <<reads, beats>>
  PROVE  ViewInv'
<1>1. /\ asks <= asks' /\ asks \in Nat /\ asks' \in Nat /\ MaxAsks \in Nat
      /\ ("rename" \notin risks' => "rename" \notin risks)
  BY ReportsAssumption DEF Grows, CountInv
<1>2. /\ view'.gen = 0 /\ view'.auto = FALSE /\ view'.id = 0 /\ view'.of = None /\ view'.loading = FALSE
      /\ view' \in ViewType
  BY <1>1 DEF NoView, ViewType, MaxGen
<1>3. view'.id <= asks' /\ (\A r \in reads : r.n <= asks') /\ \A g \in 0 .. MaxGen : beats[g] <= asks'
  <2>1. \A r \in reads : r.n \in Nat
    BY DEF ViewInv, ReadType
  <2>2. \A g \in 0 .. MaxGen : beats[g] \in 0 .. MaxAsks
    BY DEF ViewInv
  <2> QED
    BY <1>1, <1>2, <2>1, <2>2 DEF ViewInv
<1>4. (view.gen + Cardinality(reads) + Ticks(view) <= 3 * asks)'
  <2>1. Cardinality(reads) \in Nat /\ view.gen \in Nat /\ Ticks(view) \in Nat /\ Ticks(view)' = 0
    BY <1>2, FS_CardinalityType DEF ViewInv, ViewType, Ticks
  <2> QED
    BY <1>1, <1>2, <2>1 DEF ViewInv
<1> QED
  BY <1>1, <1>2, <1>3, <1>4 DEF ViewInv

\* One more read of the list v, of the server that is live.
LEMMA ViewReads ==
  ASSUME ViewInv, ShellInv, CountInv, Grows, NEW v \in ViewType, Refresh(v), UNCHANGED conns, server \in Servers,
         v.id <= asks, v.gen + Cardinality(reads) + Ticks(v) <= 3 * asks + 2,
         "rename" \notin risks' => v.of \in {None, server},
         beats' \in [0 .. MaxGen -> 0 .. MaxAsks], \A g \in 0 .. MaxGen : beats'[g] <= asks',
         "reopen" \notin risks' => /\ beats'[v.gen] = Ticks(v)
                                   /\ \A g \in 0 .. MaxGen : g > v.gen => beats'[g] = 0
  PROVE  ViewInv'
<1> DEFINE id == v.id + 1
           new == [n |-> asks + 1, id |-> id, conn |-> active, server |-> server]
<1>0. asks \in Nat /\ asks' = asks + 1 /\ asks + 1 \in 1 .. MaxAsks /\ MaxAsks \in Nat
      /\ ("rename" \notin risks' => "rename" \notin risks)
  <2>1. asks \in 0 .. MaxAsks /\ asks' = asks + 1 /\ asks < MaxAsks
    BY DEF CountInv, Refresh, AskServer, AskOther
  <2>2. MaxAsks \in Nat
    BY ReportsAssumption
  <2> QED
    BY <2>1, <2>2 DEF Grows
<1>1. active = nameOf[server] /\ active \in Names /\ active' = active /\ server # None
  BY ReportsAssumption DEF active, ShellInv, conns
<1>2. v.id \in Nat /\ v.gen \in Nat /\ Ticks(v) \in Nat
  BY DEF ViewType, Ticks
<1>3. id \in 1 .. MaxAsks /\ id <= asks'
  BY <1>0, <1>2
<1>4. view' = [v EXCEPT !.id = id, !.loading = TRUE] /\ reads' = reads \cup {new}
  BY <1>0 DEF Refresh
<1> HIDE DEF id
<1>5. /\ view' \in ViewType /\ view'.id = id /\ view'.gen = v.gen /\ view'.auto = v.auto /\ view'.of = v.of
  <2>1. id \in 0 .. MaxAsks
    BY <1>0, <1>3
  <2> QED
    BY <1>4, <2>1 DEF ViewType
<1>6. new \in ReadType /\ new.n = asks + 1 /\ new.id = id /\ new.conn = active /\ new.server = server
  BY <1>0, <1>1, <1>3 DEF ReadType
<1> HIDE DEF new
<1>7. \A r \in reads : r.n <= asks /\ r.n \in Nat
  BY DEF ViewInv, ReadType
<1>8. new \notin reads
  BY <1>0, <1>6, <1>7
<1>9. IsFiniteSet(reads') /\ Cardinality(reads') = Cardinality(reads) + 1 /\ Cardinality(reads) \in Nat
  BY <1>4, <1>8, FS_AddElement, FS_CardinalityType DEF ViewInv
<1>10. Ticks(view)' = Ticks(v)
  BY <1>5 DEF Ticks
<1>11. (view.gen + Cardinality(reads) + Ticks(view) <= 3 * asks)'
  <2>1. v.gen + (Cardinality(reads) + 1) + Ticks(v) <= 3 * (asks + 1)
    BY <1>0, <1>2, <1>9
  <2> QED
    BY <1>0, <1>5, <1>9, <1>10, <2>1
<1>12. view' # NoView /\ view'.id >= 1 /\ view'.id <= asks'
  BY <1>3, <1>5 DEF NoView
<1>13. \A r \in reads' : r.n <= asks'
  BY <1>0, <1>4, <1>6, <1>7
<1>14. reads' \subseteq ReadType
  BY <1>4, <1>6 DEF ViewInv
<1>15. \E r \in reads' : AnswersList(r)'
  <2>1. PICK r \in reads' : r.id = id /\ r.conn = active
    BY <1>4, <1>6
  <2>2. AnswersList(r)'
    BY <1>1, <1>5, <1>12, <2>1 DEF AnswersList
  <2> QED
    BY <2>2
<1>16. "rename" \notin risks' => \A r \in reads' : r.conn = r.server
  BY <1>0, <1>1, <1>4, <1>6 DEF ViewInv, ShellInv
<1>17. server' = server
  BY DEF conns
<1> QED
  BY <1>1, <1>5, <1>9, <1>10, <1>11, <1>12, <1>13, <1>14, <1>15, <1>16, <1>17 DEF ViewInv

\* The list is read again as it is.
LEMMA ViewRefreshes ==
  ASSUME ViewInv, ShellInv, CountInv, Grows, Refresh(view), UNCHANGED <<conns, beats, risks>>, view # NoView
  PROVE  ViewInv'
<1>1. asks <= asks' /\ asks \in Nat /\ asks' \in Nat /\ MaxAsks \in Nat
  BY ReportsAssumption DEF Grows, CountInv
<1>2. view.gen + Cardinality(reads) + Ticks(view) <= 3 * asks + 2
  <2>1. Cardinality(reads) \in Nat /\ view.gen \in Nat /\ Ticks(view) \in Nat
    BY FS_CardinalityType DEF ViewInv, ViewType, Ticks
  <2> QED
    BY <1>1, <2>1 DEF ViewInv
<1>3. \A g \in 0 .. MaxGen : beats[g] \in 0 .. MaxAsks /\ beats[g] <= asks'
  <2>1. \A g \in 0 .. MaxGen : beats[g] \in 0 .. MaxAsks /\ beats[g] <= asks
    BY DEF ViewInv
  <2> QED
    BY <1>1, <2>1
<1>4. server \in Servers
  BY DEF ViewInv, ShellInv
<1> QED
  BY <1>2, <1>3, <1>4, ViewReads DEF ViewInv

\* An answer of the list arrives, for the one that is open or not.
LEMMA ListAnswered ==
  ASSUME ViewInv, ShellInv, CountInv, NEW r \in reads, applyActivity(r)
  PROVE  ViewInv'
<1>1. /\ reads' = reads \ {r} /\ UNCHANGED <<conns, server, nameOf, beats, asks, risks>>
      /\ r \in ReadType /\ view \in ViewType
  BY DEF applyActivity, ViewInv, conns
<1>2. IsFiniteSet(reads') /\ Cardinality(reads') = Cardinality(reads) - 1 /\ Cardinality(reads) \in Nat
  BY <1>1, FS_RemoveElement, FS_CardinalityType DEF ViewInv
<1>3. Cardinality(reads') \in Nat
  BY <1>2, FS_CardinalityType
<1>4. asks \in 0 .. MaxAsks /\ MaxAsks \in Nat
  BY ReportsAssumption DEF CountInv
<1>5. view.gen \in Nat /\ Ticks(view) \in Nat /\ Ticks(view) \in {0, 1}
  BY DEF ViewInv, ViewType, Ticks
<1>6. view.gen + Cardinality(reads) + Ticks(view) <= 3 * asks
  BY DEF ViewInv
<1>7. active' = active
  BY <1>1 DEF active
<1>8. CASE ~AnswersList(r)
  <2>1. view' = view
    BY <1>8 DEF applyActivity
  <2>2. Ticks(view)' = Ticks(view)
    BY <2>1 DEF Ticks
  <2>3. (view.gen + Cardinality(reads) + Ticks(view) <= 3 * asks)'
    BY <1>1, <1>2, <1>4, <1>5, <1>6, <2>1, <2>2
  <2>4. \A x \in reads : AnswersList(x) => x \in reads' /\ AnswersList(x)'
    BY <1>1, <1>7, <1>8, <2>1 DEF AnswersList
  <2> QED
    BY <1>1, <1>2, <2>1, <2>2, <2>3, <2>4 DEF ViewInv
<1>9. CASE AnswersList(r)
  <2>1. view # NoView /\ server # None /\ r.conn = active
    BY <1>9 DEF AnswersList, ViewInv
  <2>2. "rename" \notin risks => r.server = server
    <3>1. "rename" \notin risks => active = server
      BY <2>1 DEF active, ShellInv
    <3> QED
      BY <2>1, <3>1 DEF ViewInv
  <2>3. view.id >= 1 /\ view.id \in Nat
    BY <2>1 DEF ViewInv, ViewType
  <2>4. r.server \in Servers
    BY <1>1 DEF ReadType
  <2>5. /\ view' \in ViewType /\ view'.id = view.id /\ view'.loading = FALSE
        /\ view'.of \in {None, view.of, r.server}
        /\ \/ view'.gen = view.gen + 1 /\ Ticks(view)' = 0
           \/ view'.gen = view.gen /\ Ticks(view)' = Ticks(view)
    <3>1. CASE r.server \in Serverless
      <4> DEFINE g == view.gen + 1
      <4>1. view' = [view EXCEPT !.loading = FALSE, !.of = None, !.auto = FALSE, !.gen = g]
        BY <1>9, <3>1 DEF applyActivity
      <4>2. g \in 0 .. MaxGen
        <5>1. view.gen + 1 <= 3 * asks /\ 3 * asks <= 3 * MaxAsks
          BY <1>2, <1>3, <1>4, <1>5, <1>6
        <5> QED
          BY <1>4, <1>5, <5>1 DEF MaxGen
      <4> HIDE DEF g
      <4>3. /\ view' \in ViewType /\ view'.id = view.id /\ view'.loading = FALSE /\ view'.of = None
            /\ view'.gen = g /\ view'.auto = FALSE
        BY <1>1, <4>1, <4>2 DEF ViewType
      <4> QED
        BY <4>3 DEF g, Ticks
    <3>2. CASE r.server \notin Serverless
      <4>1. PICK of \in {view.of, r.server} : view' = [view EXCEPT !.loading = FALSE, !.of = of]
        BY <1>9, <3>2 DEF applyActivity
      <4>2. /\ view' \in ViewType /\ view'.id = view.id /\ view'.loading = FALSE /\ view'.of = of
            /\ view'.gen = view.gen /\ view'.auto = view.auto
        BY <1>1, <2>4, <4>1 DEF ViewType
      <4> QED
        BY <4>2 DEF Ticks
    <3> QED
      BY <3>1, <3>2
  <2>6. (view.gen + Cardinality(reads) + Ticks(view) <= 3 * asks)'
    BY <1>1, <1>2, <1>4, <1>5, <1>6, <2>5
  <2>7. view' # NoView
    BY <2>3, <2>5 DEF NoView
  <2>8. "reopen" \notin risks => /\ beats[view'.gen] = Ticks(view)'
                                 /\ \A g \in 0 .. MaxGen : g > view'.gen => beats[g] = 0
    <3>1. view'.gen \in 0 .. MaxGen
      BY <2>5 DEF ViewType
    <3>2. "reopen" \notin risks => /\ beats[view.gen] = Ticks(view)
                                   /\ \A g \in 0 .. MaxGen : g > view.gen => beats[g] = 0
      BY <2>1 DEF ViewInv
    <3>3. view'.gen = view.gen + 1 => view'.gen > view.gen /\ \A g \in 0 .. MaxGen : g > view'.gen => g > view.gen
      BY <1>5
    <3> QED
      BY <2>5, <3>1, <3>2, <3>3
  <2>9. "rename" \notin risks => view'.of \in {None, server}
    BY <2>2, <2>5 DEF ViewInv
  <2> QED
    BY <1>1, <1>2, <2>1, <2>3, <2>5, <2>6, <2>7, <2>8, <2>9 DEF ViewInv
<1> QED
  BY <1>8, <1>9

\* t schedules the list, or takes it off its schedule.
LEMMA ScheduleToggles ==
  ASSUME ViewInv, ShellInv, CountInv, Grows, toggleActivityAuto
  PROVE  ViewInv'
<1> DEFINE g == view.gen + 1
<1>1. /\ asks \in 0 .. MaxAsks /\ asks' \in 0 .. MaxAsks /\ asks <= asks' /\ MaxAsks \in Nat
      /\ ("reopen" \notin risks' => "reopen" \notin risks)
  BY ReportsAssumption DEF Grows, CountInv
<1>2. view.gen \in Nat /\ Cardinality(reads) \in Nat /\ view.id <= asks /\ view \in ViewType
  BY FS_CardinalityType DEF ViewInv, ViewType
<1>3. view.gen + Cardinality(reads) + Ticks(view) <= 3 * asks
  BY DEF ViewInv
<1>4. view # NoView /\ UNCHANGED <<conns, server, nameOf, risks>> /\ server \in Servers
  BY DEF toggleActivityAuto, ViewInv, ShellInv, conns
<1>5. "reopen" \notin risks => /\ beats[view.gen] = Ticks(view)
                               /\ \A h \in 0 .. MaxGen : h > view.gen => beats[h] = 0
  BY <1>4 DEF ViewInv
<1>6. CASE view.auto
  <2>1. view' = [view EXCEPT !.auto = FALSE, !.gen = g] /\ UNCHANGED <<reads, beats, asks>>
    BY <1>6 DEF toggleActivityAuto, NextGen
  <2>2. Ticks(view) = 1
    BY <1>6 DEF Ticks
  <2>3. g \in 0 .. MaxGen /\ g > view.gen
    BY <1>1, <1>2, <1>3, <2>2 DEF MaxGen
  <2> HIDE DEF g
  <2>4. /\ view' \in ViewType /\ view'.id = view.id /\ view'.gen = g /\ view'.auto = FALSE /\ view'.of = view.of
        /\ view'.loading = view.loading
    BY <1>2, <2>1, <2>3 DEF ViewType
  <2>5. Ticks(view)' = 0
    BY <2>4 DEF Ticks
  <2>6. (view.gen + Cardinality(reads) + Ticks(view) <= 3 * asks)'
    BY <1>1, <1>2, <1>3, <2>1, <2>2, <2>4, <2>5 DEF g
  <2>7. view' # NoView
    <3>1. view.id >= 1 /\ view.id \in Nat
      BY <1>4 DEF ViewInv, ViewType
    <3> QED
      BY <2>4, <3>1 DEF NoView
  <2>8. "reopen" \notin risks => /\ beats[g] = 0
                                 /\ \A h \in 0 .. MaxGen : h > g => beats[h] = 0
    <3>1. \A h \in 0 .. MaxGen : h > g => h > view.gen
      BY <1>2 DEF g
    <3> QED
      BY <1>5, <2>3, <3>1
  <2>9. \A r \in reads : AnswersList(r) => AnswersList(r)'
    BY <1>4, <2>4, <2>7 DEF AnswersList, active
  <2> QED
    BY <1>4, <2>1, <2>4, <2>5, <2>6, <2>7, <2>8, <2>9 DEF ViewInv
<1>7. CASE ~view.auto
  <2> DEFINE v == [view EXCEPT !.auto = TRUE, !.gen = g]
  <2>1. Refresh(v) /\ beats' = [beats EXCEPT ![g] = @ + 1]
    BY <1>7 DEF toggleActivityAuto, NextGen
  <2>2. Ticks(view) = 0
    BY <1>7 DEF Ticks
  <2>3. asks' = asks + 1
    BY <2>1 DEF Refresh, AskOther, AskServer
  <2>4. g \in 0 .. MaxGen /\ g > view.gen
    BY <1>1, <1>2, <1>3, <2>2, <2>3 DEF MaxGen
  <2> HIDE DEF g
  <2>5. v \in ViewType /\ v.id = view.id /\ v.gen = g /\ v.auto = TRUE /\ v.of = view.of
    BY <1>2, <2>4 DEF ViewType
  <2> HIDE DEF v
  <2>6. Ticks(v) = 1
    BY <2>5 DEF Ticks
  <2>7. v.gen + Cardinality(reads) + Ticks(v) <= 3 * asks + 2
    BY <1>1, <1>2, <1>3, <2>2, <2>5, <2>6 DEF g
  <2>8. beats \in [0 .. MaxGen -> 0 .. MaxAsks] /\ \A h \in 0 .. MaxGen : beats[h] <= asks
    BY DEF ViewInv
  <2>9. beats[g] + 1 \in 0 .. MaxAsks /\ beats[g] + 1 <= asks'
    <3>1. beats[g] \in 0 .. MaxAsks /\ beats[g] <= asks
      BY <2>4, <2>8
    <3> QED
      BY <1>1, <2>3, <3>1
  <2>10. beats' \in [0 .. MaxGen -> 0 .. MaxAsks] /\ beats'[g] = beats[g] + 1
         /\ \A h \in 0 .. MaxGen : h # g => beats'[h] = beats[h]
    BY <2>1, <2>4, <2>8, <2>9
  <2>11. \A h \in 0 .. MaxGen : beats'[h] <= asks'
    <3>1. \A h \in 0 .. MaxGen : beats[h] \in 0 .. MaxAsks /\ beats[h] <= asks'
      BY <1>1, <2>8
    <3> QED
      BY <2>9, <2>10, <3>1
  <2>12. "reopen" \notin risks' => /\ beats'[v.gen] = Ticks(v)
                                   /\ \A h \in 0 .. MaxGen : h > v.gen => beats'[h] = 0
    <3>1. \A h \in 0 .. MaxGen : h > g => h > view.gen /\ h # g
      BY <1>2, <2>4 DEF g
    <3> QED
      BY <1>1, <1>5, <2>4, <2>5, <2>6, <2>10, <3>1
  <2>13. "rename" \notin risks' => v.of \in {None, server}
    BY <1>4, <2>5 DEF ViewInv
  <2> QED
    BY <1>2, <1>4, <2>1, <2>5, <2>7, <2>10, <2>11, <2>12, <2>13, ViewReads
<1> QED
  BY <1>6, <1>7

\* A tick fires: the list is read again, or the schedule it belonged to ended.
LEMMA TickFires ==
  ASSUME ViewInv, ShellInv, CountInv, Grows, NEW g \in 0 .. MaxGen, activityTick(g)
  PROVE  ViewInv'
<1>1. UNCHANGED <<conns, server, nameOf, risks>> /\ beats[g] > 0
  BY DEF activityTick, conns
<1>2. CASE Beats(g)
  BY <1>1, <1>2, ViewRefreshes DEF activityTick, Beats
<1>3. CASE ~Beats(g)
  <2> DEFINE b == beats[g] - 1
  <2>1. beats' = [beats EXCEPT ![g] = b] /\ UNCHANGED <<view, reads, asks>>
    BY <1>3 DEF activityTick
  <2>2. beats \in [0 .. MaxGen -> 0 .. MaxAsks] /\ \A h \in 0 .. MaxGen : beats[h] <= asks
    BY DEF ViewInv
  <2>3. MaxAsks \in Nat /\ asks \in Nat
    BY ReportsAssumption DEF CountInv
  <2>4. b \in 0 .. MaxAsks /\ b <= asks
    <3>1. beats[g] \in 0 .. MaxAsks /\ beats[g] <= asks
      BY <2>2
    <3> QED
      BY <1>1, <2>3, <3>1
  <2> HIDE DEF b
  <2>5. /\ beats' \in [0 .. MaxGen -> 0 .. MaxAsks] /\ beats'[g] = b
        /\ \A h \in 0 .. MaxGen : h # g => beats'[h] = beats[h]
    BY <2>1, <2>2, <2>4
  <2>6. \A h \in 0 .. MaxGen : beats'[h] <= asks'
    BY <2>1, <2>2, <2>4, <2>5
  <2>7. "reopen" \notin risks /\ view # NoView => view.gen # g /\ ~(g > view.gen) /\ view.gen \in 0 .. MaxGen
    <3> SUFFICES ASSUME "reopen" \notin risks, view # NoView
                 PROVE  view.gen # g /\ ~(g > view.gen) /\ view.gen \in 0 .. MaxGen
      OBVIOUS
    <3>1. beats[view.gen] = Ticks(view) /\ \A h \in 0 .. MaxGen : h > view.gen => beats[h] = 0
      BY DEF ViewInv
    <3>2. beats[g] # 0
      BY <1>1, <2>2
    <3>3. ~(g > view.gen)
      BY <3>1, <3>2
    <3>4. g = view.gen => ~view.auto
      BY <1>3 DEF Beats, ViewInv
    <3>5. g # view.gen
      BY <3>1, <3>2, <3>4 DEF Ticks
    <3>6. view.gen \in 0 .. MaxGen
      BY DEF ViewInv, ViewType
    <3> QED
      BY <3>3, <3>5, <3>6
  <2>8. "reopen" \notin risks /\ view # NoView =>
          beats'[view.gen] = Ticks(view) /\ \A h \in 0 .. MaxGen : h > view.gen => beats'[h] = 0
    BY <2>5, <2>7 DEF ViewInv
  <2>9. Ticks(view)' = Ticks(view) /\ active' = active
    BY <1>1, <2>1 DEF Ticks, active
  <2> QED
    BY <1>1, <2>1, <2>5, <2>6, <2>8, <2>9 DEF ViewInv, AnswersList
<1> QED
  BY <1>2, <1>3

\* The list is opened, or read again when it is of the connection.
LEMMA ListOpens ==
  ASSUME ViewInv, ShellInv, CountInv, Grows, openActivity
  PROVE  ViewInv'
<1>1. /\ UNCHANGED <<conns, beats>> /\ server \in Servers /\ server # None
      /\ active \in Names /\ active # None
  BY ReportsAssumption DEF openActivity, ShellInv, active, conns, Names
<1>2. CASE view.conn = active
  <2>1. view # NoView
    BY <1>1, <1>2 DEF NoView
  <2> QED
    BY <1>1, <1>2, <2>1, ViewRefreshes DEF openActivity
<1>3. CASE view.conn # active
  <2> DEFINE v == [NoView EXCEPT !.conn = active]
  <2>1. Refresh(v) /\ ("reopen" \notin risks' => \A g \in 0 .. MaxGen : ~(beats[g] > 0))
    BY <1>3 DEF openActivity, Risk
  <2>2. MaxAsks \in Nat /\ asks \in Nat /\ asks' \in Nat /\ asks <= asks'
    BY ReportsAssumption DEF CountInv, Grows
  <2>3. v \in ViewType /\ v.id = 0 /\ v.gen = 0 /\ v.auto = FALSE /\ v.of = None
    <3>1. 0 \in 0 .. MaxAsks /\ 0 \in 0 .. MaxGen
      BY <2>2 DEF MaxGen
    <3>2. NoView \in ViewType /\ NoView.id = 0 /\ NoView.gen = 0 /\ NoView.auto = FALSE /\ NoView.of = None
      BY <3>1 DEF NoView, ViewType
    <3> QED
      BY <1>1, <3>2 DEF ViewType
  <2> HIDE DEF v
  <2>4. Ticks(v) = 0
    BY <2>3 DEF Ticks
  <2>5. v.id <= asks /\ v.gen + Cardinality(reads) + Ticks(v) <= 3 * asks + 2
    <3>1. Cardinality(reads) \in Nat /\ view.gen \in Nat /\ Ticks(view) \in Nat
      BY FS_CardinalityType DEF ViewInv, ViewType, Ticks
    <3>2. view.gen + Cardinality(reads) + Ticks(view) <= 3 * asks
      BY DEF ViewInv
    <3> QED
      BY <2>2, <2>3, <2>4, <3>1, <3>2
  <2>6. \A g \in 0 .. MaxGen : beats[g] \in 0 .. MaxAsks /\ beats[g] <= asks'
    <3>1. \A g \in 0 .. MaxGen : beats[g] \in 0 .. MaxAsks /\ beats[g] <= asks
      BY DEF ViewInv
    <3> QED
      BY <2>2, <3>1
  <2>7. "reopen" \notin risks' => \A g \in 0 .. MaxGen : beats[g] = 0
    BY <2>1, <2>6
  <2>8. 0 \in 0 .. MaxGen
    BY <2>2 DEF MaxGen
  <2>9. beats' = beats /\ beats \in [0 .. MaxGen -> 0 .. MaxAsks]
    BY <1>1 DEF ViewInv
  <2> QED
    BY <1>1, <2>1, <2>3, <2>4, <2>5, <2>6, <2>7, <2>8, <2>9, ViewReads
<1> QED
  BY <1>2, <1>3

\* Every step keeps the part of the list.
LEMMA ViewKeeps ==
  ASSUME ReportsInv, [ReportsNext]_reportsVars
  PROVE  ViewInv'
<1> USE DEF ReportsInv
<1>1. Grows
  BY StepGrows
<1>2. ASSUME UNCHANGED <<conns, view, reads, beats>> PROVE ViewInv'
  BY <1>1, <1>2, ViewAside DEF conns
<1>3. ASSUME view' = NoView, UNCHANGED <<reads, beats>> PROVE ViewInv'
  BY <1>1, <1>3, ViewCloses
<1>4. CASE \/ explainQuery \/ explainAnalyzeQuery \/ ConfirmAnalyze \/ closePlan \/ startQuery \/ cancelQuery
           \/ killSelectedProcess \/ ConfirmKill \/ openSchemaDiff \/ GiveDiffSecret \/ closeDiff
           \/ DismissReport \/ finishQuery \/ ReportsConnectFailed \/ UNCHANGED reportsVars
  <2>1. UNCHANGED <<conns, view, reads, beats>>
    BY <1>4 DEF explainQuery, explainAnalyzeQuery, ConfirmAnalyze, closePlan, startQuery, cancelQuery,
       killSelectedProcess, ConfirmKill, openSchemaDiff, GiveDiffSecret, closeDiff, DismissReport, finishQuery,
       ReportsConnectFailed, reportsVars, sessions
  <2> QED
    BY <1>2, <2>1
<1>5. CASE ReportWorkers \/ (\E w \in workers : applyDiffProgress(w) \/ finishDiff(w))
           \/ \E r \in explains : finishExplain(r)
  <2>1. UNCHANGED <<conns, view, reads, beats>>
    BY <1>5 DEF ReportWorkers, DiffReports, DiffHands, DiffEnds, DiffFinishes, ReportsAside, applyDiffProgress,
       finishDiff, finishExplain, sessions
  <2> QED
    BY <1>2, <2>1
<1>6. CASE CloseActivity \/ ReportsDisconnect \/ \E s \in Servers : ReportsConnected(s)
  BY <1>3, <1>6 DEF CloseActivity, ReportsDisconnect, ReportsConnected, resetReports, closeActivity
<1>7. CASE CompareThem \/ promptDiffSecrets
  <2>1. UNCHANGED <<conns, reads, beats>> /\ view' \in {view, NoView}
    BY <1>7 DEF CompareThem, promptDiffSecrets, AskSecret, startSchemaDiff, closeActivity, sessions
  <2> QED
    BY <1>2, <1>3, <2>1
<1>8. CASE openActivity \/ toggleActivityAuto \/ \E g \in 0 .. MaxGen : activityTick(g)
  BY <1>1, <1>8, ListOpens, ScheduleToggles, TickFires
<1>9. CASE refreshActivity
  BY <1>1, <1>9, ViewRefreshes DEF refreshActivity
<1>10. CASE \E r \in reads : applyActivity(r)
  BY <1>10, ListAnswered
<1>11. CASE \E k \in kills : finishKill(k)
  <2>1. PICK k \in kills : finishKill(k)
    BY <1>11
  <2>2. CASE view # NoView /\ Refresh(view)
    BY <1>1, <2>1, <2>2, ViewRefreshes DEF finishKill
  <2> QED
    BY <1>2, <2>1, <2>2 DEF finishKill
<1>12. CASE \E n \in Names : Rename(n)
  BY <1>1, <1>12, ViewAside DEF Rename, sessions
<1> QED
  BY <1>4, <1>5, <1>6, <1>7, <1>8, <1>9, <1>10, <1>11, <1>12 DEF ReportsNext, ReportKeys, ReportMessages

-----------------------------------------------------------------------------
(* The comparison.                                                         *)

\* What every step may do while the comparison is left alone.
LEMMA DiffAside ==
  ASSUME DiffInv, CountInv, Grows, UNCHANGED <<diff, workers>>, secret' \in BOOLEAN
  PROVE  DiffInv'
<1>1. asks <= asks' /\ asks \in Nat /\ asks' \in Nat /\ ("away" \notin risks' => "away" \notin risks)
  BY DEF Grows, CountInv
<1>2. diff.id \in Nat /\ diff.req \in Nat /\ \A w \in workers : w.n \in Nat
  BY DEF DiffInv, DiffType, WorkerType
<1>3. diff.id <= asks' /\ diff.req <= asks' /\ \A w \in workers : w.n <= asks'
  BY <1>1, <1>2 DEF DiffInv
<1> QED
  BY <1>1, <1>3 DEF DiffInv

\* The view of a comparison that does not run goes.
LEMMA DiffDropped ==
  ASSUME DiffInv, CountInv, Grows, diff' = NoDiff, UNCHANGED <<workers, secret>>,
         "away" \notin risks' => ~diff.running
  PROVE  DiffInv'
<1>1. asks <= asks' /\ asks \in Nat /\ asks' \in Nat /\ ("away" \notin risks' => "away" \notin risks)
      /\ MaxAsks \in Nat
  BY ReportsAssumption DEF Grows, CountInv
<1>2. diff' \in DiffType /\ diff'.id = 0 /\ diff'.req = 0 /\ diff'.shows = 0
  BY <1>1 DEF NoDiff, DiffType
<1>3. \A w \in workers : w.n <= asks'
  BY <1>1 DEF DiffInv, WorkerType
<1> QED
  BY <1>1, <1>2, <1>3 DEF DiffInv

\* A comparison starts, with a request and a worker of its own.
LEMMA DiffStarts ==
  ASSUME DiffInv, CountInv, Grows, startSchemaDiff, secret' \in BOOLEAN
  PROVE  DiffInv'
<1> DEFINE id == IF diff = NoDiff THEN 1 ELSE diff.id + 1
           new == [n |-> asks + 1, id |-> id, at |-> "work", readers |-> 1, posted |-> 0]
<1>1. asks \in Nat /\ asks' = asks + 1 /\ asks + 1 \in 1 .. MaxAsks /\ MaxAsks \in Nat
  <2>1. asks \in 0 .. MaxAsks /\ asks' = asks + 1 /\ asks < MaxAsks
    BY DEF CountInv, startSchemaDiff, AskServer, AskOther
  <2>2. MaxAsks \in Nat
    BY ReportsAssumption
  <2> QED
    BY <2>1, <2>2
<1>2. diff.id \in Nat /\ diff.id <= asks
  BY DEF DiffInv, DiffType
<1>3. id \in 1 .. MaxAsks /\ id <= asks'
  BY <1>1, <1>2
<1>4. /\ diff' = [id |-> id, running |-> TRUE, req |-> asks + 1, shows |-> 0]
      /\ workers' = workers \cup {new}
      /\ "away" \notin risks' => "away" \notin risks /\ ~diff.running
  BY <1>1 DEF startSchemaDiff, Risk
<1> HIDE DEF id
<1>5. diff' \in DiffType /\ diff'.id = id /\ diff'.req = asks + 1 /\ diff'.shows = 0 /\ diff'.running = TRUE
  BY <1>1, <1>3, <1>4 DEF DiffType
<1>6. /\ new \in WorkerType /\ new.n = asks + 1 /\ new.id = id /\ new.at = "work"
      /\ new.readers + new.posted = 1
  BY <1>1, <1>3 DEF WorkerType
<1> HIDE DEF new
<1>7. \A w \in workers : w.n <= asks /\ w.n \in Nat
  BY DEF DiffInv, WorkerType
<1>8. \A w \in workers : w.n # asks + 1 /\ w.n <= asks'
  BY <1>1, <1>7
<1>9. \A w, u \in workers' : w.n = u.n => w = u
  BY <1>4, <1>6, <1>8 DEF DiffInv
<1>10. "away" \notin risks' => \A w \in workers : w.at = "gone" /\ w.readers + w.posted = 0
  BY <1>4 DEF DiffInv
<1>11. diff'.id <= asks' /\ diff'.req <= asks' /\ \A w \in workers' : w.n <= asks'
  BY <1>1, <1>3, <1>4, <1>5, <1>6, <1>8
<1>12. \A w \in workers' : w.n = diff'.req => w.id = diff'.id
  BY <1>4, <1>5, <1>6, <1>8
<1>13. workers' \subseteq WorkerType
  BY <1>4, <1>6 DEF DiffInv
<1>14. "away" \notin risks' => \A w \in workers' :
          /\ w.at # "gone" => diff'.running /\ diff'.req = w.n
          /\ w.readers + w.posted = IF w.at \in {"sent", "gone"} THEN 0 ELSE 1
  BY <1>4, <1>5, <1>6, <1>10
<1> QED
  BY <1>5, <1>9, <1>11, <1>12, <1>13, <1>14 DEF DiffInv

\* A worker takes a step of its own.
LEMMA WorkerSteps ==
  ASSUME DiffInv, NEW w \in workers, NEW u \in WorkerType, Becomes(w, u), ReportsAside, u.n = w.n, u.id = w.id,
         "away" \notin risks =>
           /\ w.at # "gone"
           /\ u.readers + u.posted = IF u.at \in {"sent", "gone"} THEN 0 ELSE 1
  PROVE  DiffInv'
<1>1. UNCHANGED <<diff, secret, asks, risks>> /\ workers' = (workers \ {w}) \cup {u}
  BY DEF Becomes, ReportsAside
<1>2. workers' \subseteq WorkerType
  BY <1>1 DEF DiffInv
<1>3. \A x \in workers' : \E y \in workers : x.n = y.n /\ x.id = y.id
  BY <1>1
<1>4. \A x, y \in workers' : x.n = y.n => x = y
  BY <1>1 DEF DiffInv
<1>5. "away" \notin risks => \A x \in workers' :
        /\ x.at # "gone" => diff.running /\ diff.req = x.n
        /\ x.readers + x.posted = IF x.at \in {"sent", "gone"} THEN 0 ELSE 1
  BY <1>1 DEF DiffInv
<1> QED
  BY <1>1, <1>2, <1>3, <1>4, <1>5 DEF DiffInv

\* So does the whole of what workers do.
LEMMA WorkersKeep ==
  ASSUME DiffInv, NEW w \in workers, DiffReports(w) \/ DiffHands(w) \/ DiffEnds(w) \/ DiffFinishes(w)
  PROVE  DiffInv'
<1>1. w \in WorkerType /\ w.readers \in Nat /\ w.posted \in Nat
  BY DEF DiffInv, WorkerType
<1>2. "away" \notin risks => w.readers + w.posted = IF w.at \in {"sent", "gone"} THEN 0 ELSE 1
  BY DEF DiffInv
<1>3. CASE DiffReports(w)
  <2> DEFINE u == [w EXCEPT !.at = "send"]
  <2>1. /\ u \in WorkerType /\ u.n = w.n /\ u.id = w.id /\ u.at = "send"
        /\ u.readers = w.readers /\ u.posted = w.posted
    BY <1>1 DEF WorkerType
  <2>2. w.at = "work" /\ Becomes(w, u) /\ ReportsAside
    BY <1>3 DEF DiffReports
  <2> HIDE DEF u
  <2> QED
    BY <1>2, <2>1, <2>2, WorkerSteps
<1>4. CASE DiffHands(w)
  <2> DEFINE r == w.readers - 1
             p == w.posted + 1
             u == [w EXCEPT !.at = "work", !.readers = r, !.posted = p]
  <2>1. w.at = "send" /\ w.readers > 0 /\ Becomes(w, u) /\ ReportsAside
    BY <1>4 DEF DiffHands
  <2>2. r \in Nat /\ p \in Nat /\ r + p = w.readers + w.posted
    BY <1>1, <2>1
  <2> HIDE DEF r, p
  <2>3. /\ u \in WorkerType /\ u.n = w.n /\ u.id = w.id /\ u.at = "work"
        /\ u.readers = r /\ u.posted = p
    BY <1>1, <2>2 DEF WorkerType
  <2> HIDE DEF u
  <2> QED
    BY <1>2, <2>1, <2>2, <2>3, WorkerSteps
<1>5. CASE DiffEnds(w)
  <2> DEFINE u == [w EXCEPT !.at = "done"]
  <2>1. /\ u \in WorkerType /\ u.n = w.n /\ u.id = w.id /\ u.at = "done"
        /\ u.readers = w.readers /\ u.posted = w.posted
    BY <1>1 DEF WorkerType
  <2>2. w.at = "work" /\ Becomes(w, u) /\ ReportsAside
    BY <1>5 DEF DiffEnds
  <2> HIDE DEF u
  <2> QED
    BY <1>2, <2>1, <2>2, WorkerSteps
<1>6. CASE DiffFinishes(w)
  <2> DEFINE r == w.readers - 1
             u == [w EXCEPT !.at = "sent", !.readers = r]
  <2>1. w.at = "done" /\ w.readers > 0 /\ Becomes(w, u) /\ ReportsAside
    BY <1>6 DEF DiffFinishes
  <2>2. r \in Nat /\ ("away" \notin risks => r + w.posted = 0)
    BY <1>1, <1>2, <2>1
  <2> HIDE DEF r
  <2>3. /\ u \in WorkerType /\ u.n = w.n /\ u.id = w.id /\ u.at = "sent"
        /\ u.readers = r /\ u.posted = w.posted
    BY <1>1, <2>2 DEF WorkerType
  <2> HIDE DEF u
  <2> QED
    BY <1>2, <2>1, <2>2, <2>3, WorkerSteps
<1> QED
  BY <1>3, <1>4, <1>5, <1>6

\* A note is shown and the next one waited for: the worker has its reader again.
LEMMA ProgressKeeps ==
  ASSUME DiffInv, NEW w \in workers, applyDiffProgress(w)
  PROVE  DiffInv'
<1> DEFINE on == ReadDiffOn(w)
           P(u) == IF u = w THEN u.posted - 1 ELSE u.posted
           R(u) == IF on /\ u.n = diff.req THEN u.readers + 1 ELSE u.readers
           F(u) == [u EXCEPT !.posted = P(u), !.readers = R(u)]
<1>1. UNCHANGED <<diff, secret, asks, risks>> /\ w.posted > 0
  BY DEF applyDiffProgress, ReportsAside
<1>2. workers' = {F(u) : u \in workers}
  BY DEF applyDiffProgress
<1>3. \A u \in workers : u \in WorkerType /\ u.readers \in Nat /\ u.posted \in Nat
  BY DEF DiffInv, WorkerType
<1>4. \A u \in workers : P(u) \in Nat /\ R(u) \in Nat
  BY <1>1, <1>3
<1>5. "away" \notin risks => w.at \notin {"sent", "gone"}
  BY <1>1, <1>3 DEF DiffInv
<1>6. "away" \notin risks => diff.running /\ diff.req = w.n
  BY <1>5 DEF DiffInv
<1>7. "away" \notin risks => on
  <2>1. diff.running => diff # NoDiff
    BY DEF NoDiff
  <2> QED
    BY <1>6, <2>1 DEF ReadDiffOn, AnswersDiff, DiffInv
<1>8. "away" \notin risks => \A u \in workers : P(u) + R(u) = u.readers + u.posted
  <2> SUFFICES ASSUME "away" \notin risks, NEW u \in workers PROVE P(u) + R(u) = u.readers + u.posted
    OBVIOUS
  <2>1. CASE u = w
    <3>1. P(u) = u.posted - 1 /\ R(u) = u.readers + 1
      BY <1>6, <1>7, <2>1
    <3> QED
      BY <1>3, <3>1
  <2>2. CASE u # w
    <3>1. u.n # diff.req
      BY <1>6, <2>2 DEF DiffInv
    <3>2. P(u) = u.posted /\ R(u) = u.readers
      BY <2>2, <3>1
    <3> QED
      BY <1>3, <3>2
  <2> QED
    BY <2>1, <2>2
<1> HIDE DEF P, R
<1>9. \A u \in workers : /\ F(u) \in WorkerType /\ F(u).n = u.n /\ F(u).id = u.id /\ F(u).at = u.at
                         /\ F(u).posted = P(u) /\ F(u).readers = R(u)
  BY ONLY <1>3, <1>4 DEF WorkerType
<1> HIDE DEF F
<1>10. \A x \in workers' : \E u \in workers : x = F(u)
  BY <1>2
<1>11. workers' \subseteq WorkerType
  BY <1>9, <1>10
<1>12. \A x \in workers' : \E u \in workers : x.n = u.n /\ x.id = u.id
  BY <1>9, <1>10
<1>13. \A x, y \in workers' : x.n = y.n => x = y
  BY <1>9, <1>10 DEF DiffInv
<1>14. "away" \notin risks => \A x \in workers' :
         /\ x.at # "gone" => diff.running /\ diff.req = x.n
         /\ x.readers + x.posted = IF x.at \in {"sent", "gone"} THEN 0 ELSE 1
  <2> SUFFICES ASSUME "away" \notin risks, NEW u \in workers
               PROVE  /\ F(u).at # "gone" => diff.running /\ diff.req = F(u).n
                      /\ F(u).readers + F(u).posted = IF F(u).at \in {"sent", "gone"} THEN 0 ELSE 1
    BY <1>10
  <2>1. F(u).readers + F(u).posted = u.readers + u.posted
    BY <1>3, <1>4, <1>8, <1>9
  <2> QED
    BY <1>9, <2>1 DEF DiffInv
<1> QED
  BY <1>1, <1>11, <1>12, <1>13, <1>14 DEF DiffInv

\* A comparison ends: what the view shows is its own.
LEMMA FinishKeeps ==
  ASSUME DiffInv, NEW w \in workers, finishDiff(w)
  PROVE  DiffInv'
<1> DEFINE u == [w EXCEPT !.at = "gone"]
<1>1. /\ UNCHANGED <<secret, asks, risks>> /\ w.at = "sent"
      /\ workers' = (workers \ {w}) \cup {u}
  BY DEF finishDiff, Becomes
<1>2. /\ u \in WorkerType /\ u.n = w.n /\ u.id = w.id /\ u.at = "gone"
      /\ u.readers = w.readers /\ u.posted = w.posted /\ w.n \in 0 .. MaxAsks
  BY DEF DiffInv, WorkerType
<1> HIDE DEF u
<1>3. "away" \notin risks => diff.running /\ diff.req = w.n /\ w.readers + w.posted = 0
  BY <1>1 DEF DiffInv
<1>4. "away" \notin risks => AnswersDiff(w)
  <2>1. diff.running => diff # NoDiff
    BY DEF NoDiff
  <2> QED
    BY <1>3, <2>1 DEF AnswersDiff, DiffInv
<1>5. "away" \notin risks => \A x \in workers : x # w => x.at = "gone" /\ x.readers + x.posted = 0
  BY <1>3 DEF DiffInv
<1>6. /\ diff' \in DiffType /\ diff'.id = diff.id /\ diff'.req = diff.req
      /\ diff' # NoDiff => diff # NoDiff
      /\ AnswersDiff(w) => diff'.shows = w.n
  <2>1. CASE AnswersDiff(w)
    <3>1. diff' = [diff EXCEPT !.running = FALSE, !.shows = w.n] /\ diff \in DiffType /\ diff # NoDiff
      BY <2>1 DEF finishDiff, AnswersDiff, DiffInv
    <3> QED
      BY <1>2, <3>1 DEF DiffType
  <2>2. CASE ~AnswersDiff(w)
    BY <2>2 DEF finishDiff, DiffInv
  <2> QED
    BY <2>1, <2>2
<1>7. workers' \subseteq WorkerType /\ \A x \in workers' : \E y \in workers : x.n = y.n /\ x.id = y.id
  BY <1>1, <1>2 DEF DiffInv
<1>8. \A x, y \in workers' : x.n = y.n => x = y
  BY <1>1, <1>2 DEF DiffInv
<1>9. "away" \notin risks => \A x \in workers' : x.at = "gone" /\ x.readers + x.posted = 0
  BY <1>1, <1>2, <1>3, <1>5
<1>10. "away" \notin risks => diff'.shows \in {0, diff'.req}
  BY <1>3, <1>4, <1>6
<1> QED
  BY <1>1, <1>6, <1>7, <1>8, <1>9, <1>10 DEF DiffInv

\* Every step keeps the part of the comparison.
LEMMA DiffKeeps ==
  ASSUME ReportsInv, [ReportsNext]_reportsVars
  PROVE  DiffInv'
<1> USE DEF ReportsInv
<1>1. Grows
  BY StepGrows
<1>2. secret \in BOOLEAN
  BY DEF DiffInv
<1>3. ASSUME UNCHANGED diffs PROVE DiffInv'
  BY <1>1, <1>2, <1>3, DiffAside DEF diffs
<1>4. CASE \/ explainQuery \/ explainAnalyzeQuery \/ ConfirmAnalyze \/ closePlan \/ startQuery \/ cancelQuery
           \/ refreshActivity \/ toggleActivityAuto \/ CloseActivity \/ killSelectedProcess \/ ConfirmKill
           \/ openSchemaDiff \/ ReportsDisconnect \/ DismissReport \/ finishQuery \/ ReportsConnectFailed
           \/ UNCHANGED reportsVars
  <2>1. UNCHANGED diffs
    BY <1>4 DEF explainQuery, explainAnalyzeQuery, ConfirmAnalyze, closePlan, startQuery, cancelQuery,
       refreshActivity, toggleActivityAuto, CloseActivity, killSelectedProcess, ConfirmKill, openSchemaDiff,
       ReportsDisconnect, DismissReport, finishQuery, ReportsConnectFailed, reportsVars
  <2> QED
    BY <1>3, <2>1
<1>5. CASE \/ \E n \in Names : Rename(n)
           \/ \E r \in explains : finishExplain(r)
           \/ \E r \in reads : applyActivity(r)
           \/ \E g \in 0 .. MaxGen : activityTick(g)
           \/ \E k \in kills : finishKill(k)
           \/ \E s \in Servers : ReportsConnected(s)
  <2>1. UNCHANGED diffs
    BY <1>5 DEF Rename, finishExplain, applyActivity, activityTick, finishKill, ReportsConnected
  <2> QED
    BY <1>3, <2>1
<1>6. CASE openActivity
  <2>1. CASE UNCHANGED diff
    BY <1>1, <1>2, <1>6, <2>1, DiffAside DEF openActivity
  <2>2. CASE diff' # diff
    <3>1. diff' = NoDiff /\ UNCHANGED <<workers, secret>> /\ ("away" \notin risks' => ~diff.running)
      BY <1>6, <2>2 DEF openActivity, Risk
    <3> QED
      BY <1>1, <3>1, DiffDropped
  <2> QED
    BY <2>1, <2>2
<1>7. CASE closeDiff
  BY <1>1, <1>7, DiffDropped DEF closeDiff
<1>8. CASE GiveDiffSecret
  BY <1>1, <1>8, DiffAside DEF GiveDiffSecret
<1>9. CASE CompareThem \/ promptDiffSecrets
  <2>1. secret' \in BOOLEAN
    BY <1>2, <1>9 DEF CompareThem, promptDiffSecrets
  <2>2. startSchemaDiff \/ UNCHANGED <<diff, workers>>
    BY <1>9 DEF CompareThem, promptDiffSecrets, AskSecret
  <2> QED
    BY <1>1, <2>1, <2>2, DiffStarts, DiffAside
<1>10. CASE ReportWorkers \/ \E w \in workers : applyDiffProgress(w) \/ finishDiff(w)
  BY <1>10, WorkersKeep, ProgressKeeps, FinishKeeps DEF ReportWorkers
<1> QED
  BY <1>4, <1>5, <1>6, <1>7, <1>8, <1>9, <1>10 DEF ReportsNext, ReportKeys, ReportMessages

\* Every step keeps the part of the connection, the modal and the kills.
LEMMA ShellKeeps ==
  ASSUME ReportsInv, [ReportsNext]_reportsVars
  PROVE  ShellInv'
<1> USE DEF ReportsInv
<1>0. MaxAsks \in Nat /\ asks \in 0 .. MaxAsks
  BY ReportsAssumption DEF CountInv
<1>1. "rename" \notin risks' => "rename" \notin risks
  BY StepGrows DEF Grows
<1>2. dialog \in DialogType /\ NoModal \in DialogType /\ NoModal.kind # "kill"
  BY DEF ShellInv, NoModal, DialogType
<1>3. \A k \in {"info", "analyze", "diff", "diffSecret"} : Modal(k) \in DialogType /\ Modal(k).kind # "kill"
  BY DEF Modal, NoModal, DialogType
<1>4. ASSUME UNCHANGED <<nameOf, kills>>, server' \in Servers \cup {None}, dialog' \in DialogType,
             dialog' = dialog \/ dialog'.kind # "kill"
      PROVE  ShellInv'
  BY <1>1, <1>4 DEF ShellInv
<1>5. ASSUME UNCHANGED <<conns, kills, dialog>> PROVE ShellInv'
  BY <1>4, <1>5 DEF conns, ShellInv
<1>6. ASSUME UNCHANGED <<conns, kills>>, dialog' \in DialogType, dialog'.kind # "kill" PROVE ShellInv'
  BY <1>4, <1>6 DEF conns, ShellInv
<1>7. CASE \/ explainQuery \/ closePlan \/ startQuery \/ cancelQuery
           \/ openActivity \/ refreshActivity \/ toggleActivityAuto \/ CloseActivity
           \/ closeDiff \/ finishQuery \/ UNCHANGED reportsVars
  <2>1. UNCHANGED <<conns, kills, dialog>>
    BY <1>7 DEF explainQuery, closePlan, startQuery, cancelQuery, openActivity, refreshActivity,
       toggleActivityAuto,
       CloseActivity, closeDiff, finishQuery, reportsVars, sessions
  <2> QED
    BY <1>5, <2>1
<1>8. CASE \/ ReportWorkers \/ (\E w \in workers : applyDiffProgress(w) \/ finishDiff(w))
           \/ (\E r \in explains : finishExplain(r)) \/ (\E r \in reads : applyActivity(r))
           \/ \E g \in 0 .. MaxGen : activityTick(g)
  <2>1. UNCHANGED <<conns, kills, dialog>>
    BY <1>8 DEF ReportWorkers, DiffReports, DiffHands, DiffEnds, DiffFinishes, ReportsAside, applyDiffProgress,
       finishDiff, finishExplain, applyActivity, activityTick, sessions
  <2> QED
    BY <1>5, <2>1
<1>9. CASE explainAnalyzeQuery \/ ConfirmAnalyze \/ openSchemaDiff \/ GiveDiffSecret \/ DismissReport
           \/ ReportsConnectFailed
  <2>1. UNCHANGED <<conns, kills>> /\ dialog' \in {Modal("info"), Modal("analyze"), Modal("diff"), NoModal}
    BY <1>9 DEF explainAnalyzeQuery, ConfirmAnalyze, openSchemaDiff, GiveDiffSecret, DismissReport,
       ReportsConnectFailed, sessions
  <2> QED
    BY <1>2, <1>3, <1>6, <2>1
<1>10. CASE CompareThem \/ promptDiffSecrets
  <2>1. UNCHANGED <<conns, kills>> /\ dialog' \in {dialog, Modal("diffSecret"), NoModal}
    BY <1>10 DEF CompareThem, promptDiffSecrets, AskSecret, startSchemaDiff, sessions
  <2> QED
    BY <1>2, <1>3, <1>5, <1>6, <2>1
<1>11. CASE ReportsDisconnect \/ \E s \in Servers : ReportsConnected(s)
  <2>1. UNCHANGED <<nameOf, kills, dialog>> /\ server' \in Servers \cup {None}
    BY <1>11 DEF ReportsDisconnect, ReportsConnected
  <2> QED
    BY <1>2, <1>4, <2>1
<1>12. CASE killSelectedProcess
  <2>1. /\ UNCHANGED <<conns, kills, risks>> /\ view.of # None
        /\ dialog' = [kind |-> "kill", on |-> server, listed |-> view.of]
    BY <1>12 DEF killSelectedProcess, sessions
  <2>2. view # NoView
    BY <2>1 DEF NoView
  <2>3. server \in Servers /\ view.of \in Servers
    BY <2>1, <2>2 DEF ViewInv, ViewType, ShellInv
  <2>4. dialog' \in DialogType /\ dialog'.on = server /\ dialog'.listed = view.of
    BY <2>1, <2>3 DEF DialogType
  <2>5. "rename" \notin risks => view.of = server
    BY <2>1 DEF ViewInv
  <2> QED
    BY <1>1, <2>1, <2>3, <2>4, <2>5 DEF ShellInv, conns
<1>13. CASE ConfirmKill
  <2> DEFINE new == [n |-> asks + 1, on |-> dialog.on, listed |-> dialog.listed, conn |-> nameOf[dialog.on]]
  <2>1. /\ UNCHANGED <<conns, risks>> /\ dialog.kind = "kill" /\ dialog' = NoModal
        /\ asks' = asks + 1 /\ asks < MaxAsks /\ kills' = kills \cup {new}
    BY <1>13 DEF ConfirmKill, AskOther, AskServer
  <2>2. asks + 1 \in 1 .. MaxAsks
    BY <1>0, <2>1
  <2>3. dialog.on \in Servers /\ dialog.listed \in Servers /\ nameOf[dialog.on] \in Names
    BY <2>1 DEF ShellInv
  <2>4. new \in KillType /\ new.on = dialog.on /\ new.listed = dialog.listed
    BY <2>2, <2>3 DEF KillType
  <2> HIDE DEF new
  <2>5. kills' \subseteq KillType
    BY <2>1, <2>4 DEF ShellInv
  <2>6. "rename" \notin risks => \A k \in kills' : k.on = k.listed
    BY <2>1, <2>4 DEF ShellInv
  <2> QED
    BY <1>2, <2>1, <2>5, <2>6 DEF ShellInv, conns
<1>14. CASE \E k \in kills : finishKill(k)
  <2>1. PICK k \in kills : kills' = kills \ {k} /\ UNCHANGED <<conns, dialog, risks>>
    BY <1>14 DEF finishKill
  <2> QED
    BY <2>1 DEF ShellInv, conns
<1>15. CASE \E n \in Names : Rename(n)
  <2>1. PICK n \in Names : Rename(n)
    BY <1>15
  <2>2. nameOf' \in [Servers -> Names] /\ "rename" \in risks' /\ UNCHANGED <<server, dialog, kills>>
    BY <2>1 DEF Rename, ShellInv, sessions
  <2> QED
    BY <2>2 DEF ShellInv
<1> QED
  BY <1>7, <1>8, <1>9, <1>10, <1>11, <1>12, <1>13, <1>14, <1>15 DEF ReportsNext, ReportKeys, ReportMessages

-----------------------------------------------------------------------------
(* The invariant, and what follows from it.                                *)

\* Nothing is open and nothing is asked at the start.
LEMMA InitReports == ReportsInit => ReportsInv
<1> SUFFICES ASSUME ReportsInit PROVE ReportsInv
  OBVIOUS
<1>1. MaxAsks \in Nat /\ 0 \in 0 .. MaxAsks /\ 0 \in 0 .. MaxGen
  BY ReportsAssumption DEF MaxGen
<1>2. CountInv
  BY <1>1 DEF ReportsInit, CountInv
<1>3. PlanInv
  <2>1. NoPlan \in PlanType /\ NoPlan.id = 0 /\ NoPlan.req = 0 /\ NoPlan.shows = 0 /\ ~NoPlan.running
    BY <1>1 DEF NoPlan, PlanType
  <2>2. plan = NoPlan /\ explains = {} /\ query = FALSE /\ ctrlC = FALSE /\ asks = 0
    BY DEF ReportsInit
  <2>3. ~Analyzing
    BY <2>1, <2>2 DEF Analyzing
  <2>4. query \in BOOLEAN /\ ctrlC \in BOOLEAN /\ (ctrlC <=> (query \/ Analyzing)) /\ ~query
    BY <2>2, <2>3
  <2>5. plan.id <= asks /\ plan.req <= asks
    BY <2>1, <2>2
  <2> QED
    BY <2>1, <2>2, <2>4, <2>5 DEF PlanInv
<1>4. ShellInv
  BY <1>1 DEF ReportsInit, ShellInv, NoModal, DialogType, Names
<1>5. ViewInv
  <2>1. NoView \in ViewType /\ NoView.gen = 0 /\ NoView.id = 0 /\ NoView.of = None /\ ~NoView.loading /\ ~NoView.auto
    BY <1>1 DEF NoView, ViewType
  <2>2. IsFiniteSet({}) /\ Cardinality({}) = 0
    BY FS_EmptySet
  <2>3. Ticks(NoView) = 0
    BY <2>1 DEF Ticks
  <2> QED
    BY <1>1, <2>1, <2>2, <2>3 DEF ReportsInit, ViewInv
<1>6. DiffInv
  <2>1. NoDiff \in DiffType /\ NoDiff.id = 0 /\ NoDiff.req = 0 /\ NoDiff.shows = 0
    BY <1>1 DEF NoDiff, DiffType
  <2>2. diff = NoDiff /\ workers = {} /\ secret = FALSE /\ asks = 0
    BY DEF ReportsInit
  <2>3. secret \in BOOLEAN
    BY <2>2
  <2>4. diff.id <= asks /\ diff.req <= asks
    BY <2>1, <2>2
  <2> QED
    BY <2>1, <2>2, <2>3, <2>4 DEF DiffInv
<1> QED
  BY <1>2, <1>3, <1>4, <1>5, <1>6 DEF ReportsInv

\* The invariant of the reports: every request that is waited for is in
\* flight and is the only one its answer can be taken for, a schedule has one
\* tick, and a worker one reader.
THEOREM ReportsInvariant == ReportsSpec => []ReportsInv
<1>1. ReportsInv /\ [ReportsNext]_reportsVars => ReportsInv'
  <2> SUFFICES ASSUME ReportsInv, [ReportsNext]_reportsVars PROVE ReportsInv'
    OBVIOUS
  <2>1. CountInv'
    BY StepGrows DEF ReportsInv, Grows, CountInv
  <2> QED
    BY <2>1, PlanKeeps, ShellKeeps, ViewKeeps, DiffKeeps DEF ReportsInv
<1> QED
  BY <1>1, InitReports, PTL DEF ReportsSpec

\* A statement that runs can be seen and stopped: ctrl+c cancels exactly
\* while one does, and an analyzed one that was not told to stop is on screen.
THEOREM StatementsStoppable == ReportsSpec => []Stoppable
<1>1. ReportsInv => Stoppable
  <2> SUFFICES ASSUME ReportsInv PROVE Stoppable
    OBVIOUS
  <2>1. query \in BOOLEAN /\ ctrlC \in BOOLEAN /\ plan.running \in BOOLEAN /\ plan.analyzed \in BOOLEAN
    BY DEF ReportsInv, PlanInv, PlanType
  <2>2. "restart" \notin risks => (ctrlC <=> (query \/ Analyzing))
    BY DEF ReportsInv, PlanInv
  <2>3. "restart" \notin risks => ctrlC = (query \/ Analyzing)
    BY <2>1, <2>2 DEF Analyzing
  <2> QED
    BY <2>3 DEF ReportsInv, PlanInv, Stoppable
<1> QED
  BY <1>1, ReportsInvariant, PTL

\* A report shows what was asked for when it was opened, and a session is
\* killed on the server that listed it.
THEOREM AnsweredAsAsked == ReportsSpec => []AnswersAsAsked
<1>1. ReportsInv => AnswersAsAsked
  <2> SUFFICES ASSUME ReportsInv PROVE AnswersAsAsked
    OBVIOUS
  <2>1. ReportsTypeOK
    BY DEF ReportsInv, CountInv, PlanInv, ShellInv, ViewInv, DiffInv, PlanType, ExplainType, DialogType,
       ViewType,
       ReadType, KillType, DiffType, WorkerType, ReportsTypeOK
  <2>2. OfItsRequest
    BY DEF ReportsInv, PlanInv, DiffInv, OfItsRequest
  <2>3. KillsWhereListed
    BY DEF ReportsInv, ShellInv, KillsWhereListed
  <2> QED
    BY <2>1, <2>2, <2>3 DEF AnswersAsAsked
<1> QED
  BY <1>1, ReportsInvariant, PTL

\* A report that waits has an answer under way that will be taken, and one
\* that refreshes itself does so at one rate.
THEOREM ReportsRefreshed == ReportsSpec => []Refreshed
<1>1. ReportsInv => Refreshed
  <2> SUFFICES ASSUME ReportsInv PROVE Refreshed
    OBVIOUS
  <2>1. "away" \notin risks => \A w \in workers :
          w.at # "gone" => /\ diff.running /\ diff.req = w.n
                           /\ w.readers + w.posted = IF w.at = "sent" THEN 0 ELSE 1
    BY DEF ReportsInv, DiffInv
  <2>2. Awaited
    BY <2>1 DEF ReportsInv, PlanInv, ViewInv, Awaited
  <2>3. OneBeat
    BY DEF ReportsInv, ViewInv, Ticks, OneBeat
  <2> QED
    BY <2>2, <2>3 DEF Refreshed
<1> QED
  BY <1>1, ReportsInvariant, PTL
=============================================================================
