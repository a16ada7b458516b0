------------------------------ MODULE CsvImport ------------------------------
(***************************************************************************)
(* The import of a CSV file (ui/importcsv.go, csvimport/csvimport.go,       *)
(* db/import.go): a form shows what is guessed from the head of the file    *)
(* and previews it; a worker then reads the file again and inserts its rows *)
(* in one transaction. By then the file may be another one, and so may the  *)
(* table of that name; the worker is cancelled at any moment.               *)
(*                                                                         *)
(* A file is its separator and its records, a record the sequence of its    *)
(* fields; under another delimiter a record is one field. A mapping is      *)
(* typed as one entry per field: names are without commas. A file that is   *)
(* written anew replaces the one that is open.                              *)
(***************************************************************************)
EXTENDS Integers, Sequences, FiniteSets

CONSTANTS
  Tables,      \* what the table may be: its columns in order, with a name and a type
  Files,       \* what may lie at the path
  Entries,     \* the mappings that are typed
  Markers,     \* the NULL markers that are typed
  Trim,        \* a text without the space around it,
  Fold,        \* and in lower case
  ReadsAs,     \* the classes of values a trimmed text reads as
  Class,       \* the class of a type
  Sniffed,     \* how many records are sniffed: 20 in the code
  Previewed,   \* how many are previewed: 5 in the code
  SampleSize,  \* how many the head of a file holds: as fit into 64 KB
  MaxImports, MaxEvents \* bounds on the forms opened, and on the edits and what happens meanwhile

Fields == DOMAIN Trim
Broken == <<>>

ASSUME ImportAssumption ==
  /\ Trim \in [Fields -> Fields] /\ {"", "-", "joined"} \subseteq Fields /\ Markers \subseteq Fields
  /\ SampleSize \in Nat \ {0} /\ Sniffed \in Nat \ {0} /\ Previewed \in Nat
  /\ \A t \in Tables : /\ t \in Seq([name : Fields, type : DOMAIN Class])
                       /\ \A i, j \in DOMAIN t : t[i].name = t[j].name => i = j
  /\ \A f \in Files : f.recs \in Seq(Seq(Fields))
  /\ \A e \in Entries : e \in Seq(Fields)

VARIABLES
  file,      \* what lies at the path
  target,    \* the table: its columns, and the rows imported
  settings,  \* the form over the preview
  import,    \* the worker, and what was said of it
  events, opens

importVars == <<file, target, settings, import, events, opens>>

Delimiters == <<",", ";">>
Skip == 0
Null == <<>>
Closed == [open |-> FALSE]
NoImport == [at |-> "none", said |-> "nothing"]
FirstOf(S) == CHOOSE i \in S : \A j \in S : i <= j

ImportInit ==
  /\ file \in Files
  /\ \E t \in Tables : target = [cols |-> t, rows |-> <<>>]
  /\ settings = Closed /\ import = NoImport
  /\ events = 0 /\ opens = 0

-----------------------------------------------------------------------------
(* Reading. What does not read as CSV is a broken record.                  *)

newReader(f, delim) == [i \in DOMAIN f.recs |->
  IF delim = f.sep \/ Len(f.recs[i]) < 2 THEN f.recs[i] ELSE <<"joined">>]

\* How many records come before the first broken one.
Whole(recs) ==
  LET broken == {i \in DOMAIN recs : recs[i] = Broken}
  IN IF broken = {} THEN Len(recs) ELSE FirstOf(broken) - 1

\* At most max records. That the sample is cut off is noticed only when the
\* record it ends in does not parse.
sampleRecords(recs, max, truncated) ==
  LET n == Whole(recs)
  IN [recs |-> SubSeq(recs, 1, IF n < max THEN n ELSE max),
      err |-> n < Len(recs) /\ n <= max /\ ~(truncated /\ n > 0)]

columnIndex(cols, name) ==
  LET n == Trim[name]
      same == {i \in DOMAIN cols : cols[i].name = n}
      alike == {i \in DOMAIN cols : Fold[cols[i].name] = Fold[n]}
  IN IF same # {} THEN FirstOf(same) ELSE IF alike # {} THEN FirstOf(alike) ELSE Skip

isNumber(f) == "float" \in ReadsAs[Trim[f]]

looksLikeHeader(recs, cols) ==
  /\ recs # <<>>
  /\ \/ \E i \in DOMAIN recs[1] : columnIndex(cols, recs[1][i]) # Skip
     \/ /\ Len(recs) > 1
        /\ \E i \in DOMAIN recs[1] \cap DOMAIN recs[2] : ~isNumber(recs[1][i]) /\ isNumber(recs[2][i])

\* The delimiter under which every record has the same fields, and most.
Sniff(sample, truncated, cols) ==
  LET read(d) == sampleRecords(newReader(sample, d), Sniffed, truncated)
      width(d) == IF read(d).err \/ read(d).recs = <<>> THEN 0
                  ELSE LET w == Len(read(d).recs[1])
                       IN IF w > 1 /\ \A i \in DOMAIN read(d).recs : Len(read(d).recs[i]) = w THEN w ELSE 0
      most == {i \in DOMAIN Delimiters : \A j \in DOMAIN Delimiters : width(Delimiters[j]) <= width(Delimiters[i])}
      d == Delimiters[FirstOf(most)]
  IN [delim |-> d, header |-> looksLikeHeader(sampleRecords(newReader(sample, d), 2, truncated).recs, cols)]

\* A name leads to its column, once; without a header the positions do.
DefaultMapping(first, header, cols) ==
  [i \in DOMAIN first |->
     IF header
     THEN LET j == columnIndex(cols, first[i])
          IN IF \E k \in 1 .. i - 1 : columnIndex(cols, first[k]) = j THEN Skip ELSE j
     ELSE IF i \in DOMAIN cols THEN i ELSE Skip]
FormatMapping(mapping, cols) == [i \in DOMAIN mapping |-> IF mapping[i] = Skip THEN "-" ELSE cols[mapping[i]].name]

ParseMapping(entries, width, cols) ==
  [i \in 1 .. width |-> IF i \notin DOMAIN entries \/ Trim[entries[i]] \in {"", "-"} THEN Skip
                        ELSE columnIndex(cols, entries[i])]
Mapped(mapping) == {i \in DOMAIN mapping : mapping[i] # Skip}
MappingFails(entries, mapping, width, cols) ==
  \/ Len(entries) > width \/ Mapped(mapping) = {}
  \/ \E i \in DOMAIN entries : Trim[entries[i]] \notin {"", "-"} /\ columnIndex(cols, entries[i]) = Skip
  \/ \E i, j \in Mapped(mapping) : i # j /\ mapping[i] = mapping[j]

-----------------------------------------------------------------------------
(* A plan, and the row it makes of a record.                               *)

\* A text is bound as it is, anything else as what it reads as.
Accepts(class, f) == class = "text" \/ class \in ReadsAs[Trim[f]]
ConvertText(class, f) == IF class = "text" THEN f ELSE <<class, Trim[f]>>

ClassOf(p, i) == Class[p.cols[p.mapping[i]].type]

\* Plausible bug: only a record that is too short has shifted.
RowFailsWhenShort(p, rec) ==
  \/ Len(rec) < Len(p.mapping)
  \/ \E i \in Mapped(p.mapping) : rec[i] # p.marker /\ ~Accepts(ClassOf(p, i), rec[i])

RowFails(p, rec) ==
  \/ Len(rec) # Len(p.mapping)
  \/ \E i \in Mapped(p.mapping) : rec[i] # p.marker /\ ~Accepts(ClassOf(p, i), rec[i])

Targets(p) == {p.cols[p.mapping[i]].name : i \in Mapped(p.mapping)}
Row(p, rec) ==
  [c \in Targets(p) |->
     LET i == CHOOSE i \in Mapped(p.mapping) : p.cols[p.mapping[i]].name = c
     IN IF rec[i] = p.marker THEN Null ELSE ConvertText(ClassOf(p, i), rec[i])]

\* The records that are data.
HeaderRows(p) == IF p.header THEN 1 ELSE 0
Data(recs, p) == SubSeq(recs, HeaderRows(p) + 1, Len(recs))

-----------------------------------------------------------------------------
(* The form.                                                               *)

\* The head of the file that was read for it.
Truncated(s) == Len(s.of.recs) > SampleSize
Sample(s) == [sep |-> s.of.sep,
              recs |-> IF Truncated(s) THEN Append(SubSeq(s.of.recs, 1, SampleSize - 1), s.cut) ELSE s.of.recs]
FirstRecord(s, delim) == newReader(Sample(s), delim)[1]
Cuts(f) ==
  {Broken} \cup (IF Len(f.recs) <= SampleSize THEN {}
                ELSE LET rec == f.recs[SampleSize] IN IF Len(rec) < 2 THEN {rec} ELSE {SubSeq(rec, 1, Len(rec) - 1)})

openImportSettings ==
  /\ opens < MaxImports /\ opens' = opens + 1
  /\ file.recs # <<>>
  /\ \E cut \in Cuts(file) :
       LET s == [of |-> file, cut |-> cut, cols |-> target.cols]
           guess == Sniff(Sample(s), Truncated(s), target.cols)
           first == FirstRecord(s, guess.delim)
       IN IF first = Broken THEN UNCHANGED settings
          ELSE settings' = [open |-> TRUE, of |-> file, cut |-> cut, cols |-> target.cols,
                            delim |-> guess.delim, header |-> guess.header,
                            entries |-> FormatMapping(DefaultMapping(first, guess.header, target.cols), target.cols),
                            marker |-> ""]
  /\ UNCHANGED <<file, target, import, events>>

editSettings ==
  /\ settings.open /\ events < MaxEvents /\ events' = events + 1
  /\ \/ \E d \in {Delimiters[i] : i \in DOMAIN Delimiters} : settings' = [settings EXCEPT !.delim = d]
     \/ settings' = [settings EXCEPT !.header = ~@]
     \/ \E e \in Entries : settings' = [settings EXCEPT !.entries = e]
     \/ \E f \in Markers : settings' = [settings EXCEPT !.marker = f]
  /\ settings' # settings
  /\ UNCHANGED <<file, target, import, opens>>

Esc == settings.open /\ settings' = Closed /\ UNCHANGED <<file, target, import, events, opens>>

\* What the form previews: how many rows, the cut one among them.
Preview(s, p) ==
  LET recs == newReader(Sample(s), p.delim)
      n == Whole(recs)
      m == IF n <= HeaderRows(p) THEN 0 ELSE n - HeaderRows(p)
  IN IF m < Previewed THEN m ELSE Previewed

\* Enter. Another import may be running, or the file does not open: nothing starts.
runImport ==
  /\ settings.open
  /\ LET first == FirstRecord(settings, settings.delim)
         mapping == ParseMapping(settings.entries, Len(first), settings.cols)
         p == [delim |-> settings.delim, header |-> settings.header, marker |-> settings.marker,
               mapping |-> mapping, cols |-> settings.cols]
     IN /\ first # Broken /\ ~MappingFails(settings.entries, mapping, Len(first), settings.cols)
        /\ \/ UNCHANGED import
           \/ /\ import.at = "none"
              /\ import' = [at |-> "open", said |-> "nothing", p |-> p, of |-> file, seen |-> settings, read |-> 0,
                            rows |-> <<>>, before |-> target.rows, kept |-> FALSE, cancelled |-> FALSE, lost |-> FALSE]
  /\ settings' = Closed
  /\ UNCHANGED <<file, target, events, opens>>

-----------------------------------------------------------------------------
(* The worker.                                                             *)

\* An error rolls back.
Fails == import' = [import EXCEPT !.at = "done"] /\ UNCHANGED target

Records == newReader(import.of, import.p.delim)
Steps == UNCHANGED <<file, settings, events, opens>>

\* The file is read anew: its first record must be as wide as the mapping.
\* Then BEGIN and PREPARE, which fail when cancelled, when a column is gone, or
\* for reasons of the server.
BeginImport ==
  /\ import.at = "open" /\ Steps
  /\ \/ Fails
     \/ /\ Records # <<>> /\ Records[1] # Broken /\ Len(Records[1]) = Len(import.p.mapping)
        /\ ~import.cancelled /\ Targets(import.p) \subseteq {target.cols[i].name : i \in DOMAIN target.cols}
        /\ import' = [import EXCEPT !.at = "insert", !.read = HeaderRows(import.p)] /\ UNCHANGED target

\* One turn of the loop: the context, the next record, its row, the INSERT.
NextRow ==
  /\ import.at = "insert" /\ Steps
  /\ LET i == import.read + 1
     IN \/ import.cancelled /\ Fails
        \/ ~import.cancelled /\ i > Len(Records) /\ import' = [import EXCEPT !.at = "commit"] /\ UNCHANGED target
        \/ /\ ~import.cancelled /\ i <= Len(Records)
           /\ \/ Fails
              \/ /\ Records[i] # Broken /\ ~RowFails(import.p, Records[i])
                 /\ import' = [import EXCEPT !.read = i, !.rows = Append(@, Row(import.p, Records[i]))] /\ UNCHANGED target

\* COMMIT. The server may have done it when its answer is lost.
CommitRows ==
  /\ import.at = "commit" /\ Steps
  /\ \/ Fails
     \/ /\ ~import.cancelled
        /\ \E lost \in BOOLEAN : import' = [import EXCEPT !.at = "done", !.kept = ~lost, !.lost = lost]
        /\ target' = [target EXCEPT !.rows = @ \o import.rows]

\* The final message: what is said of it, and the next import may start.
finishImport ==
  /\ import.at = "done" /\ Steps /\ UNCHANGED target
  /\ import' = [import EXCEPT !.at = "none", !.said = IF import.kept THEN "committed" ELSE "rolled back",
                            !.read = 0, !.rows = <<>>, !.cancelled = FALSE]

cancelImport ==
  /\ import.at # "none" /\ ~import.cancelled
  /\ import' = [import EXCEPT !.cancelled = TRUE]
  /\ UNCHANGED <<file, target, settings, events, opens>>

-----------------------------------------------------------------------------
(* What others do: another file lies at the path, and another table has the  *)
(* name: altered, or that of the connection a dial in progress ends with.   *)

Meanwhile == events < MaxEvents /\ events' = events + 1 /\ UNCHANGED <<settings, import, opens>>
Rewrite == Meanwhile /\ (\E f \in Files \ {file} : file' = f) /\ UNCHANGED target
Alter == Meanwhile /\ (\E t \in Tables \ {target.cols} : target' = [target EXCEPT !.cols = t]) /\ UNCHANGED file

ImportNext ==
  \/ openImportSettings \/ editSettings \/ Esc \/ runImport
  \/ BeginImport \/ NextRow \/ CommitRows \/ finishImport \/ cancelImport
  \/ Rewrite \/ Alter

ImportSpec == ImportInit /\ [][ImportNext]_importVars

-----------------------------------------------------------------------------
Added == SubSeq(target.rows, Len(import.before) + 1, Len(target.rows))

(* A record became the row that is in the table.                            *)
Landed(p, rec, row) ==
  /\ Len(rec) = Len(p.mapping)
  /\ DOMAIN row = Targets(p) /\ Targets(p) # {}
  /\ \A i \in Mapped(p.mapping) :
       LET class == ClassOf(p, i)
       IN row[p.cols[p.mapping[i]].name] = (IF rec[i] = p.marker THEN Null ELSE ConvertText(class, rec[i]))
          /\ (rec[i] = p.marker \/ Accepts(class, rec[i]))

(* An import is all or nothing, and says which unless the answer to COMMIT *)
(* was lost: every data record of the file it read is a row, each field in *)
(* the one column it is mapped to, converted or NULL (ImportRows, Plan.Row, *)
(* ParseMapping). Where the file is still the one that was previewed, its  *)
(* previewed rows, but for a cut one, are those rows.                      *)
ImportTruth ==
  import.said # "nothing" =>
    /\ \A i \in DOMAIN import.before : i \in DOMAIN target.rows /\ target.rows[i] = import.before[i]
    /\ import.said = "rolled back" /\ ~import.lost => target.rows = import.before
    /\ import.said = "committed" =>
         LET data == Data(Records, import.p)
             m == Preview(import.seen, import.p)
         IN /\ Len(Added) = Len(data) /\ \A i \in DOMAIN data : Landed(import.p, data[i], Added[i])
            /\ import.seen.of = import.of =>
                 \A i \in 1 .. m :
                   \/ Truncated(import.seen) /\ i + HeaderRows(import.p) = SampleSize
                   \/ i \in DOMAIN data /\ data[i] = newReader(Sample(import.seen), import.p.delim)[i + HeaderRows(import.p)]
=============================================================================
