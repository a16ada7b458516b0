----------------------------- MODULE Statements -----------------------------
(***************************************************************************)
(* The text of the query editor as the program reads it: the splitter       *)
(* (db/statements.go), the tokenizer (sqlhl/sqlhl.go), and what is decided   *)
(* from them: read or write, a write without a WHERE, the placeholders to   *)
(* ask for, and whether a result is one table's (db/readonly.go,            *)
(* dml_guard.go, placeholders.go, singletable.go).                          *)
(* A script is a sequence of lexical units: a word or a mark that the        *)
(* scanners take in one bite; dq, bt and bs are the double quote, the        *)
(* backtick and the backslash. It is typed unit by unit.                    *)
(***************************************************************************)
EXTENDS Integers, Sequences, FiniteSets, SequencesExt

CONSTANTS Cases \* what is typed: [engine, start, units, len]

VARIABLES case, script

textVars == <<case, script>>

dialect == case.engine
mysqlish(e) == e = "mysql"

Spaces == {" ", "\n"}
readKeywords == {"SELECT", "WITH", "EXPLAIN", "PRAGMA", "VACUUM"}
writeInCTE == {"INSERT", "DELETE"}
keywords == readKeywords \cup writeInCTE \cup {"UPDATE", "WHERE", "FROM", "JOIN", "AS", "ANALYZE", "INTO", "DISTINCT"}
Idents == {"w"}
NamedSlots == {":a", ":b"}

-----------------------------------------------------------------------------
(* The splitter. Its mode before each unit says what the unit is part of;   *)
(* "code" is outside of literals and comments.                              *)

\* The constructs, from the unit that opens one to the mode after one more.
skipToEOL(c) == IF c = "\n" THEN "code" ELSE "line"
skipBlockComment(c) == IF c = "*/" THEN "code" ELSE "block"
\* A doubled quote closes the run and opens it again.
skipQuoted(quote, backslash, escaped, c) ==
  CASE escaped -> quote
    [] ~escaped /\ backslash /\ c = "bs" -> "esc"
    [] ~escaped /\ c = quote -> "code"
    [] OTHER -> quote
skipDollarQuoted(tag, c) == IF c = tag THEN "code" ELSE tag

Opens(e, c) ==
  CASE c = "--" \/ (mysqlish(e) /\ c = "#") -> "line"
    [] c = "/*" -> "block"
    [] c \in {"'", "dq"} \/ (mysqlish(e) /\ c = "bt") -> c
    [] e = "postgres" /\ c \in {"$$", "$t$"} -> c
    [] OTHER -> "code"

\* Plausible bug: a line comment ends with the statement it is in.
SplitStepBareComment(e, mode, c) ==
  CASE mode = "code" -> Opens(e, c)
    [] mode = "line" -> IF c = ";" THEN "code" ELSE skipToEOL(c)
    [] OTHER -> "code"

SplitStep(e, mode, c) ==
  CASE mode = "code" -> Opens(e, c)
    [] mode = "line" -> skipToEOL(c)
    [] mode = "block" -> skipBlockComment(c)
    [] mode \in {"'", "esc"} -> skipQuoted("'", mysqlish(e), mode = "esc", c)
    [] mode \in {"dq", "bt"} -> skipQuoted(mode, FALSE, FALSE, c)
    [] OTHER -> skipDollarQuoted(mode, c)

SplitModes(e, s) ==
  LET f[i \in 1 .. Len(s) + 1] == IF i = 1 THEN "code" ELSE SplitStep(e, f[i - 1], s[i - 1])
  IN f

\* The statements as [Start, End] positions, trimmed, the empty ones dropped.
Least(I) == CHOOSE i \in I : \A j \in I : i <= j
Greatest(I) == CHOOSE i \in I : \A j \in I : i >= j
Separators(s, mode) == {i \in DOMAIN s : s[i] = ";" /\ mode[i] = "code"}
InkFrom(s, lo, seps) == {i \in lo .. Least({j \in seps \cup {Len(s) + 1} : j >= lo}) - 1 : s[i] \notin Spaces}
Trimmed(ink) == [Start |-> Least(ink), End |-> Greatest(ink)]
SpansBetween(s, seps) ==
  SetToSortSeq({Trimmed(ink) : ink \in {InkFrom(s, lo, seps) : lo \in {i + 1 : i \in seps} \cup {1}} \ {{}}},
               LAMBDA a, b : a.Start < b.Start)

SplitStatementSpans(e, s) == SpansBetween(s, Separators(s, SplitModes(e, s)))

CutAt(s, spans) == [k \in DOMAIN spans |-> SubSeq(s, spans[k].Start, spans[k].End)]
SplitStatements(e, s) == CutAt(s, SplitStatementSpans(e, s))

\* The statement of a caret, or the one it just left; an offset is the
\* number of units before the caret.
StatementAt(spans, offset) ==
  LET Inside == {k \in DOMAIN spans : spans[k].Start - 1 <= offset /\ offset <= spans[k].End}
      Before == {k \in DOMAIN spans : spans[k].Start - 1 <= offset}
  IN IF Inside # {} THEN Least(Inside) ELSE Greatest(Before \cup {1})

-----------------------------------------------------------------------------
(* The tokenizer: the kind of each unit. Its comments may nest, and its     *)
(* dialects differ from the splitter's in what they quote.                  *)

nests(e) == e \in {"postgres", "duckdb"}
dollars(e) == e \in {"postgres", "duckdb"}

blockCommentEnd(e, depth, c) ==
  CASE c = "*/" -> depth - 1 [] c = "/*" /\ nests(e) -> depth + 1 [] OTHER -> depth

\* A mode is the unit that opened it and the depth of a comment, or whether
\* the last unit was an escape.
quotedEnd(e, mode, c) ==
  CASE mode.n = 1 -> [mode EXCEPT !.n = 0]
    [] mode.n = 0 /\ mysqlish(e) /\ mode.open # "bt" /\ c = "bs" -> [mode EXCEPT !.n = 1]
    [] mode.n = 0 /\ c = mode.open -> [open |-> "", n |-> 0]
    [] OTHER -> mode

Code == [open |-> "", n |-> 0]
TokStep(e, mode, c) ==
  CASE mode = Code /\ (c = "--" \/ (mysqlish(e) /\ c = "#")) -> [open |-> "--", n |-> 0]
    [] mode = Code /\ c = "/*" -> [open |-> "/*", n |-> 1]
    [] mode = Code /\ (c \in {"'", "dq", "bt"} \/ (dollars(e) /\ c \in {"$$", "$t$"})) -> [open |-> c, n |-> 0]
    [] mode.open = "--" /\ c = "\n" -> Code
    [] mode.open = "/*" ->
         LET d == blockCommentEnd(e, mode.n, c) IN IF d = 0 THEN Code ELSE [mode EXCEPT !.n = d]
    [] mode.open \in {"'", "dq", "bt"} -> quotedEnd(e, mode, c)
    [] mode.open \in {"$$", "$t$"} /\ c = mode.open -> Code
    [] OTHER -> mode

TokModes(e, s) ==
  LET f[i \in 1 .. Len(s) + 1] == IF i = 1 THEN Code ELSE TokStep(e, f[i - 1], s[i - 1])
  IN f

KindIn(e, open) ==
  CASE open \in {"--", "/*"} -> "Comment"
    [] open = "bt" \/ (open = "dq" /\ ~mysqlish(e)) -> "QuotedIdent"
    [] OTHER -> "String"

WordKind(c) == IF c \in keywords THEN "Keyword" ELSE "Ident"

KindAt(e, c, before, after) ==
  CASE before # Code -> IF before.open = "--" /\ c = "\n" THEN "Plain" ELSE KindIn(e, before.open)
    [] before = Code /\ after # Code -> KindIn(e, after.open)
    [] OTHER -> IF c \in Spaces THEN "Plain"
                ELSE IF c \in NamedSlots \cup {"?"} THEN "Placeholder"
                ELSE IF c \in keywords \cup Idents THEN WordKind(c)
                ELSE "Operator"

Kinds(e, s, mode) == [i \in DOMAIN s |-> KindAt(e, s[i], mode[i], mode[i + 1])]
Tokenize(e, s) == Kinds(e, s, TokModes(e, s))

\* The positions of the tokens that are neither space nor comment.
significantTokens(kind) == SelectSeq([i \in DOMAIN kind |-> i], LAMBDA i : kind[i] \notin {"Plain", "Comment"})

-----------------------------------------------------------------------------
(* Reading and writing.                                                    *)

IsWordToken(k) == k \in {"Keyword", "Ident"}
Reads(s, kind, sig) ==
  /\ sig # <<>> /\ s[sig[1]] \in readKeywords
  /\ LET Later == {sig[k] : k \in 2 .. Len(sig)}
     IN CASE s[sig[1]] = "WITH" -> \A i \in Later : ~(IsWordToken(kind[i]) /\ s[i] \in writeInCTE)
          [] s[sig[1]] = "VACUUM" -> Len(sig) >= 2 /\ IsWordToken(kind[sig[2]]) /\ s[sig[2]] = "INTO"
          [] s[sig[1]] = "PRAGMA" -> \A i \in Later : ~(kind[i] = "Operator" /\ s[i] = "=")
          [] OTHER -> TRUE
ClassifyStatementFor(s, kind) == IF Reads(s, kind, significantTokens(kind)) THEN "read" ELSE "write"

\* Explaining with ANALYZE runs what is explained.
Analyzes(s, sig) == Len(sig) >= 2 /\ s[sig[1]] = "EXPLAIN" /\ s[sig[2]] = "ANALYZE"
WritesAs(s, kind) == ClassifyStatementFor(s, kind) = "write" \/ Analyzes(s, significantTokens(kind))
IsWrite(e, s) == WritesAs(s, Tokenize(e, s))

WriteStatements(e, stmts) == SelectSeq(stmts, LAMBDA s : IsWrite(e, s))
ContainsWrite(e, s) == WriteStatements(e, SplitStatements(e, s)) # <<>>

\* The first unit after spaces and comments, whatever the engine calls one.
TrimLeadingComments(s) ==
  LET after(i, c) == Least({j \in i + 1 .. Len(s) : s[j] = c} \cup {Len(s)}) + 1
      f[k \in 1 .. Len(s) + 1] ==
        LET i == Len(s) + 2 - k
        IN IF i > Len(s) THEN i
           ELSE IF s[i] \in Spaces THEN f[k - 1]
           ELSE IF s[i] \in {"--", "#"} THEN f[Len(s) + 2 - after(i, "\n")]
           ELSE IF s[i] = "/*" THEN f[Len(s) + 2 - after(i, "*/")]
           ELSE i
  IN f[Len(s) + 1]
FirstKeyword(s) == LET i == TrimLeadingComments(s) IN IF i > Len(s) THEN "" ELSE s[i]

\* A WHERE counts outside of parentheses; a stray one does not go below none.
hasTopLevelGuard(s, kind) ==
  LET depth[i \in 0 .. Len(s)] ==
        IF i = 0 THEN 0
        ELSE IF kind[i] = "Operator" /\ s[i] = "(" THEN depth[i - 1] + 1
        ELSE IF kind[i] = "Operator" /\ s[i] = ")" /\ depth[i - 1] > 0 THEN depth[i - 1] - 1
        ELSE depth[i - 1]
  IN \E i \in DOMAIN s : kind[i] = "Keyword" /\ s[i] = "WHERE" /\ depth[i] = 0

FindUnguardedWrites(e, stmts) ==
  {k \in DOMAIN stmts : FirstKeyword(stmts[k]) \in {"DELETE", "UPDATE"} /\ ~hasTopLevelGuard(stmts[k], Tokenize(e, stmts[k]))}

-----------------------------------------------------------------------------
(* Placeholders.                                                           *)

promptName(kind) == SelectSeq([i \in DOMAIN kind |-> i], LAMBDA i : kind[i] = "Placeholder")

\* The positions to ask a value for: a name once, a ? each time.
ExtractPlaceholders(s, at) ==
  SelectSeq(at, LAMBDA i : s[i] = "?" \/ \A k \in DOMAIN at : at[k] < i => s[at[k]] # s[i])

\* The slot of the nth positional among all the prompts.
positionalIndex(s, phs, n) ==
  LET P == SelectSeq([k \in DOMAIN phs |-> k], LAMBDA k : s[phs[k]] = "?") IN P[n]

\* For each placeholder of the statement, the prompt whose value it gets.
BindPlaceholders(s, at, phs) ==
  LET nth(k) == Cardinality({j \in 1 .. k : s[at[j]] = "?"})
  IN [k \in DOMAIN at |->
       IF s[at[k]] = "?" THEN positionalIndex(s, phs, nth(k))
       ELSE CHOOSE p \in DOMAIN phs : s[phs[p]] = s[at[k]]]

-----------------------------------------------------------------------------
(* One table's result.                                                     *)

\* The third scanner: a literal is one token, comments are none.
Reopens(s, mode, i) == i > 1 /\ mode[i - 1] # "code" /\ s[i - 1] = s[i] /\ s[i] \in {"'", "dq", "bt"}
TokensIn(s, mode) ==
  LET at == SelectSeq([i \in DOMAIN s |-> i], LAMBDA i :
              mode[i] = "code" /\ s[i] \notin Spaces /\ mode[i + 1] \notin {"line", "block"} /\ ~Reopens(s, mode, i))
  IN [k \in DOMAIN at |-> s[at[k]]]
sqlTokens(e, s) == TokensIn(s, SplitModes(e, s))

isIdent(t) == t \in keywords \cup Idents \cup {"dq", "bt"}
followKeywords == {"WHERE", "JOIN"}
forbiddenAfterFrom == {"JOIN", ","}
tokAt(ts, i) == IF i \in DOMAIN ts THEN ts[i] ELSE ""

nesting(ts) == LET d[i \in 0 .. Len(ts)] ==
                     IF i = 0 THEN 0
                     ELSE d[i - 1] + (IF ts[i] = "(" THEN 1 ELSE IF ts[i] = ")" THEN -1 ELSE 0)
               IN d

\* The items between top-level commas are columns, plain or of a table.
SelectItem(item) == \/ Len(item) = 1 /\ isIdent(item[1])
                    \/ Len(item) = 3 /\ isIdent(item[1]) /\ item[2] = "." /\ isIdent(item[3])
ItemsBetween(ts, cuts) ==
  \A lo \in cuts : lo <= Len(ts) => SelectItem(SubSeq(ts, lo + 1, Least({c \in cuts : c > lo}) - 1))
CommasAt(ts, d) == {i \in DOMAIN ts : ts[i] = "," /\ d[i] = 0}
validSelectList(ts) == ItemsBetween(ts, CommasAt(ts, nesting(ts)) \cup {0, Len(ts) + 1})

\* Where a dotted name that starts at i ends.
readQualifiedName(ts, i) ==
  LET Ends == {j \in i + 1 .. Len(ts) + 1 : /\ (j - i) % 2 = 1
                                            /\ \A k \in i + 1 .. j - 1 : IF (k - i) % 2 = 1 THEN ts[k] = "." ELSE isIdent(ts[k])}
  IN Greatest(Ends)

AliasEnd(ts, named) ==
  IF tokAt(ts, named) = "AS" THEN named + (IF isIdent(tokAt(ts, named + 1)) THEN 2 ELSE 1)
  ELSE IF isIdent(tokAt(ts, named)) /\ tokAt(ts, named) \notin followKeywords THEN named + 1
  ELSE named
NoOther(tail, d) == \A i \in DOMAIN tail : tail[i] \in forbiddenAfterFrom => d[i] # 0
RestIsPlain(tail) == NoOther(tail, nesting(tail))
NamesOneTable(ts, from) ==
  /\ isIdent(tokAt(ts, from + 1))
  /\ RestIsPlain(SubSeq(ts, AliasEnd(ts, readQualifiedName(ts, from + 1)), Len(ts)))

TopFroms(ts, d) == {i \in DOMAIN ts : ts[i] = "FROM" /\ i > 1 /\ d[i] = 0}
SelectOfOne(ts, froms) ==
  /\ tokAt(ts, 1) = "SELECT" /\ tokAt(ts, 2) # "DISTINCT"
  /\ froms # {}
  /\ validSelectList(SubSeq(ts, 2, Least(froms) - 1))
  /\ NamesOneTable(ts, Least(froms))
SingleTableSelect(ts) == SelectOfOne(ts, TopFroms(ts, nesting(ts)))

-----------------------------------------------------------------------------
TextInit == case \in Cases /\ script = case.start

Type(c) ==
  /\ Len(script) < case.len
  /\ script' = Append(script, c) /\ UNCHANGED case

TextNext == \E c \in case.units : Type(c)
TextSpec == TextInit /\ [][TextNext]_textVars

-----------------------------------------------------------------------------
(* What lies between the statements is separators and space, a statement    *)
(* split again is itself, and the caret finds the one it is in.             *)
SplitIsWhole(spans, stmts) ==
  /\ \A i \in DOMAIN script :
       (\A k \in DOMAIN spans : i < spans[k].Start \/ i > spans[k].End) => script[i] \in Spaces \cup {";"}
  /\ \A k \in DOMAIN stmts : SplitStatements(dialect, stmts[k]) = <<stmts[k]>>
  /\ spans # <<>> => \A o \in 0 .. Len(script) :
       LET k == StatementAt(spans, o)
       IN /\ o + 1 >= spans[k].Start \/ k = 1
          /\ \A j \in DOMAIN spans : spans[j].Start <= o /\ o < spans[j].End => j = k

(* Where the two scanners quote alike, they find the same separators.       *)
ScannersAgree(mode, kind) ==
  dialect = "sqlite" => \A i \in DOMAIN script : script[i] = ";" => (mode[i] = "code" <=> kind[i] = "Operator")

\* No WHERE outside of parentheses, which close only what they opened.
BareWrite(s, kind, sig, d) ==
  /\ sig # <<>> /\ s[sig[1]] \in {"DELETE", "UPDATE"}
  /\ \A i \in DOMAIN s : d[i] >= 0 /\ (kind[i] = "Keyword" /\ s[i] = "WHERE" => d[i] > 0)
Bare(s, kind) ==
  BareWrite(s, kind, significantTokens(kind), nesting([i \in DOMAIN s |-> IF kind[i] = "Operator" THEN s[i] ELSE ""]))

(* A statement without a WHERE of its own asks before it runs, and it is    *)
(* one the run confirms as a write; a script is a write when one of its     *)
(* statements is, and a comment in front of it changes nothing.             *)
WritesAreAsked(stmts, asked, writes) ==
  /\ asked \subseteq writes
  /\ \A k \in DOMAIN stmts :
       /\ Bare(stmts[k], Tokenize(dialect, stmts[k])) => k \in asked
       /\ k \in writes <=> IsWrite(dialect, <<"/*", "DELETE", "*/">> \o stmts[k])
  /\ ContainsWrite(dialect, script) <=> writes # {}

(* Every placeholder gets the value of the prompt that was made for it.     *)
BoundAsAsked(s, at, phs) ==
  LET args == BindPlaceholders(s, at, phs)
  IN \A i \in DOMAIN at :
       /\ args[i] \in DOMAIN phs
       /\ IF s[at[i]] = "?" THEN phs[args[i]] = at[i] ELSE s[phs[args[i]]] = s[at[i]]
AskedFor(s, at) == BoundAsAsked(s, at, ExtractPlaceholders(s, at))

(* A result that is exported as one table's rows names no other table.      *)
OneTable(ts, d) ==
  LET Tops == {i \in DOMAIN ts : d[i] = 0}
  IN SingleTableSelect(ts)
       => \A i \in Tops, j \in Tops : i < j /\ ts[i] = "FROM" /\ ts[j] \in {",", "JOIN"} => ts[j - 1] \in {"FROM", "AS"}
ResultIsItsTable(ts) == OneTable(ts, nesting(ts))

ReadsAsWritten(spans, stmts) ==
  /\ SplitIsWhole(spans, stmts)
  /\ WritesAreAsked(stmts, FindUnguardedWrites(dialect, stmts), {k \in DOMAIN stmts : IsWrite(dialect, stmts[k])})
  /\ \A k \in DOMAIN stmts : AskedFor(stmts[k], promptName(Tokenize(dialect, stmts[k])))

(* The script is read as it was written, by every reader of it              *)
(* (SplitStatementSpans, StatementAt, Tokenize, FindUnguardedWrites,        *)
(* ContainsWrite, BindPlaceholders, SingleTableSelect).                     *)
TextTruth ==
  /\ ReadsAsWritten(SplitStatementSpans(dialect, script), SplitStatements(dialect, script))
  /\ ScannersAgree(SplitModes(dialect, script), Tokenize(dialect, script))
  /\ ResultIsItsTable(sqlTokens(dialect, script))
=============================================================================
