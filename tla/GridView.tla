------------------------------ MODULE GridView ------------------------------
(***************************************************************************)
(* What the Data tab draws of its page and what its keys and clicks mean   *)
(* (internal/ui/datagrid.go, colview.go, rogrid.go, copy.go, mouse.go and  *)
(* the cursor and the selection of data.go): pinned and hidden columns,    *)
(* the scroll window, the block selection and the copies taken from it.    *)
(*                                                                         *)
(* Rows count from 0, as in the code, columns from 1. A value is its       *)
(* place: what is checked is which cells are drawn, marked and copied.     *)
(* The layout is worked out again from the view and the box whenever it is *)
(* needed, the box changes without a word to the view, and only a move of  *)
(* the cursor writes the window back.                                      *)
(***************************************************************************)
EXTENDS Integers, Sequences, FiniteSets, SequencesExt

CONSTANTS
  Columns,     \* the columns' names, in table order; a query may repeat one
  Width,       \* how wide each is drawn
  Boxes,       \* sizes of the content box; w = 0 when it is not on screen
  MaxRows,     \* rows of a page
  MaxPhantoms, \* staged inserts drawn below it
  MaxShapes    \* bound on pins, hides and shows

ASSUME GridViewAssumption ==
  /\ Len(Columns) > 0 /\ Width \in [DOMAIN Columns -> Nat \ {0}]
  /\ Boxes \subseteq [w : Nat, h : Nat] /\ MaxRows \in Nat /\ MaxPhantoms \in Nat /\ MaxShapes \in Nat

VARIABLES
  view,   \* dataView: the rows it has, the cursor, the window, the columns' shape and the selection
  box,
  shapes  \* pins, hides and shows so far

gridVars == <<view, box, shapes>>

colGap == 1
OnScreen == box.w > 0

\* lo wins over hi.
clampInt(x, lo, hi) == LET y == IF x > hi THEN hi ELSE x IN IF y < lo THEN lo ELSE y
Larger(a, b) == IF a > b THEN a ELSE b
Smaller(a, b) == IF a < b THEN a ELSE b
First(S) == CHOOSE x \in S : \A y \in S : x <= y
Last_(S) == CHOOSE x \in S : \A y \in S : x >= y

-----------------------------------------------------------------------------
(* The display order: the pinned columns as they were pinned, then the rest *)
(* in table order, without the hidden ones.                                 *)

colIndex(name) == First({c \in DOMAIN Columns : Columns[c] = name})

TableOrder == [c \in DOMAIN Columns |-> c]
PinsThenRest(pins, hidden) ==
  pins \o SelectSeq(TableOrder, LAMBDA c : Columns[c] \notin hidden /\ \A i \in DOMAIN pins : pins[i] # c)
AllIfNone(order) == IF order = <<>> THEN TableOrder ELSE order

visibleOrder(v) ==
  AllIfNone(PinsThenRest(SelectSeq([i \in DOMAIN v.pinned |-> colIndex(v.pinned[i])],
                                   LAMBDA c : Columns[c] \notin v.hidden), v.hidden))

pinnedCount(v) == Cardinality({n \in ToSet(v.pinned) : n \notin v.hidden})

\* 0 for a column that is not shown.
Pos(order, c) == Last_({0} \cup {i \in DOMAIN order : order[i] = c})

Stepped(order, col, delta) == order[clampInt(Larger(Pos(order, col), 1) + delta, 1, Len(order))]
stepCol(v, delta) == [v EXCEPT !.col = Stepped(visibleOrder(v), @, delta)]

\* The column, the next one of the table that is shown, or else the one before.
ShownNear(cols, c) == IF \E d \in cols : d >= c THEN First({d \in cols : d >= c}) ELSE Last_(cols)
settleCol(v) == [v EXCEPT !.col = ShownNear(ToSet(visibleOrder(v)), @)]

-----------------------------------------------------------------------------
(* The windows. start columns are scrolled off; end is the last one drawn.  *)

RECURSIVE Total(_, _, _)
Total(widths, from, to) ==
  IF from > to THEN 0 ELSE widths[from] + (IF from < to THEN colGap ELSE 0) + Total(widths, from + 1, to)

\* At least one column, however narrow the box.
Fit(widths, start, w) == Last_({start + 1} \cup {e \in start + 1 .. Len(widths) : Total(widths, start + 1, e) <= w})

\* No further than the cursor needs from where it was.
Reaching(widths, cur, w, off) == First({s \in clampInt(off, 0, cur - 1) .. cur - 1 : cur <= Fit(widths, s, w)})
FitFrom(widths, start, w) == [start |-> start, end |-> Fit(widths, start, w)]

\* Plausible bug: the window starts one column short of where it has to.
columnWindowLate(widths, cursor, w, off) ==
  IF widths = <<>> THEN [start |-> 0, end |-> 0]
  ELSE FitFrom(widths, Larger(Reaching(widths, clampInt(cursor, 1, Len(widths)), w, 0) - 1, 0), w)

columnWindow(widths, cursor, w, off) ==
  IF widths = <<>> THEN [start |-> 0, end |-> 0]
  ELSE FitFrom(widths, Reaching(widths, clampInt(cursor, 1, Len(widths)), w, off), w)

rowWindow(n, cursor, lines, off) ==
  IF lines <= 0 \/ n <= 0 THEN [start |-> 0, end |-> 0]
  ELSE LET cur == clampInt(cursor, 0, n - 1)
           s == clampInt(clampInt(off, cur - lines + 1, cur), 0, Larger(n - lines, 0))
       IN [start |-> s, end |-> Smaller(s + lines, n)]

\* Three lines of header, the status line and the hint.
gridBodyRows(h, hint) == Larger(h - 4 - (IF hint THEN 1 ELSE 0), 0)

rowCount(v) == v.rows + v.extra

\* The scrolled columns, then the rows under them.
ScrolledTo(v, w, order, p, pos, still) ==
  columnWindow([i \in 1 .. Len(order) - p |-> Width[order[p + i]]], IF pos > p THEN pos - p ELSE still + 1, w,
               IF pos > p THEN v.colOff ELSE still)
hintShown(order, p, win) == win.start > 0 \/ p + win.end < Len(order) \/ Len(order) < Len(Columns)
GridOf(order, p, win, lines) ==
  [order |-> order, pinned |-> p, cs |-> p + win.start, ce |-> p + win.end, rs |-> lines.start, re |-> lines.end]
WithRows(v, b, order, p, win) ==
  GridOf(order, p, win, rowWindow(rowCount(v), v.row, gridBodyRows(b.h, hintShown(order, p, win)), v.rowOff))
WithPins(v, b, order, p, room) ==
  WithRows(v, b, order, p,
           ScrolledTo(v, Larger(room, 1), order, p, Pos(order, v.col), clampInt(v.colOff, 0, Len(order) - p - 1)))

\* Pinned columns that leave the cursor's column no room scroll with the
\* others.
PinWidth(order, pins) == Total([i \in DOMAIN order |-> Width[order[i]] + (IF i = pins THEN colGap ELSE 0)], 1, pins)
PinsFit(order, pins, col, w) == PinWidth(order, pins) + (IF Pos(order, col) > pins THEN Width[col] ELSE 0) <= w
Pinned(v, b, order, pins) ==
  IF PinsFit(order, pins, v.col, b.w) THEN WithPins(v, b, order, pins, b.w - PinWidth(order, pins))
  ELSE WithPins(v, b, order, 0, b.w)

gridLayout(v, b) == Pinned(v, b, visibleOrder(v), pinnedCount(v))

\* The columns drawn, from left to right.
shown(g) == SubSeq(g.order, 1, g.pinned) \o SubSeq(g.order, g.cs + 1, g.ce)

-----------------------------------------------------------------------------
(* The selection: an anchor, and the cursor as its other end.               *)

NoSelection == [active |-> FALSE, anchor |-> 0, cols |-> FALSE, colAnchor |-> 0]
Between(a, b) == Smaller(a, b) .. Larger(a, b)

rowRange(s, cursor, n) == IF s.active THEN Between(s.anchor, cursor) \cap 0 .. n - 1 ELSE {}
colRange(s, anchor, cursor, n) ==
  IF ~s.active THEN {} ELSE IF ~s.cols THEN 1 .. n ELSE Between(anchor, cursor) \cap 1 .. n

selectedRows(v) == rowRange(v.sel, v.row, v.rows)

\* Places in the display order; an anchor that is not shown is the cursor's.
columnRangeIn(v, order) ==
  LET cur == Larger(Pos(order, v.col), 1)
      anchor == Pos(order, v.sel.colAnchor)
  IN colRange(v.sel, IF anchor = 0 THEN cur ELSE anchor, cur, Len(order))

selectedCols(v) ==
  LET order == visibleOrder(v) In == columnRangeIn(v, order)
  IN [i \in 1 .. Cardinality(In) |-> order[First(In) + i - 1]]

narrowedToCols(v) == v.sel.cols /\ Len(selectedCols(v)) < Len(visibleOrder(v))

\* The cells drawn as selected.
cellSelector(v) ==
  IF ~v.sel.active THEN {}
  ELSE LET order == visibleOrder(v) IN selectedRows(v) \X {order[i] : i \in columnRangeIn(v, order)}

-----------------------------------------------------------------------------
(* Moving.                                                                 *)

\* dataView.clampCursor
Clamped(v) ==
  settleCol([v EXCEPT !.row = clampInt(Smaller(@, rowCount(v) - 1), 0, Larger(rowCount(v) - 1, 0)),
                      !.col = clampInt(@, 1, Len(Columns))])

settleGridWindow(v, b) ==
  IF b.w = 0 THEN v
  ELSE LET g == gridLayout(v, b) IN [v EXCEPT !.rowOff = g.rs, !.colOff = g.cs - g.pinned]

\* Model.clampCursor: a selection of no row is none.
clampCursor(v, b) ==
  LET c == Clamped(v)
  IN settleGridWindow([c EXCEPT !.sel = IF @.active /\ selectedRows(c) = {} THEN NoSelection ELSE @], b)

Moved(v) == view' = clampCursor(v, box) /\ UNCHANGED box
OnRow(v) == v.row \in 0 .. v.rows - 1

scrollGrid(delta) == Moved([view EXCEPT !.row = @ + delta]) /\ UNCHANGED shapes
moveColumn(delta) == Moved(stepCol(view, delta)) /\ UNCHANGED shapes

\* startSelection: none is anchored at a phantom row.
startSelection(v) == IF v.sel.active THEN v ELSE [v EXCEPT !.sel = [NoSelection EXCEPT !.active = TRUE, !.anchor = v.row]]
CanSelect == view.sel.active \/ OnRow(view)

clearSelection == view.sel.active /\ view' = [view EXCEPT !.sel = NoSelection] /\ UNCHANGED <<box, shapes>>

toggleSelection ==
  ~view.sel.active /\ OnRow(view) /\ view' = startSelection(view) /\ UNCHANGED <<box, shapes>>

\* Moving the rows' end is scrollGrid on a selection that is up.
extendColumnSelection(delta) ==
  /\ CanSelect
  /\ LET v == startSelection(view)
     IN Moved(stepCol([v EXCEPT !.sel = IF @.cols THEN @ ELSE [@ EXCEPT !.cols = TRUE, !.colAnchor = v.col]], delta))
  /\ UNCHANGED shapes

toggleColumnSelection ==
  /\ CanSelect
  /\ view' = IF view.sel.active /\ view.sel.cols THEN [view EXCEPT !.sel.cols = FALSE]
             ELSE [startSelection(view) EXCEPT !.sel.cols = TRUE, !.sel.colAnchor = view.col]
  /\ UNCHANGED <<box, shapes>>

-----------------------------------------------------------------------------
(* The columns' shape.                                                     *)

Shape == shapes < MaxShapes /\ shapes' = shapes + 1
NameAtCursor == Columns[view.col]
Unpinned(v, n) == SelectSeq(v.pinned, LAMBDA x : x # n)

togglePin ==
  /\ Shape
  /\ Moved([view EXCEPT !.pinned = IF Contains(@, NameAtCursor) THEN Unpinned(view, NameAtCursor)
                                   ELSE Append(@, NameAtCursor)])

\* The last column shown stays. A hidden column is not pinned any more.
hideColumn ==
  /\ Shape
  /\ Len(visibleOrder(view)) > 1
  /\ LET v == settleCol([view EXCEPT !.hidden = @ \cup {NameAtCursor}, !.pinned = Unpinned(view, NameAtCursor)])
     IN Moved(IF view.sel.cols /\ view.sel.colAnchor = view.col THEN [v EXCEPT !.sel.colAnchor = v.col] ELSE v)

\* One of them or all, from the menu.
showColumns(names) == Shape /\ Moved([view EXCEPT !.hidden = @ \ names])

-----------------------------------------------------------------------------
(* Clicks.                                                                 *)

\* Where a column drawn starts.
Left(cols, i) == IF i = 1 THEN 0 ELSE Total([j \in DOMAIN cols |-> Width[cols[j]]], 1, i - 1) + colGap

\* A gap belongs to no column.
gridColumnAt(cols, x) == {i \in DOMAIN cols : x >= Left(cols, i) /\ x < Left(cols, i) + Width[cols[i]]}

\* Under the three lines of header.
clickGrid(v, b, line, x) ==
  LET g == gridLayout(v, b)
      r == g.rs + line - 3
      At == gridColumnAt(shown(g), x)
  IN IF line < 3 \/ r \notin g.rs .. g.re - 1 THEN v
     ELSE clampCursor([v EXCEPT !.row = r, !.col = IF At = {} THEN @ ELSE shown(g)[First(At)]], b)

Click(line, x) == view' = clickGrid(view, box, line, x) /\ UNCHANGED <<box, shapes>>

-----------------------------------------------------------------------------
(* Copies.                                                                 *)

\* Rows cut to the columns.
cutColumns(rows, cols) == {[i \in DOMAIN cols |-> <<r, cols[i]>>] : r \in rows}

copyRow(v) == cutColumns({v.row}, visibleOrder(v))
copySelectionRows(v) == cutColumns(selectedRows(v), selectedCols(v))
copySelectionColumn(v) == cutColumns(selectedRows(v), <<v.col>>)

\* The cells summed in the status line.
selectionAggregate(v) == selectedRows(v) \X ToSet(selectedCols(v))

-----------------------------------------------------------------------------
(* The page and the box.                                                   *)

\* A page lands, of the same rows or of others from their start.
pageLoaded(n, top) ==
  Moved([view EXCEPT !.rows = n, !.row = IF top THEN 0 ELSE @]) /\ UNCHANGED shapes

\* An insert is staged or dropped.
stageInsert(n) == n # view.extra /\ Moved([view EXCEPT !.extra = n]) /\ UNCHANGED shapes

\* The terminal's size, the log or another panel's focus.
Resize(b) == b # box /\ box' = b /\ UNCHANGED <<view, shapes>>

GridViewInit ==
  /\ view = [rows |-> MaxRows, extra |-> 0, row |-> 0, col |-> 1, pinned |-> <<>>, hidden |-> {}, rowOff |-> 0,
             colOff |-> 0, sel |-> NoSelection]
  /\ box \in Boxes /\ shapes = 0

Keys ==
  \/ \E d \in {-1, 1} : scrollGrid(d) \/ moveColumn(d) \/ extendColumnSelection(d)
  \/ toggleSelection \/ toggleColumnSelection \/ clearSelection
  \/ togglePin \/ hideColumn
  \/ \E n \in view.hidden : showColumns({n})
  \/ view.hidden # {} /\ showColumns(view.hidden)
  \/ \E line \in 3 .. box.h - 2, x \in 0 .. box.w - 1 : Click(line, x)

GridViewNext ==
  \/ OnScreen /\ Keys
  \/ \E n \in {0, MaxRows - 1, MaxRows}, top \in BOOLEAN : pageLoaded(n, top)
  \/ \E n \in 0 .. MaxPhantoms : stageInsert(n)
  \/ \E b \in Boxes : Resize(b)

GridViewSpec == GridViewInit /\ [][GridViewNext]_gridVars

-----------------------------------------------------------------------------
Layout == gridLayout(view, box)

(* The cell the keys act on is drawn, in a box no line or column leaves.   *)
CursorShown ==
  OnScreen =>
    LET g == Layout
        widths == [i \in DOMAIN shown(g) |-> Width[shown(g)[i]]]
        lines == gridBodyRows(box.h, g.cs > g.pinned \/ g.ce < Len(g.order) \/ Len(g.order) < Len(Columns))
    IN /\ Contains(shown(g), view.col)
       /\ rowCount(view) > 0 /\ lines > 0 => view.row \in g.rs .. g.re - 1
       /\ Total(widths, 1, Len(widths)) <= box.w \/ g.ce - g.cs = 1
       /\ g.re - g.rs = Smaller(lines, rowCount(view))

(* A click takes the cell it is on, and where the window was written back   *)
(* the row stays on its line.                                               *)
ClickHits ==
  OnScreen =>
    LET g == Layout
        Settled == view = settleGridWindow(view, box)
    IN \A r \in g.rs .. g.re - 1, i \in DOMAIN shown(g) :
         LET x == Left(shown(g), i) IN x < box.w =>
           LET v == clickGrid(view, box, 3 + r - g.rs, x)
           IN v.row = r /\ v.col = shown(g)[i] /\ (Settled /\ ~narrowedToCols(view) => gridLayout(v, box).rs = g.rs)

(* What is marked is what is copied and summed, around the cursor; what is  *)
(* hidden is in neither, unless that is all there is.                       *)
SelectionIsTheBlock ==
  LET rows == selectedRows(view)
      cols == selectedCols(view)
      Copied == UNION {ToSet(x) : x \in copySelectionRows(view)}
  IN /\ view.sel.active =>
          /\ rows # {} /\ (OnRow(view) => view.row \in rows)
          /\ Contains(cols, view.col) /\ (\A i, j \in DOMAIN cols : cols[i] = cols[j] => i = j)
          /\ Copied = cellSelector(view)
          /\ selectionAggregate(view) = Copied
          /\ UNION {ToSet(x) : x \in copySelectionColumn(view)} \subseteq Copied
     /\ ~view.sel.active => rows = {}
     /\ Len(visibleOrder(view)) < Len(Columns) => \A x \in copyRow(view) : \A i \in DOMAIN x : Columns[x[i][2]] \notin view.hidden

(* The grid's cursor, its clicks and its selection mean the cells drawn     *)
(* (columnWindow, gridLayout, clickGrid, settleCol, columnRangeIn).         *)
GridTruth == CursorShown /\ ClickHits /\ SelectionIsTheBlock
=============================================================================
