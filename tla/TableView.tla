------------------------------ MODULE TableView ------------------------------
(***************************************************************************)
(* The session tables of the dashboard (viewSession.js): on page load     *)
(* every table shows its header and first two data rows, collapses the    *)
(* rest and appends an ellipsis row; a "show more / show less" button     *)
(* toggles the collapsed rows; clicking a header sorts the table by that  *)
(* column with sortTable.  The table is the sequence of its data rows    *)
(* (row 0 of table.rows is the header and is never moved).  Cell texts   *)
(* are abstracted to integers ordered as their lower-cased strings.       *)
(***************************************************************************)
EXTENDS Integers, Sequences, SequencesExt, FiniteSets

CONSTANTS
  Columns,        \* column indices n a header click can pass to sortTable
  CellValues,     \* lower-cased cell texts, as integers in string order
  MinRows,        \* data rows of the tables at page load
  MaxRows

ASSUME /\ Columns \subseteq Nat /\ 0 \in Columns
       /\ CellValues \subseteq Int /\ CellValues # {}
       /\ MinRows \in Nat /\ MaxRows \in Nat /\ MinRows <= MaxRows

VARIABLES
  rows,         \* data rows of the table, in document order
  phase,        \* "sorting" while sortTable's while loop runs
  column,       \* n, the column being sorted
  dir,          \* "asc" or "desc"
  swapped,      \* switchcount > 0
  buttonText,   \* the show more / show less button's innerHTML
  expanded,     \* the collapsed rows carry the class "show"
  buttonShown,  \* the button's div was not hidden at load
  clicked,      \* history: the rows when the header was clicked
  loaded        \* history: the data rows at page load

vars == <<rows, phase, column, dir, swapped, buttonText, expanded,
          buttonShown, clicked, loaded>>

(***************************************************************************)
(* The text of cell n: the ellipsis row is <td>&#8942;</td><td></td>...;  *)
(* the vertical ellipsis sorts after every letter or digit and "" before every text.   *)
(***************************************************************************)
Top == CHOOSE v \in CellValues : \A w \in CellValues : v >= w
Bottom == CHOOSE v \in CellValues : \A w \in CellValues : v <= w
EllipsisRow == [cells |-> [c \in Columns |-> Bottom], ellipsis |-> TRUE,
                collapsed |-> FALSE]
CellText(r, n) ==
  IF r.ellipsis THEN (IF n = 0 THEN Top + 1 ELSE Bottom - 1) ELSE r.cells[n]

DataRows(s) == SelectSeq(s, LAMBDA r : ~r.ellipsis)

(***************************************************************************)
(* Mutants.                                                                *)
(***************************************************************************)
\* a non-strict comparison, which also swaps equal cells
ShouldSwitchNonStrict(i) ==
  LET x == CellText(rows[i], column)
      y == CellText(rows[i + 1], column)
  IN  IF dir = "asc" THEN x >= y ELSE x <= y

\* the switchcount == 0 test dropped from the direction change
ReverseDirectionAfterSwaps ==
  /\ phase = "sorting"
  /\ \A i \in 1..Len(rows) - 1 :
       ~(IF dir = "asc" THEN CellText(rows[i], column) > CellText(rows[i+1], column)
         ELSE CellText(rows[i], column) < CellText(rows[i+1], column))
  /\ dir = "asc"
  /\ dir' = "desc"
  /\ UNCHANGED <<rows, phase, column, swapped, buttonText, expanded,
                 buttonShown, clicked, loaded>>

(***************************************************************************)
(* sortTable(n, thElement): one iteration of the while loop is one step.  *)
(* The for loop stops at the first adjacent pair out of order, which is   *)
(* then switched; a pass without a switch either turns an untouched      *)
(* ascending sort into a descending one or ends the loop.  The loop runs  *)
(* synchronously, so no other handler runs until it ends.                  *)
(***************************************************************************)
ShouldSwitch(i) ==
  LET x == CellText(rows[i], column)
      y == CellText(rows[i + 1], column)
  IN  IF dir = "asc" THEN x > y ELSE x < y

Switches == {i \in 1..Len(rows) - 1 : ShouldSwitch(i)}

sortTable(n) ==
  /\ phase = "idle"
  /\ phase' = "sorting"
  /\ column' = n
  /\ dir' = "asc"
  /\ swapped' = FALSE
  /\ clicked' = rows
  /\ UNCHANGED <<rows, buttonText, expanded, buttonShown, loaded>>

SwitchRows ==
  /\ phase = "sorting"
  /\ Switches # {}
  /\ LET i == CHOOSE j \in Switches : \A k \in Switches : j <= k
     IN  rows' = [rows EXCEPT ![i] = rows[i + 1], ![i + 1] = rows[i]]
  /\ swapped' = TRUE
  /\ UNCHANGED <<phase, column, dir, buttonText, expanded, buttonShown,
                 clicked, loaded>>

ReverseDirection ==
  /\ phase = "sorting"
  /\ Switches = {}
  /\ ~swapped /\ dir = "asc"
  /\ dir' = "desc"
  /\ UNCHANGED <<rows, phase, column, swapped, buttonText, expanded,
                 buttonShown, clicked, loaded>>

FinishSort ==
  /\ phase = "sorting"
  /\ Switches = {}
  /\ ~(~swapped /\ dir = "asc")
  /\ phase' = "idle"
  /\ UNCHANGED <<rows, column, dir, swapped, buttonText, expanded,
                 buttonShown, clicked, loaded>>

SortStep == SwitchRows \/ ReverseDirection \/ FinishSort

(***************************************************************************)
(* showMoreContent(button): "show more" removes the table's last row (tr: *)
(* last, meant to be the ellipsis row) and shows the collapsed rows;      *)
(* "show less" appends a fresh ellipsis row and hides them again.         *)
(***************************************************************************)
ShowMore ==
  /\ phase = "idle" /\ buttonShown
  /\ buttonText = "show more"
  /\ rows # <<>>
  /\ rows' = Front(rows)
  /\ expanded' = TRUE
  /\ buttonText' = "show less"
  /\ UNCHANGED <<phase, column, dir, swapped, buttonShown, clicked, loaded>>

ShowLess ==
  /\ phase = "idle" /\ buttonShown
  /\ buttonText = "show less"
  /\ rows' = Append(rows, EllipsisRow)
  /\ expanded' = FALSE
  /\ buttonText' = "show more"
  /\ UNCHANGED <<phase, column, dir, swapped, buttonShown, clicked, loaded>>

(***************************************************************************)
(* Page load: rows from the fourth <tr> on (the header is the first) are  *)
(* collapsed; a table of four or more <tr> gets the ellipsis row and a    *)
(* visible button, a smaller one has its button hidden.                    *)
(***************************************************************************)
Init ==
  \E n \in MinRows..MaxRows : \E data \in [1..n -> [Columns -> CellValues]] :
    LET body == [i \in 1..n |-> [cells |-> data[i], ellipsis |-> FALSE,
                                 collapsed |-> i >= 3]]
    IN  /\ rows = IF n + 1 >= 4 THEN Append(body, EllipsisRow) ELSE body
        /\ loaded = body
        /\ buttonShown = (n + 1 >= 4)
        /\ phase = "idle"
        /\ column = 0
        /\ dir = "asc"
        /\ swapped = FALSE
        /\ buttonText = "show more"
        /\ expanded = FALSE
        /\ clicked = <<>>

Next ==
  \/ \E n \in Columns : sortTable(n)
  \/ SortStep
  \/ ShowMore
  \/ ShowLess

\* sortTable runs to completion once called
Spec == Init /\ [][Next]_vars /\ WF_vars(SortStep)

(***************************************************************************)
(* Properties                                                              *)
(***************************************************************************)

(* A sort that ends leaves the rows at the click, rearranged, in order    *)
(* of the column, and descending exactly when the click found them        *)
(* already ascending (the header click toggles the order).                 *)
SortResult ==
  [][FinishSort =>
       LET ascending(s) == \A i \in 1..Len(s) - 1 :
                             CellText(s[i], column) <= CellText(s[i + 1], column)
           descending(s) == \A i \in 1..Len(s) - 1 :
                             CellText(s[i], column) >= CellText(s[i + 1], column)
       IN  /\ ToBag(rows) = ToBag(clicked)
           /\ IF ascending(clicked) THEN dir = "desc" /\ descending(rows)
              ELSE dir = "asc" /\ ascending(rows)]_vars

(* Every header click returns: the while loop of sortTable ends.           *)
SortTerminates == phase = "sorting" ~> phase = "idle"

(* Showing and hiding rows never removes a data row of the table: the     *)
(* rows "show more" removes is the ellipsis row it appended.               *)
DataRowsPreserved == ToBag(DataRows(rows)) = ToBag(loaded)
=============================================================================
