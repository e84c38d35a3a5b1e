------------------------------- MODULE Pager -------------------------------
(***************************************************************************)
(* The pagers of the analyst UI store (UIStore.js, uiReducer).  Each pager*)
(* (blocks, hour, day and month items, invoices) shows a window of five   *)
(* page buttons starting at its start page; the increment and decrement   *)
(* actions move the window by three, the FILTERON action resets the      *)
(* windows, and the default case stores a payload under the action type,  *)
(* which is how page counts are set.  useReducer applies one action at a *)
(* time.                                                                   *)
(***************************************************************************)
EXTENDS Integers

CONSTANTS
  Pagers,         \* the pagers whose keys a payload can name
  Reset,          \* the pagers FILTERON resets (all but the invoice pager)
  PageCounts      \* page counts a page-size dispatch can store

ASSUME Reset \subseteq Pagers /\ PageCounts \subseteq Nat

VARIABLES
  startPage,      \* state[startPage key] of each pager
  pageSize        \* state[pageSize key]: the number of pages

vars == <<startPage, pageSize>>

\* UIR_DECREMENT_PAGER: back three pages, not before page 1
DecrementPager(p) ==
  /\ startPage' = [startPage EXCEPT ![p] = IF @ - 3 < 1 THEN 1 ELSE @ - 3]
  /\ UNCHANGED pageSize

\* UIR_INCREMENT_PAGER: on three pages, or to the last window near the end
IncrementPager(p) ==
  /\ startPage' = [startPage EXCEPT ![p] =
                     IF @ >= pageSize[p] - 6 THEN pageSize[p] - 4 ELSE @ + 3]
  /\ UNCHANGED pageSize

\* UIR_FILTERON: the block, hour, day and month windows back to page 1
FilterOn ==
  /\ startPage' = [p \in Pagers |-> IF p \in Reset THEN 1 ELSE startPage[p]]
  /\ UNCHANGED pageSize

\* the default case: state[pageSize key] = payload
SetPageSize(p, n) ==
  /\ pageSize' = [pageSize EXCEPT ![p] = n]
  /\ UNCHANGED startPage

\* initialState: start pages 1, page sizes 0
Init ==
  /\ startPage = [p \in Pagers |-> 1]
  /\ pageSize = [p \in Pagers |-> 0]

Next ==
  \/ \E p \in Pagers : DecrementPager(p) \/ IncrementPager(p)
  \/ FilterOn
  \/ \E p \in Pagers, n \in PageCounts : SetPageSize(p, n)

Spec == Init /\ [][Next]_vars

(***************************************************************************)
(* Properties                                                              *)
(***************************************************************************)

(* No pager's window ever starts before page 1.                            *)
StartPageAtLeastOne == \A p \in Pagers : startPage[p] >= 1
=============================================================================
