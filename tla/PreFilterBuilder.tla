--------------------------- MODULE PreFilterBuilder ---------------------------
(***************************************************************************)
(* The prefilter editor of AnalystView.js: one vertical filter per slot,  *)
(* a list of OR clauses, each a list of AND constraints whose left side   *)
(* is a sum of multinomials (coefficient times a product of column^exp). *)
(* Each action is one click or change handler of the editor, with the    *)
(* inputs the rendered controls can deliver.                               *)
(***************************************************************************)
EXTENDS QueryDefs

CONSTANTS
  MaxTerms,          \* the add buttons are modelled while fewer terms exist
  Comparators,       \* values offered by the comparator <select>
  NumberInputs       \* strings an <input type="number"> can report

ASSUME MaxTerms \in Nat \ {0}

(***************************************************************************)
(* Mutants: plausible slips in the handlers below, used to confirm that   *)
(* the properties can fail.                                                *)
(***************************************************************************)
getUnusedVerticalsListUnfiltered(curIndex) == LexiconIds

(***************************************************************************)
(* getUnusedVerticalsList(curIndex): lexicon order, the verticals not     *)
(* chosen by any slot, plus the one of slot curIndex (0 stands for -1).   *)
(***************************************************************************)
getUnusedVerticalsList(curIndex) ==
  SelectSeq(LexiconIds,
            LAMBDA v : ~Contains(verticals, v) \/ VerticalAt(curIndex) = v)

findFirstOpenVertical ==
  IF Len(getUnusedVerticalsList(0)) > 0 THEN getUnusedVerticalsList(0)[1]
  ELSE Null

\* Array.prototype.filter((x, i) => i !== index)
FilterOutIndex(s, i) == IF i \in DOMAIN s THEN RemoveAt(s, i) ELSE s

TermCount == Cardinality(TermPaths)

CanAdd == TermCount < MaxTerms

pf == query.preFilters

Unchanged == UNCHANGED <<lexicon, fields>>

addVerticalUnguarded ==
  /\ CanAdd
  /\ LET vert == findFirstOpenVertical IN
       /\ verticals' = Append(verticals, vert)
       /\ query' = [query EXCEPT !.preFilters = Append(@, setEmptyVert(vert))]
  /\ Unchanged

onChangeVerticalStaleReset(index, vert) ==
  /\ verticals' = [verticals EXCEPT ![index] = vert]
  /\ query' = [query EXCEPT !.preFilters[index] = setEmptyVert(verticals[index])]
  /\ Unchanged

(***************************************************************************)
(* Handlers.  The "Preshape Vertical" button is rendered only while there *)
(* are fewer prefilter slots than lexicon verticals.                       *)
(***************************************************************************)
addVertical ==
  /\ Len(pf) < Len(lexicon)
  /\ CanAdd
  /\ LET vert == findFirstOpenVertical IN
       /\ verticals' = Append(verticals, vert)
       /\ query' = [query EXCEPT !.preFilters = Append(@, setEmptyVert(vert))]
  /\ Unchanged

\* mutant: the slot is deleted from the query but its vertical is kept
deleteVerticalQueryOnly(index) ==
  /\ query' = [query EXCEPT !.preFilters = FilterOutIndex(@, index)]
  /\ UNCHANGED verticals
  /\ Unchanged

deleteVertical(index) ==
  /\ query' = [query EXCEPT !.preFilters = FilterOutIndex(@, index)]
  /\ verticals' = FilterOutIndex(verticals, index)
  /\ Unchanged

deleteOr(pfIndex, orIndex) ==
  /\ query' = [query EXCEPT !.preFilters[pfIndex] = RemoveAt(@, orIndex)]
  /\ UNCHANGED verticals
  /\ Unchanged

\* The slot's <select> offers getUnusedVerticalsList(index).
onChangeVertical(index, vert) ==
  /\ verticals' = [verticals EXCEPT ![index] = vert]
  /\ query' = [query EXCEPT !.preFilters[index] = setEmptyVert(vert)]
  /\ Unchanged

\* setEmptyOr(preFilters[index]) is called without a vertical.
addOrClause(index) ==
  /\ CanAdd
  /\ query' = [query EXCEPT !.preFilters[index] = Append(@, setEmptyOr(Undefined))]
  /\ UNCHANGED verticals
  /\ Unchanged

addAndClause(pfIndex, orIndex) ==
  /\ CanAdd
  /\ query' = [query EXCEPT !.preFilters[pfIndex][orIndex] =
                 Append(@, setEmptyAnd(VerticalAt(pfIndex)))]
  /\ UNCHANGED verticals
  /\ Unchanged

addMultinomial(pfIndex, orIndex, andIndex) ==
  /\ CanAdd
  /\ query' = [query EXCEPT !.preFilters[pfIndex][orIndex][andIndex].left =
                 Append(@, setEmptyMultiNomial(VerticalAt(pfIndex)))]
  /\ UNCHANGED verticals
  /\ Unchanged

addMultinomialValue(pfIndex, orIndex, andIndex, mnIndex) ==
  /\ CanAdd
  /\ query' = [query EXCEPT
                 !.preFilters[pfIndex][orIndex][andIndex].left[mnIndex].values =
                   Append(@, setEmptyMultnomialValue(VerticalAt(pfIndex)))]
  /\ UNCHANGED verticals
  /\ Unchanged

updateComp(pfIndex, orIndex, andIndex, newVal) ==
  /\ query' = [query EXCEPT !.preFilters[pfIndex][orIndex][andIndex].comp = newVal]
  /\ UNCHANGED verticals
  /\ Unchanged

updateRight(pfIndex, orIndex, andIndex, newVal) ==
  /\ query' = [query EXCEPT !.preFilters[pfIndex][orIndex][andIndex].right = newVal]
  /\ UNCHANGED verticals
  /\ Unchanged

updateCoeffient(pfIndex, orIndex, andIndex, mnIndex, newVal) ==
  /\ query' = [query EXCEPT
                 !.preFilters[pfIndex][orIndex][andIndex].left[mnIndex].coefficient =
                   newVal]
  /\ UNCHANGED verticals
  /\ Unchanged

updateCol(pfIndex, orIndex, andIndex, mnIndex, mnVal, newVal) ==
  /\ query' = [query EXCEPT
                 !.preFilters[pfIndex][orIndex][andIndex].left[mnIndex].values[mnVal].col.column =
                   newVal]
  /\ UNCHANGED verticals
  /\ Unchanged

updateExp(pfIndex, orIndex, andIndex, mnIndex, mnVal, newVal) ==
  /\ query' = [query EXCEPT
                 !.preFilters[pfIndex][orIndex][andIndex].left[mnIndex].values[mnVal].exp =
                   newVal]
  /\ UNCHANGED verticals
  /\ Unchanged

(***************************************************************************)
(* The controls rendered for the current document and what they deliver.  *)
(* A term's column <select> lists fields[pfIndex], the fields of the      *)
(* lexicon vertical at the slot's position (getMultiNomialValueDisplay).  *)
(***************************************************************************)
\* an input fires onChange when the typed text differs from the shown one
NumberChanges(current) == {Str(s) : s \in NumberInputs \ {current.v}}


Next ==
  \/ addVertical
  \/ \E p \in DOMAIN pf :
       \/ deleteVertical(p)
       \/ addOrClause(p)
       \/ \E v \in SelectChanges(getUnusedVerticalsList(p), verticals[p]) :
            onChangeVertical(p, v)
       \/ \E o \in DOMAIN pf[p] :
            \/ deleteOr(p, o)
            \/ addAndClause(p, o)
            \/ \E a \in DOMAIN pf[p][o] :
                 \/ addMultinomial(p, o, a)
                 \/ \E c \in Comparators \ {pf[p][o][a].comp} : updateComp(p, o, a, c)
                 \/ \E r \in NumberChanges(pf[p][o][a].right) : updateRight(p, o, a, r)
                 \/ \E m \in DOMAIN pf[p][o][a].left :
                      \/ addMultinomialValue(p, o, a, m)
                      \/ \E c \in NumberChanges(pf[p][o][a].left[m].coefficient) :
                           updateCoeffient(p, o, a, m, c)
                      \/ \E t \in DOMAIN pf[p][o][a].left[m].values :
                           LET term == pf[p][o][a].left[m].values[t] IN
                           \/ \E c \in SelectChanges(fields[p], term.col.column) :
                                updateCol(p, o, a, m, t, c)
                           \/ \E e \in NumberChanges(term.exp) :
                                updateExp(p, o, a, m, t, e)

(***************************************************************************)
(* The editor on its own starts once the lexicon has been parsed.          *)
(***************************************************************************)
Init ==
  /\ lexicon = Lexicon
  /\ fields = ParseLexicon(Lexicon)
  /\ verticals = <<>>
  /\ query = [EmptyQuery EXCEPT !.queryFunction = getInitialQueryFunctOrder]

Spec == Init /\ [][Next]_vars

(***************************************************************************)
(* Properties                                                              *)
(***************************************************************************)
ColumnRef == [vertical : VerticalIds \cup {Undefined, Null}, column : STRING]

Term == [col : ColumnRef, exp : {Num("1")} \cup {Str(s) : s \in NumberInputs}]

TypeOK ==
  /\ verticals \in Seq(VerticalIds)
  /\ \A path \in TermPaths : TermAt(path) \in Term

(* The slot list and the vertical list stay index-aligned: addVertical,  *)
(* deleteVertical and onChangeVertical each edit both lists, and must      *)
(* keep them the same length.  That no two slots hold one vertical is      *)
(* part of AssignmentRefinement.                                           *)
AlignedAssignment ==
  Len(pf) = Len(verticals)

(* Every term that names a vertical names the vertical of its own slot,   *)
(* across the index shifts of deleteVertical and the resets of            *)
(* onChangeVertical.                                                       *)
TermsScopedToSlot ==
  \A path \in TermPaths :
    TermAt(path).col.vertical \in {VerticalAt(path[1]), Undefined}

(* The slots refine SlotAssignment: across every sequence of handlers,   *)
(* the list of slot verticals only grows by a vertical no slot holds,    *)
(* shrinks by one slot, or rebinds one slot to a vertical no slot holds. *)
Assignment == INSTANCE SlotAssignment
                WITH Verticals <- {Lexicon[i].verticalId : i \in DOMAIN Lexicon},
                     assigned <- verticals

AssignmentRefinement == Assignment!Spec

(* Every term's column is a field of the vertical it names (spec 4.4);    *)
(* the column <select> of a term lists the fields of the lexicon vertical *)
(* at the slot's position, and new terms get the first lexicon column.   *)
PrefilterColumnsValid ==
  \A path \in TermPaths :
    LET ref == TermAt(path).col IN
    ref.vertical \in VerticalIds => ValidRef(ref)
=============================================================================
