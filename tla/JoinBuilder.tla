----------------------------- MODULE JoinBuilder -----------------------------
(***************************************************************************)
(* The join editor of AnalystView.js: a list of joins, each with a type   *)
(* and one join condition first.col = second.col between two verticals.   *)
(***************************************************************************)
EXTENDS QueryDefs

CONSTANTS
  MaxJoins,          \* the "Add Join Statement" button is modelled while
                     \* fewer joins exist
  JoinTypes          \* values offered by the join type <select>

ASSUME MaxJoins \in Nat \ {0}

Sides == {"first", "second"}

jn == query.joins

(***************************************************************************)
(* Mutant: the vertical changes but the column is not re-picked.          *)
(***************************************************************************)
updateJoinVerticalNoReset(joinIndex, leftOrRight, newVal) ==
  /\ query' = [query EXCEPT
                 !.joins[joinIndex].joinOns[1][leftOrRight].col.vertical = newVal]
  /\ UNCHANGED <<lexicon, fields, verticals>>

JoinOperandMutant(i) ==
  [col |-> [vertical |-> lexicon[i].verticalId, column |-> fields[i][1]],
   formula |-> <<0, 1>>]

\* the join type is written in lower case, matching no <option>
addJoinLowercase ==
  /\ Len(lexicon) >= 2 /\ DOMAIN fields = 1..Len(lexicon)
  /\ Len(jn) < MaxJoins
  /\ query' = [query EXCEPT !.joins =
                 Append(@, [type |-> "inner",
                            joinOns |-> <<[first |-> JoinOperandMutant(1),
                                           second |-> JoinOperandMutant(2)]>>])]
  /\ UNCHANGED <<lexicon, fields, verticals>>

(***************************************************************************)
(* addJoin: the first join condition links the first field of the first   *)
(* two lexicon verticals.  The object literal reads lexicon[1] and        *)
(* fields[0][0] before the push, so with fewer than two verticals, or     *)
(* before the lexicon is parsed, it throws and nothing changes; that case *)
(* is an action of QueryDocument.                                         *)
(***************************************************************************)
JoinOperand(i) ==
  [col |-> [vertical |-> lexicon[i].verticalId, column |-> fields[i][1]],
   formula |-> <<0, 1>>]

addJoinSucceeds == Len(lexicon) >= 2 /\ DOMAIN fields = 1..Len(lexicon)

addJoin ==
  /\ addJoinSucceeds
  /\ Len(jn) < MaxJoins
  /\ query' = [query EXCEPT !.joins =
                 Append(@, [type |-> "INNER",
                            joinOns |-> <<[first |-> JoinOperand(1),
                                           second |-> JoinOperand(2)]>>])]
  /\ UNCHANGED <<lexicon, fields, verticals>>

updateJoinType(joinIndex, newVal) ==
  /\ query' = [query EXCEPT !.joins[joinIndex].type = newVal]
  /\ UNCHANGED <<lexicon, fields, verticals>>

\* The vertical changes and the column is reset to the new vertical's first field.
updateJoinVertical(joinIndex, leftOrRight, newVal) ==
  /\ query' = [query EXCEPT
                 !.joins[joinIndex].joinOns[1][leftOrRight].col =
                   [vertical |-> newVal,
                    column |-> getColsForVertical(newVal)[1]]]
  /\ UNCHANGED <<lexicon, fields, verticals>>

updateJoinColumn(joinIndex, leftOrRight, newVal) ==
  /\ query' = [query EXCEPT
                 !.joins[joinIndex].joinOns[1][leftOrRight].col.column = newVal]
  /\ UNCHANGED <<lexicon, fields, verticals>>

(***************************************************************************)
(* getJoinsDisplay: the vertical <select>s list the whole lexicon, the    *)
(* column <select>s getColsForVertical of the chosen vertical.            *)
(***************************************************************************)
Next ==
  \/ addJoin
  \/ \E j \in DOMAIN jn :
       \/ \E t \in SelectChanges(JoinTypes, jn[j].type) : updateJoinType(j, t)
       \/ \E s \in Sides :
            LET col == jn[j].joinOns[1][s].col IN
            \/ \E v \in SelectChanges(LexiconIds, col.vertical) :
                 updateJoinVertical(j, s, v)
            \/ \E c \in SelectChanges(getColsForVertical(col.vertical), col.column) :
                 updateJoinColumn(j, s, c)

Init ==
  /\ lexicon = Lexicon
  /\ fields = ParseLexicon(Lexicon)
  /\ verticals = <<>>
  /\ query = [EmptyQuery EXCEPT !.queryFunction = getInitialQueryFunctOrder]

Spec == Init /\ [][Next]_vars

(***************************************************************************)
(* Properties                                                              *)
(***************************************************************************)
JoinOperandRefs ==
  {jn[j].joinOns[1][s].col : j \in DOMAIN jn, s \in Sides}

TypeOK ==
  /\ jn \in Seq([type : ToSet(JoinTypes),
                 joinOns : Seq([Sides -> [col : [vertical : VerticalIds,
                                                column : STRING],
                                          formula : {<<0, 1>>}]])])

(* Both sides of every join name a field of the vertical they name, after *)
(* any sequence of vertical and column changes (the spec's re-snap rule). *)
JoinRefsValid == \A ref \in JoinOperandRefs : ValidRef(ref)
=============================================================================
