------------------------- MODULE QueryFunctionBuilder -------------------------
(***************************************************************************)
(* The query function editor of AnalystView.js.  The function is a plain  *)
(* object whose fields depend on its type (Order: col, is_percentile,     *)
(* lowest_first, value; Moment: col, momentType; the regression family:  *)
(* dep_var, indep_vars).  The editor renders a control for each field    *)
(* the object carries, so the controls offered follow its current shape.  *)
(***************************************************************************)
EXTENDS QueryDefs

CONSTANTS
  MaxIndepVars,      \* "Add Independent Variable" is modelled while fewer exist
  MomentTypes,       \* values offered by the moment type <select>
  NumberInputs       \* strings an <input type="number"> can report

ASSUME MaxIndepVars \in Nat

FunctionTypes ==
  <<"OrderFunction", "MomentFunction", "LinearRegressionFunction",
    "FTestFunction", "TTestFunction">>

qf == query.queryFunction

Has(key) == key \in DOMAIN qf

SetFunction(f) ==
  /\ query' = [query EXCEPT !.queryFunction = f]
  /\ UNCHANGED <<lexicon, fields, verticals>>

(***************************************************************************)
(* Mutants.                                                                *)
(***************************************************************************)
\* the new defaults are merged into the old object ({...qfunct, ...initial})
setQueryFuncTypeMerging(ftype) ==
  LET new == CASE ftype = "OrderFunction" -> getInitialQueryFunctOrder
               [] ftype = "MomentFunction" -> getInitialQueryFunctMoment
               [] OTHER -> getInitialQueryFunctLinAndTest(ftype)
  IN  SetFunction([k \in DOMAIN qf \cup DOMAIN new |->
                     IF k \in DOMAIN new THEN new[k] ELSE qf[k]])

\* the vertical changes but the column is kept
updateQFIndepVarVerticalNoReset(index, vert) ==
  SetFunction([qf EXCEPT !.indep_vars[index].vertical = vert])

\* the new entry names its column "col", as the Order and Moment targets do
addIndependentVarColKey ==
  /\ Len(qf.indep_vars) < MaxIndepVars
  /\ SetFunction([qf EXCEPT !.indep_vars =
                    Append(@, [vertical |-> lexicon[1].verticalId,
                               col |-> fields[1][1]])])

(***************************************************************************)
(* Handlers                                                                *)
(***************************************************************************)
setQueryFuncType(ftype) ==
  SetFunction(CASE ftype = "OrderFunction" -> getInitialQueryFunctOrder
                [] ftype = "MomentFunction" -> getInitialQueryFunctMoment
                [] OTHER -> getInitialQueryFunctLinAndTest(ftype))

FirstFieldRef(vert) == [vertical |-> vert, column |-> getColsForVertical(vert)[1]]

updateQFColVertical(vert) == SetFunction([qf EXCEPT !.col = FirstFieldRef(vert)])

updateQFColColumn(column) == SetFunction([qf EXCEPT !.col.column = column])

updateQFDepVarVertical(vert) ==
  SetFunction([qf EXCEPT !.dep_var = FirstFieldRef(vert)])

updateQFDepVarColumn(column) == SetFunction([qf EXCEPT !.dep_var.column = column])

updateQFGenericValue(key, val) == SetFunction([qf EXCEPT ![key] = val])

addIndependentVar ==
  /\ Len(qf.indep_vars) < MaxIndepVars
  /\ SetFunction([qf EXCEPT !.indep_vars =
                    Append(@, FirstFieldRef(lexicon[1].verticalId))])

updateQFIndepVarVertical(index, vert) ==
  SetFunction([qf EXCEPT !.indep_vars[index] = FirstFieldRef(vert)])

updateQFIndepVarColumn(index, column) ==
  SetFunction([qf EXCEPT !.indep_vars[index].column = column])

(***************************************************************************)
(* getQueryFunctionDisplay: the controls rendered for the current shape.  *)
(* A checkbox reports the negation of its state; the value input reports  *)
(* a string.                                                               *)
(***************************************************************************)
\* the value input shows qf.value ? qf.value : '' (0 is falsy)
ShownValue == IF NumberOf(qf.value) = 0 /\ qf.value # Str("0") THEN "" ELSE qf.value.v

RefChanges(ref, SetVert(_), SetCol(_)) ==
  \/ \E v \in SelectChanges(LexiconIds, ref.vertical) : SetVert(v)
  \/ \E c \in SelectChanges(getColsForVertical(ref.vertical), ref.column) : SetCol(c)

Next ==
  \/ \E t \in SelectChanges(FunctionTypes, qf.type) : setQueryFuncType(t)
  \/ Has("col") /\ RefChanges(qf.col, updateQFColVertical, updateQFColColumn)
  \/ Has("is_percentile") /\ updateQFGenericValue("is_percentile", ~qf.is_percentile)
  \/ Has("lowest_first") /\ updateQFGenericValue("lowest_first", ~qf.lowest_first)
  \/ Has("value") /\ \E s \in NumberInputs \ {ShownValue} :
       updateQFGenericValue("value", Str(s))
  \/ Has("momentType") /\ \E m \in SelectChanges(MomentTypes, qf.momentType) :
       updateQFGenericValue("momentType", m)
  \/ Has("dep_var") /\ RefChanges(qf.dep_var, updateQFDepVarVertical,
                                  updateQFDepVarColumn)
  \/ Has("indep_vars") /\ addIndependentVar
  \/ Has("indep_vars") /\ \E i \in DOMAIN qf.indep_vars :
       RefChanges(qf.indep_vars[i],
                  LAMBDA v : updateQFIndepVarVertical(i, v),
                  LAMBDA c : updateQFIndepVarColumn(i, c))

Init ==
  /\ lexicon = Lexicon
  /\ fields = ParseLexicon(Lexicon)
  /\ verticals = <<>>
  /\ query = [EmptyQuery EXCEPT !.queryFunction = getInitialQueryFunctOrder]

Spec == Init /\ [][Next]_vars

(***************************************************************************)
(* Properties                                                              *)
(***************************************************************************)
\* the fields each function type carries
ShapeOf(type) ==
  CASE type = "OrderFunction" ->
         {"type", "col", "is_percentile", "lowest_first", "value"}
    [] type = "MomentFunction" -> {"type", "col", "momentType"}
    [] OTHER -> {"type", "dep_var", "indep_vars"}

FunctionRefs ==
  (IF Has("col") THEN {qf.col} ELSE {})
  \cup (IF Has("dep_var") THEN {qf.dep_var} ELSE {})
  \cup (IF Has("indep_vars") THEN ToSet(qf.indep_vars) ELSE {})

TypeOK ==
  /\ qf.type \in ToSet(FunctionTypes)
  /\ \A ref \in FunctionRefs : ref \in [vertical : VerticalIds, column : STRING]

(* The function object carries exactly the fields of its type, so the    *)
(* editor never offers, and the JSON never holds, a field of another      *)
(* variant (the spec's WrongVariant case).                                 *)
VariantShape == DOMAIN qf = ShapeOf(qf.type)

(* Every column the function names is a field of the vertical it names:  *)
(* the target, the dependent and each independent variable, through type *)
(* changes, vertical changes and column changes.                          *)
FunctionRefsValid == \A ref \in FunctionRefs : ValidRef(ref)
=============================================================================
