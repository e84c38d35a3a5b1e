---------------------------- MODULE QueryDocument ----------------------------
(***************************************************************************)
(* The whole AnalystView component: the lexicon fetch, the Clear button   *)
(* and the three editors acting on one query document.  Before the        *)
(* lexicon arrives the join button and the function type <select> are    *)
(* already rendered; their handlers then dereference lexicon[0] or        *)
(* fields[0] and throw.  An exception thrown by an event handler leaves   *)
(* the state as it was (the throw happens before any mutation) and is     *)
(* recorded in threw.                                                      *)
(***************************************************************************)
EXTENDS QueryDefs

CONSTANTS
  MaxTerms, Comparators, NumberInputs,    \* see PreFilterBuilder
  MaxJoins, JoinTypes,                    \* see JoinBuilder
  MaxIndepVars, MomentTypes               \* see QueryFunctionBuilder

ASSUME Len(Lexicon) >= 1

VARIABLE
  threw        \* some event handler has thrown an uncaught exception

docVars == <<lexicon, fields, verticals, query, threw>>

PF == INSTANCE PreFilterBuilder
JB == INSTANCE JoinBuilder
QF == INSTANCE QueryFunctionBuilder

(***************************************************************************)
(* Mutants.                                                                *)
(***************************************************************************)
\* the effect that sets the initial function does not run on the new lexicon
lexiconLoadedNoFunction ==
  /\ lexicon = <<>>
  /\ lexicon' = Lexicon
  /\ fields' = ParseLexicon(Lexicon)
  /\ UNCHANGED <<verticals, query, threw>>

\* the lexicon arrives but parseLexicon is not run on it
lexiconLoadedUnparsed ==
  /\ lexicon = <<>>
  /\ lexicon' = Lexicon
  /\ query' = [query EXCEPT !.queryFunction = InitialOrderFor(Lexicon)]
  /\ UNCHANGED <<fields, verticals, threw>>

\* Api.js getLexicon: setLexicon(sampleData.lexicon); the catch only logs,
\* and a state setter does not throw
getLexicon == Lexicon

(***************************************************************************)
(* getLexicon(setLexicon) runs in the mount effect; the change of lexicon *)
(* triggers the second effect, parseLexicon and setInitialQueryFunction,  *)
(* which replaces only queryFunction.  React runs that effect before the  *)
(* next event's update is rendered, so both are one step.                  *)
(***************************************************************************)
lexiconLoaded ==
  /\ lexicon = <<>>
  /\ lexicon' = getLexicon
  /\ fields' = ParseLexicon(getLexicon)
  /\ query' = [query EXCEPT !.queryFunction = InitialOrderFor(getLexicon)]
  /\ UNCHANGED <<verticals, threw>>

clearRules ==
  /\ verticals' = <<>>
  /\ query' = [EmptyQuery EXCEPT !.queryFunction = getInitialQueryFunctOrder]
  /\ UNCHANGED <<lexicon, fields, threw>>

\* addJoin reads lexicon[1].verticalId and fields[1][0] before pushing
addJoinThrows ==
  /\ ~JB!addJoinSucceeds
  /\ threw' = TRUE
  /\ UNCHANGED vars

(***************************************************************************)
(* Before the lexicon arrives the function is [] and the <select> has no  *)
(* value, so it shows its first option (Order); choosing another type    *)
(* calls getInitialQueryFunctMoment or getInitialQueryFunctLinAndTest,    *)
(* which read lexicon[0].verticalId.                                       *)
(***************************************************************************)
setQueryFuncTypeThrows(ftype) ==
  /\ query.queryFunction = NoFunction
  /\ Len(lexicon) = 0
  /\ ftype # "OrderFunction"
  /\ threw' = TRUE
  /\ UNCHANGED vars

Next ==
  \/ lexiconLoaded
  \/ clearRules
  \/ addJoinThrows
  \/ \E t \in ToSet(QF!FunctionTypes) : setQueryFuncTypeThrows(t)
  \/ PF!Next /\ UNCHANGED threw
  \/ JB!Next /\ UNCHANGED threw
  \/ query.queryFunction # NoFunction /\ QF!Next /\ UNCHANGED threw

Init ==
  /\ lexicon = <<>>
  /\ fields = <<>>
  /\ verticals = <<>>
  /\ query = EmptyQuery
  /\ threw = FALSE

\* the fetch started on mount completes
Spec == Init /\ [][Next]_docVars /\ WF_docVars(lexiconLoaded)

(***************************************************************************)
(* Properties                                                              *)
(***************************************************************************)
(* Rendering never dereferences a missing field list: every prefilter     *)
(* slot has fields at its position (getMultiNomialValueDisplay spreads    *)
(* fields[pfIndex]) and every vertical a join or the function names is   *)
(* found in the parsed lexicon (getColsForVertical), before and after the *)
(* lexicon arrives and across Clear.  A render that throws unmounts the  *)
(* whole application.                                                      *)
RenderTotal ==
  /\ \A p \in DOMAIN query.preFilters : p \in DOMAIN fields
  /\ \A ref \in JB!JoinOperandRefs \cup
                (IF query.queryFunction = NoFunction THEN {} ELSE QF!FunctionRefs) :
       /\ ref.vertical \in VerticalIds
       /\ LexIndex(ref.vertical) \in DOMAIN fields

(* Once the lexicon has been fetched the function editor eventually holds *)
(* a function for good: the second effect runs on the new lexicon, and    *)
(* Clear afterwards rebuilds the Order default from it.                    *)
FunctionEventuallySet == <>[](query.queryFunction # NoFunction)

(* The spec: builder operations return errors (LexiconUnavailable,       *)
(* InsufficientVerticals) and never throw.                                 *)
NoUncaughtException == ~threw
=============================================================================
