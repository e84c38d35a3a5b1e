--------------------------- MODULE MC_QueryEditors ---------------------------
(***************************************************************************)
(* The join editor and the query-function editor of AnalystView acting on  *)
(* one query from the loaded sample lexicon: any interleaving of their     *)
(* handlers.  Both editors start from the state the [lexicon] effect       *)
(* leaves, so JB!Init and QF!Init are the same state.                      *)
(***************************************************************************)
EXTENDS QueryDefs, Renderer, Lexicons

CONSTANTS MaxJoins, JoinTypes, MaxIndepVars, MomentTypes, NumberInputs

JB == INSTANCE JoinBuilder
QF == INSTANCE QueryFunctionBuilder

\* one option of the join type and of the moment type <select>
MCJoinTypes == <<"INNER">>
MCMomentTypes == <<"COUNT">>

EditorsSpec == JB!Init /\ QF!Init /\ [][JB!Next \/ QF!Next]_vars

\* The properties of the two editors, checked on the shared query.
TypeOK == JB!TypeOK /\ QF!TypeOK
JoinRefsValid == JB!JoinRefsValid
VariantShape == QF!VariantShape
FunctionRefsValid == QF!FunctionRefsValid
=============================================================================
