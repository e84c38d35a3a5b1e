------------------------------ MODULE QueryDefs ------------------------------
(***************************************************************************)
(* State and helpers shared by the analyst query builder of               *)
(* src/analyst-ui/react/src/components/analystView/AnalystView.js.         *)
(*                                                                         *)
(* The React component keeps its state in useState hooks: the lexicon,     *)
(* the parsed field lists, the vertical chosen for each prefilter slot     *)
(* and the query document.  Each handler reads them, builds the next      *)
(* value (mutating nested arrays in place) and calls the setters; one      *)
(* handler runs to completion before React renders again, so a handler   *)
(* is one atomic step over these four variables.                           *)
(*                                                                         *)
(* Indices: JavaScript arrays are 0-based, TLA+ sequences 1-based; slot i  *)
(* of the code is position i+1 here, and fields[i] of the code (keyed by  *)
(* lexicon position) is fields[i+1].                                       *)
(***************************************************************************)
EXTENDS Integers, Sequences, SequencesExt, FiniteSets

CONSTANTS
  Undefined,   \* the JavaScript value undefined
  Null,        \* the JavaScript value null
  Lexicon      \* the lexicon getLexicon delivers (Api.js)

VARIABLES
  lexicon,     \* sequence of [verticalId, columns], [] until it is fetched
  fields,      \* per lexicon position, the selectable field names
  verticals,   \* per prefilter slot, the vertical chosen for it
  query        \* [preFilters, joins, postFilters, queryFunction]

vars == <<lexicon, fields, verticals, query>>

(***************************************************************************)
(* JavaScript values that the document holds.  A number typed into an     *)
(* <input type="number"> arrives as e.currentTarget.value, a string; the   *)
(* defaults the code writes are numbers.  Both are records holding the    *)
(* decimal text, tagged with the JavaScript type, so TLC can compare them. *)
(***************************************************************************)
Num(text) == [t |-> "num", v |-> text]
Str(text) == [t |-> "str", v |-> text]

(* Number(x) for the texts the models use; "" converts to 0.               *)
NumberOf(x) ==
  CASE x.v = "" -> 0 [] x.v = "0" -> 0 [] x.v = "1" -> 1 [] x.v = "2" -> 2
    [] x.v = "-1" -> -1 [] x.v = "-2" -> -2

(***************************************************************************)
(* parseLexicon: the fields of one vertical.  A non-categorical column is *)
(* a field under its own name; a categorical column contributes its group *)
(* name, once (indexOf over the fields collected so far).                  *)
(***************************************************************************)
ParseColumns(cols) ==
  LET step(acc, c) ==
        IF c.type = "categorical"
        THEN IF Contains(acc, c.categorical) THEN acc
             ELSE Append(acc, c.categorical)
        ELSE Append(acc, c.name)
  IN  FoldLeft(step, <<>>, cols)

ParseLexicon(lex) == [i \in 1..Len(lex) |-> ParseColumns(lex[i].columns)]

LexiconIds == [i \in 1..Len(lexicon) |-> lexicon[i].verticalId]

VerticalIds == ToSet(LexiconIds)

\* verticals[i], or undefined past the end of the array
VerticalAt(i) == IF i \in DOMAIN verticals THEN verticals[i] ELSE Undefined

(***************************************************************************)
(* getColsForVertical: fields of the vertical, found by lexicon position  *)
(* (findIndex, so the first vertical with that id).                        *)
(***************************************************************************)
LexIndex(vert) == CHOOSE i \in 1..Len(lexicon) :
                    /\ lexicon[i].verticalId = vert
                    /\ \A j \in 1..(i-1) : lexicon[j].verticalId # vert

getColsForVertical(vert) == fields[LexIndex(vert)]

(***************************************************************************)
(* The values a controlled <select> can report through onChange: any     *)
(* option other than the one shown.  When the bound value matches no      *)
(* option React shows the first one, so choosing it fires no change.      *)
(***************************************************************************)
SelectChanges(options, current) ==
  IF Contains(options, current)
  THEN ToSet(options) \ {current}
  ELSE ToSet(options) \ {options[1]}

(***************************************************************************)
(* The minimal filter nodes (setEmpty* helpers).  The new term's column   *)
(* is always the name of the first column of the first lexicon vertical,  *)
(* whatever vertical the term is for.                                      *)
(***************************************************************************)
setEmptyMultnomialValue(vert) ==
  [col |-> [vertical |-> vert, column |-> lexicon[1].columns[1].name],
   exp |-> Num("1")]

setEmptyMultiNomial(vert) ==
  [coefficient |-> Num("1"), values |-> <<setEmptyMultnomialValue(vert)>>]

setEmptyAnd(vert) ==
  [left |-> <<setEmptyMultiNomial(vert)>>, right |-> Num("1"), comp |-> "="]

setEmptyOr(vert) == <<setEmptyAnd(vert)>>

setEmptyVert(vert) == <<setEmptyOr(vert)>>

(***************************************************************************)
(* The default query functions.  Before the lexicon arrives the Order     *)
(* default is the empty array [] (NoFunction).                             *)
(***************************************************************************)
NoFunction == <<>>

FirstColumnRefOf(lex) ==
  [vertical |-> lex[1].verticalId, column |-> lex[1].columns[1].name]

FirstColumnRef == FirstColumnRefOf(lexicon)

\* getInitialQueryFunctOrder evaluated against the lexicon lex
InitialOrderFor(lex) ==
  IF Len(lex) > 0
  THEN [type |-> "OrderFunction", col |-> FirstColumnRefOf(lex),
        is_percentile |-> TRUE, lowest_first |-> FALSE, value |-> Num("0")]
  ELSE NoFunction

getInitialQueryFunctOrder == InitialOrderFor(lexicon)

getInitialQueryFunctMoment ==
  [type |-> "MomentFunction", col |-> FirstColumnRef, momentType |-> "COUNT"]

getInitialQueryFunctLinAndTest(type) ==
  [type |-> type, dep_var |-> FirstColumnRef, indep_vars |-> <<>>]

EmptyQuery ==
  [preFilters |-> <<>>, joins |-> <<>>, postFilters |-> <<>>,
   queryFunction |-> NoFunction]

(***************************************************************************)
(* Addresses <<pf, or, and, mn, val>> of every term of the prefilters.     *)
(***************************************************************************)
TermPaths ==
  LET pf == query.preFilters IN
  UNION { UNION { UNION { UNION {
    { <<p, o, a, m, t>> : t \in DOMAIN pf[p][o][a].left[m].values } :
        m \in DOMAIN pf[p][o][a].left } :
        a \in DOMAIN pf[p][o] } :
        o \in DOMAIN pf[p] } :
        p \in DOMAIN pf }

TermAt(path) ==
  query.preFilters[path[1]][path[2]][path[3]].left[path[4]].values[path[5]]

(***************************************************************************)
(* A column reference is valid when its vertical is in the lexicon and    *)
(* its column is one of that vertical's fields.                            *)
(***************************************************************************)
ValidRef(ref) ==
  /\ ref.vertical \in VerticalIds
  /\ Contains(getColsForVertical(ref.vertical), ref.column)
=============================================================================
