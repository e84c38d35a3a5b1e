------------------------------- MODULE Renderer -------------------------------
(***************************************************************************)
(* The short query display of AnalystView.js (getQueryShortDisplay and    *)
(* its helpers) as the sequence of tokens it prints for one AND           *)
(* constraint: the signed sum of multinomials, the comparator and the     *)
(* right side.  Whitespace and the WHERE / OR / AND layout are left out.  *)
(***************************************************************************)
EXTENDS QueryDefs

\* Math.abs(x) as text, for the texts the models use
AbsText(x) ==
  CASE NumberOf(x) = -1 -> "1" [] NumberOf(x) = -2 -> "2"
    [] NumberOf(x) = 0 -> "0" [] OTHER -> x.v

\* val.exp !== 1 and left.coefficient !== 1 are strict: only the number 1
IsNumberOne(x) == x = Num("1")

Opt(cond, toks) == IF cond THEN toks ELSE <<>>

(***************************************************************************)
(* Mutants: a separator before every factor, and the magnitude printed    *)
(* without Math.abs.                                                       *)
(***************************************************************************)
FactorTokensEverySeparator(values, m) ==
  LET val == values[m] IN
  Opt(m - 1 >= 0, <<"*">>)
  \o <<val.col.column>>
  \o Opt(~IsNumberOne(val.exp), <<"^", val.exp.v>>)
  \o Opt(Len(values) <= m - 1, <<"*">>)

(***************************************************************************)
(* One factor; m is the 1-based position, so the code's index is m-1.     *)
(***************************************************************************)
FactorTokens(values, m) ==
  LET val == values[m] IN
  Opt(m - 1 > 0, <<"*">>)
  \o <<val.col.column>>
  \o Opt(~IsNumberOne(val.exp), <<"^", val.exp.v>>)
  \o Opt(Len(values) <= m - 1, <<"*">>)

MultinomialTokensNoAbs(left, l) ==
  LET c == left[l].coefficient IN
  Opt(NumberOf(c) >= 0 /\ l - 1 > 0, <<"+">>)
  \o Opt(NumberOf(c) < 0, <<"-">>)
  \o Opt(~IsNumberOne(c), <<c.v, "*">>)
  \o <<"(">>
  \o FoldLeft(LAMBDA acc, m : acc \o FactorTokens(left[l].values, m), <<>>,
              [m \in 1..Len(left[l].values) |-> m])
  \o <<")">>

\* One multinomial of the sum; l is its 1-based position.
MultinomialTokens(left, l) ==
  LET c == left[l].coefficient IN
  Opt(NumberOf(c) >= 0 /\ l - 1 > 0, <<"+">>)
  \o Opt(NumberOf(c) < 0, <<"-">>)
  \o Opt(~IsNumberOne(c), <<AbsText(c), "*">>)
  \o <<"(">>
  \o FoldLeft(LAMBDA acc, m : acc \o FactorTokens(left[l].values, m), <<>>,
              [m \in 1..Len(left[l].values) |-> m])
  \o <<")">>

getQueryShortDisplayMultinomial(mn) ==
  FoldLeft(LAMBDA acc, l : acc \o MultinomialTokens(mn.left, l), <<>>,
           [l \in 1..Len(mn.left) |-> l])
  \o <<mn.comp, mn.right.v>>

ProductTokens(values) ==
  FoldLeft(LAMBDA acc, m : acc \o FactorTokens(values, m), <<>>,
           [m \in 1..Len(values) |-> m])

\* every AND constraint of the prefilters
Constraints ==
  LET pf == query.preFilters IN
  UNION { UNION { { pf[p][o][a] : a \in DOMAIN pf[p][o] } : o \in DOMAIN pf[p] } :
          p \in DOMAIN pf }

\* one token per element of s, each rendered by F, concatenated
Concat(s, F(_)) == FoldLeft(LAMBDA acc, x : acc \o F(x), <<>>, s)

\* the positions 1..Len(s), as a sequence
Positions(s) == [i \in 1..Len(s) |-> i]

\* JSX text of a boolean expression cond ? "true" : "false"
BoolText(b) == IF b THEN "true" ELSE "false"

\* {verticals[i]} renders nothing for an index past the assignment
SlotHeader(i) == IF i \in DOMAIN verticals THEN <<verticals[i]>> ELSE <<>>

(***************************************************************************)
(* getQueryShortDisplayAnd: one OR clause in parentheses, its constraints *)
(* separated by AND; j is the clause's 1-based position.                   *)
(***************************************************************************)
getQueryShortDisplayAnd(andObj, j) ==
  Opt(j - 1 > 0, <<"OR">>) \o <<"(">>
  \o Concat(Positions(andObj),
            LAMBDA k : Opt(k - 1 > 0, <<"AND">>)
                       \o getQueryShortDisplayMultinomial(andObj[k]))
  \o <<")">>

\* getQueryShortDisplayJoin: only the first join condition is printed
getQueryShortDisplayJoin(joinObj) ==
  <<joinObj.type, "JOIN",
    joinObj.joinOns[1].first.col.vertical, ".", joinObj.joinOns[1].first.col.column,
    "=", joinObj.joinOns[1].second.col.vertical, ".",
    joinObj.joinOns[1].second.col.column>>

(***************************************************************************)
(* getQueryShortDisplayFunction.  Each field is printed when present:     *)
(* col, dep_var and momentType by truthiness (an object, a non-empty      *)
(* option), the two flags and value by !== undefined, so false and 0     *)
(* still print.  The array [] held before the lexicon loads prints        *)
(* nothing: [].type and every [].key are undefined.                       *)
(***************************************************************************)
RefTokens(ref) == <<ref.vertical, ref.column>>

\* mutant: value tested by truthiness, as col and dep_var are
getQueryShortDisplayFunctionValueTruthy(f) ==
  LET has(k) == k \in DOMAIN f IN
  Opt(has("type"), <<f.type>>)
  \o Opt(has("col"), RefTokens(f.col))
  \o Opt(has("is_percentile"), <<"is_percentile=", BoolText(f.is_percentile)>>)
  \o Opt(has("lowest_first"), <<"lowest_first=", BoolText(f.lowest_first)>>)
  \o Opt(has("value") /\ IF f.value.t = "num" THEN NumberOf(f.value) # 0
                                              ELSE f.value.v # "",
         <<"value=", f.value.v>>)
  \o Opt(has("momentType") /\ f.momentType # "", <<f.momentType>>)
  \o Opt(has("dep_var"), RefTokens(f.dep_var))
  \o Opt(has("indep_vars"),
         <<"Independent Variables:">> \o Concat(f.indep_vars, RefTokens))

getQueryShortDisplayFunction(f) ==
  LET has(k) == k \in DOMAIN f IN
  Opt(has("type"), <<f.type>>)
  \o Opt(has("col"), RefTokens(f.col))
  \o Opt(has("is_percentile"), <<"is_percentile=", BoolText(f.is_percentile)>>)
  \o Opt(has("lowest_first"), <<"lowest_first=", BoolText(f.lowest_first)>>)
  \o Opt(has("value"), <<"value=", f.value.v>>)
  \o Opt(has("momentType") /\ f.momentType # "", <<f.momentType>>)
  \o Opt(has("dep_var"), RefTokens(f.dep_var))
  \o Opt(has("indep_vars"),
         <<"Independent Variables:">> \o Concat(f.indep_vars, RefTokens))

(***************************************************************************)
(* getQueryShortDisplay: WHERE, each slot headed by its vertical with its *)
(* OR clauses in parentheses, then the joins, then the function.          *)
(***************************************************************************)
getQueryShortDisplay ==
  <<"WHERE">>
  \o Concat(Positions(query.preFilters),
            LAMBDA i : SlotHeader(i) \o <<"(">>
                       \o Concat(Positions(query.preFilters[i]),
                                 LAMBDA j : getQueryShortDisplayAnd(query.preFilters[i][j], j))
                       \o <<")">>)
  \o Concat(query.joins, getQueryShortDisplayJoin)
  \o getQueryShortDisplayFunction(query.queryFunction)

(***************************************************************************)
(* The rendering spec.md 4.5 gives for the joins and the function: each   *)
(* join as KIND JOIN verticalA.fieldA = verticalB.fieldB, then the kind  *)
(* tag and the fields the variant carries, in the fixed order target,    *)
(* isPercentile, lowestFirst, value, momentKind, dependent, independents. *)
(***************************************************************************)
SpecFieldOrder ==
  <<"col", "is_percentile", "lowest_first", "value", "momentType", "dep_var",
    "indep_vars">>

SpecFieldTokens(f, k) ==
  CASE k \in {"col", "dep_var"} -> RefTokens(f[k])
    [] k \in {"is_percentile", "lowest_first"} -> <<k \o "=", BoolText(f[k])>>
    [] k = "value" -> <<"value=", f.value.v>>
    [] k = "momentType" -> <<f.momentType>>
    [] k = "indep_vars" -> <<"Independent Variables:">> \o Concat(f[k], RefTokens)

SpecJoinTokens(j) ==
  LET on == j.joinOns[1] IN
  <<j.type, "JOIN", on.first.col.vertical, ".", on.first.col.column, "=",
    on.second.col.vertical, ".", on.second.col.column>>

SpecJoinsAndFunction(q) ==
  Concat(q.joins, SpecJoinTokens)
  \o (IF "type" \in DOMAIN q.queryFunction
      THEN <<q.queryFunction.type>>
           \o Concat(SelectSeq(SpecFieldOrder, LAMBDA k : k \in DOMAIN q.queryFunction),
                     LAMBDA k : SpecFieldTokens(q.queryFunction, k))
      ELSE <<>>)

CountOf(s, x) == Cardinality({i \in DOMAIN s : s[i] = x})

(***************************************************************************)
(* Properties                                                              *)
(***************************************************************************)

(* Read back, the display of every multinomial gives its coefficient as   *)
(* the document holds it, whatever the input delivered ("", "0", "-1"):   *)
(* a multinomial after the first carries exactly one sign, the first     *)
(* carries none or "-", and the sign times the printed magnitude (1 when *)
(* omitted) is Number(coefficient).  The sign and magnitude come from     *)
(* JavaScript comparisons of a string with a number.                       *)
RenderedSumFaithful ==
  \A mn \in Constraints : \A l \in DOMAIN mn.left :
    LET toks == MultinomialTokens(mn.left, l)
        lead == IF toks[1] \in {"+", "-"} THEN toks[1] ELSE "none"
        rest == IF lead = "none" THEN toks ELSE Tail(toks)
        mag  == IF rest[1] = "(" THEN 1 ELSE NumberOf(Str(rest[1]))
    IN  /\ l > 1 => lead # "none"
        /\ l = 1 => lead # "+"
        /\ rest[1] \notin {"+", "-"}
        /\ (IF lead = "-" THEN -mag ELSE mag) = NumberOf(mn.left[l].coefficient)

(* Inside the parentheses of a multinomial a "*" is printed only between  *)
(* two factors (the extra "*" guarded by values.length <= m never shows). *)
FactorSeparators ==
  \A mn \in Constraints : \A l \in DOMAIN mn.left :
    LET toks == ProductTokens(mn.left[l].values) IN
    /\ CountOf(toks, "*") = Len(mn.left[l].values) - 1
    /\ toks[1] # "*"
    /\ toks[Len(toks)] # "*"

(* The display ends with the joins and the function exactly as spec.md    *)
(* 4.5 renders them, for every document the editors reach: each join's    *)
(* operands in order and every field of the current variant, including a *)
(* false flag and a value of 0, and nothing before the lexicon loads.      *)
ShortDisplayFaithful ==
  LET d == getQueryShortDisplay
      spec == SpecJoinsAndFunction(query)
  IN  /\ Len(d) >= Len(spec)
      /\ SubSeq(d, Len(d) - Len(spec) + 1, Len(d)) = spec
=============================================================================
