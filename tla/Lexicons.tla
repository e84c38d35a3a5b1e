------------------------------ MODULE Lexicons ------------------------------
(***************************************************************************)
(* Lexicons used to instantiate the query builder models.                  *)
(***************************************************************************)

Col(n, t) == [name |-> n, type |-> t, categorical |-> ""]
Cat(n, g) == [name |-> n, type |-> "categorical", categorical |-> g]

(* src/analyst-ui/react/src/utils/SampleData.js: vertical 1234 with ssn,  *)
(* gpa and the categorical group major (math, history, compsci), vertical *)
(* 2345 with ssn, income and debt.                                         *)
SampleLexicon ==
  << [verticalId |-> "1234",
      columns |-> << Col("ssn", "integer"), Col("gpa", "real"),
                     Cat("math", "major"), Cat("history", "major"),
                     Cat("compsci", "major") >>],
     [verticalId |-> "2345",
      columns |-> << Col("ssn", "integer"), Col("income", "integer"),
                     Col("debt", "integer") >>] >>

(* A lexicon with a single vertical.                                       *)
SingleVerticalLexicon ==
  << [verticalId |-> "1234",
      columns |-> << Col("ssn", "integer"), Col("gpa", "real") >>] >>
=============================================================================
