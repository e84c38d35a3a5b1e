CONSTANTS
  Undefined = Undefined
  Null = Null
  Lexicon <- SampleLexicon
  MaxTerms = 2
  Comparators = {"="}
  NumberInputs = {"0", "-1"}
SPECIFICATION Spec
INVARIANTS
  TypeOK
  AlignedAssignment
  TermsScopedToSlot
  RenderedSumFaithful
  FactorSeparators
PROPERTIES
  AssignmentRefinement
