CONSTANTS
  Undefined = Undefined
  Null = Null
  Lexicon <- SampleLexicon
  MaxTerms = 2
  Comparators = {"=", "<"}
  NumberInputs = {"2"}
SPECIFICATION Spec
INVARIANTS
  PrefilterColumnsValid
