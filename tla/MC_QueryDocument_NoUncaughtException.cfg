CONSTANTS
  Undefined = Undefined
  Null = Null
  Lexicon <- SampleLexicon
  MaxTerms = 1
  Comparators = {"="}
  NumberInputs = {}
  MaxJoins = 1
  JoinTypes <- MCJoinTypes
  MaxIndepVars = 1
  MomentTypes <- MCMomentTypes
SPECIFICATION Spec
INVARIANT
  NoUncaughtException
