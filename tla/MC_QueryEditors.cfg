CONSTANTS
  Undefined = Undefined
  Null = Null
  Lexicon <- SampleLexicon
  MaxJoins = 2
  JoinTypes <- MCJoinTypes
  MaxIndepVars = 2
  MomentTypes <- MCMomentTypes
  NumberInputs = {"2"}
SPECIFICATION EditorsSpec
INVARIANTS
  TypeOK
  JoinRefsValid
  VariantShape
  FunctionRefsValid
  ShortDisplayFaithful
