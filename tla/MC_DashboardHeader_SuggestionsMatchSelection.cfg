CONSTANTS
  Kinds = {"organization", "session"}
  MaxDrafts = 2
  MaxPending = 3
SPECIFICATION Spec
CHECK_DEADLOCK FALSE
INVARIANT
  SuggestionsMatchSelection
