CONSTANTS
  Texts = {"", "org", "col"}
  InitForm <- MCInitForm
  MaxPeers = 2
  MaxVerticals = 1
  MaxColumns = 1
  MaxInFlight = 2
  Studies <- MCStudies
SPECIFICATION Spec
CHECK_DEADLOCK FALSE
INVARIANT
  UnsavedChangesWarned
