CONSTANTS
  Pagers = {"block", "invoice"}
  Reset = {"block"}
  PageCounts = {0, 3, 5, 7, 8, 10}
SPECIFICATION Spec
INVARIANT
  StartPageAtLeastOne
