\* Three wrappers of two COM objects, of which one is the hosted control.
CONSTANTS
  Wrappers = {s1, s2, s3}
  Controls = {main, other}
  Main = main
  NoControl = null
  Borrowing = TRUE
  MaxKept = 1
SPECIFICATION Spec
SYMMETRY Symmetric
INVARIANTS
  ReferencesAccounted
  FaultsExplained
\* An instance that has ended and released everything does nothing more.
CHECK_DEADLOCK FALSE
