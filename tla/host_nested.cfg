\* Two instances nested in each other's calls, one of them with two windows.
CONSTANTS
  i1 = i1
  i2 = i2
  w1 = w1
  w2 = w2
  w3 = w3
  Instances = {i1, i2}
  Windows = {w1, w2, w3}
  WindowsOf <- WindowSets
  NoWindow = NoWindow
  MaxDepth = 3
  DeferDestroy = FALSE
  ClearWindowFirst = FALSE
SPECIFICATION Spec
SYMMETRY Symmetric
INVARIANTS
  TypeOK
  LiveInstanceIsWhole
  AdviseBalanced
  DownloadHoldsSite
  NothingLeaks
  FaultsExplained
  DeletedHostLeavesWindows
PROPERTIES
  ImplementsLifecycle
\* Instances have one life each: when all have ended the thread is idle.
CHECK_DEADLOCK FALSE
