\* Two instances, one of them with two windows, under fair scheduling, and a
\* browser that defers NPP_Destroy and clears windows.
CONSTANTS
  i1 = i1
  i2 = i2
  w1 = w1
  w2 = w2
  w3 = w3
  Instances = {i1, i2}
  Windows = {w1, w2, w3}
  WindowsOf <- WindowSets
  NoWindow = NoWindow
  MaxDepth = 3
  DeferDestroy = TRUE
  ClearWindowFirst = TRUE
SPECIFICATION FairSpec
INVARIANTS
  NoFault
PROPERTIES
  StartingEnds
  ThreadReturns
  DestroyReleasesSite
\* Instances have one life each: when all have ended the thread is idle.
CHECK_DEADLOCK FALSE
