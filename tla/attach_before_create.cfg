\* One instance; a comment of the code says AttachFollowsCreate.
CONSTANTS
  i1 = i1
  i2 = i2
  w1 = w1
  w2 = w2
  w3 = w3
  Instances = {i1}
  Windows = {w1, w2}
  WindowsOf <- WindowSets
  NoWindow = NoWindow
  MaxDepth = 2
  DeferDestroy = TRUE
  ClearWindowFirst = FALSE
SPECIFICATION Spec
INVARIANT
  AttachFollowsCreate
\* An instance has one life: when it has ended the thread is idle.
CHECK_DEADLOCK FALSE
