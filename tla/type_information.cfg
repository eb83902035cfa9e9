\* Four type informations, two ids.
CONSTANTS
  Infos = {1, 2, 3, 4}
  Class = 1
  Dispatch = 2
  Libraries <- AllLibraries
  Ids = {1, 2}
  NoInfo = noInfo
  NoMember = noMember
SPECIFICATION Spec
INVARIANTS
  MembersResolve
  AttributesBalanced
  SinkKnowsEvents
\* A control may fail to be created.
CHECK_DEADLOCK FALSE
