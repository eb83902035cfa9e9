\* Three arguments with three names, of which two differ in case only.
CONSTANTS
  Names <- NameSet
  Fold <- FoldCase
  Values = {v1, v2}
  Empty = empty
  GrowBy = 2
  MaxArguments = 3
SPECIFICATION Spec
INVARIANTS
  InsideAllocation
  LastHandlerCounts
  ControlReadsParameters
\* Once the control is attached its parameters stay as they are.
CHECK_DEADLOCK FALSE
