\* One array, one object of the page, three elements.
CONSTANTS
  Objects = {o1}
  Method = m
  Names = {a}
  Indices <- IndexSet
  Lengths <- LengthSet
  MaxRefs = 2
  LengthBound = 2
SPECIFICATION Spec
INVARIANTS
  ObjectsRetained
  LengthCountsElements
PROPERTIES
  EndedMethodIsQuiet
\* A freed array whose methods are gone does nothing more.
CHECK_DEADLOCK FALSE
