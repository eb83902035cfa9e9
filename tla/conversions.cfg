\* Every array of up to three dimensions with up to two elements in each; words
\* of four bits, texts of up to three characters, lists of up to three values.
CONSTANTS
  Arrays <- ArraySet
  Half = 8
  MaxText = 3
  MaxArray = 3
SPECIFICATION Conversions
INVARIANTS
  ConvertedMatches
  FailedConversionLeavesNothing
  LosslessReturns
  FirstArrivalSettles
\* A conversion ends.
CHECK_DEADLOCK FALSE
