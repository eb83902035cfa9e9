\* Five versions in words of two values, six kinds of objects.
CONSTANTS
  Word = 2
  Versions <- VersionSet
  NoVersion = noVersion
  NoCodebase = noCodebase
  Objects <- ObjectSet
  NoObject = noObject
  EarlyStop = TRUE
SPECIFICATION Spec
INVARIANTS
  UnmarkedIsAsked
  ResultMatchesObject
  UpdateIffNewer
PROPERTIES
  CreateReturns
\* Create returns once.
CHECK_DEADLOCK FALSE
