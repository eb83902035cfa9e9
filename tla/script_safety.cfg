\* Five versions in words of two values, six kinds of objects.
CONSTANTS
  Word = 2
  Versions <- VersionSet
  NoVersion = noVersion
  NoCodebase = noCodebase
  Objects <- ObjectSet
  NoObject = noObject
  EarlyStop = TRUE
SPECIFICATION Spec
INVARIANTS
  HostedIsScriptSafe
CHECK_DEADLOCK FALSE
