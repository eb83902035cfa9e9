\* Up to three arguments; every mask of up to two characters, every trusted
\* location of up to three.
CONSTANTS
  Lower <- LowerCase
  NoKey = noKey
  Arguments <- AllArguments
  Documents <- Pages
  NoAddress = noAddress
  Installations <- InstallationSet
  ClassOf <- TextClass
  ClassIds <- Ids
  NullClass = nullClass
  NoClass = noClass
  KillBitSets <- Killed
  CrackUrl <- Cracked
  NoParse = noParse
  LocalhostName <- Localhost
SPECIFICATION Spec
INVARIANTS
  HostSeesAllowed
  LocationsAreTrusted
  ClassIsVerified
  LastUsableDecides
  DroppedPolicyIsKnown
\* NPP_New goes on with the site.
CHECK_DEADLOCK FALSE
