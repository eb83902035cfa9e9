---------------------------- MODULE ControlChoice ---------------------------
(***************************************************************************)
(* How NPP_New gets from its arguments to a class id, a code base and a    *)
(* security policy.  TestAuthorization (authorize.cpp) goes over all       *)
(* arguments first; then the loop of NPP_New (ffactivex.cpp) passes them   *)
(* to the host, which sets its class id anew for each (axhost.cpp).        *)
(***************************************************************************)
EXTENDS Authorization

CONSTANTS Arguments,            \* lists of arguments: records of a kind, "clsid",
                                \* "progid" or "codebase", and a value
          Documents,            \* the addresses of pages
          NoAddress,            \* the browser does not give the address of the page
          Installations,        \* what a distributor built and the registry says
          ClassOf,              \* the class a text names, a class id or a
                                \* program id; NoClass when it names none
          ClassIds,             \* the texts that are written as class ids
          NullClass, NoClass,   \* CLSID_NULL; no class at all
          KillBitSets,          \* the sets of classes the registry may forbid
          CrackUrl,             \* the scheme and the host of an address, or NoParse
          NoParse,
          LocalhostName

NoUrl == <<>>

Classes == {ClassOf[t] : t \in DOMAIN ClassOf} \ {NoClass, NullClass}

ASSUME ChoiceAssumption ==
  /\ NullClass # NoClass
  /\ \A list \in Arguments :
       /\ list \in Seq([kind : {"clsid", "progid", "codebase"},
                        value : DOMAIN ClassOf \cup DOMAIN CrackUrl])
       /\ \A j \in DOMAIN list : list[j].value \in IF list[j].kind = "codebase"
                                                     THEN DOMAIN CrackUrl
                                                     ELSE DOMAIN ClassOf
  /\ Documents \subseteq DOMAIN CrackUrl \cup {NoAddress}
  /\ DOMAIN ClassOf \cup DOMAIN CrackUrl \subseteq Text
  /\ LocalhostName \in Text
  /\ \A url \in DOMAIN CrackUrl : CrackUrl[url] # NoParse => CrackUrl[url].host \in Text
  /\ \A killed \in KillBitSets : NullClass \notin killed
  /\ \A installation \in Installations :
       /\ \A switch \in {"NO_REGISTRY_AUTHORIZE", "AcceptOnlyWellKnown", "TrustWellKnown",
                         "TrustLocalhost"} : installation[switch] \in BOOLEAN
       /\ installation.registry \in Seq([{"clsid", "progid", "codebase"} -> {NoKey} \cup Key])
       /\ "WellKnown" \in DOMAIN installation
       /\ installation.TrustedLocations \in Seq(Mask \ {<<>>})

VARIABLES arguments,   \* argn and argv
          document,    \* the address of the page
          installation,
          killed,      \* classes with a kill bit
          stage,       \* "authorizing", "choosing", "refused", "invalid" (no valid
                       \* class id) or "created" (CreateControl has been called)
          i,           \* the argument a loop is at
          ret,         \* the verdict of TestAuthorization
          ClsID,       \* CAxHost::ClsID
          isValidClsID, isKnown,
          CodeBaseUrl, \* CAxHost::CodeBaseUrl
          policy       \* the site has a security policy: "none" before the site,
                       \* "kept", or "dropped" by SetSecurityPolicy(NULL)

inputVars == <<arguments, document, installation, killed>>
hostVars == <<ClsID, isValidClsID, isKnown, CodeBaseUrl>>
vars == <<inputVars, stage, i, ret, hostVars, policy>>

TypeOK ==
  /\ arguments \in Arguments
  /\ document \in Documents
  /\ installation \in Installations
  /\ killed \in KillBitSets
  /\ stage \in {"authorizing", "choosing", "refused", "invalid", "created"}
  /\ i \in 1 .. Len(arguments) + 1
  /\ ret \in BOOLEAN
  /\ ClsID \in Classes \cup {NullClass}
  /\ isValidClsID \in BOOLEAN
  /\ isKnown \in BOOLEAN
  /\ CodeBaseUrl \in DOMAIN CrackUrl \cup {NoUrl}
  /\ policy \in {"none", "kept", "dropped"}

Init ==
  /\ arguments \in Arguments
  /\ document \in Documents
  /\ installation \in Installations
  /\ killed \in KillBitSets
  /\ stage = "authorizing"
  /\ i = 1
  /\ ret = TRUE
  /\ ClsID = NullClass
  /\ isValidClsID = FALSE
  /\ isKnown = FALSE
  /\ CodeBaseUrl = NoUrl
  /\ policy = "none"

-----------------------------------------------------------------------------
Argument == arguments[i]

InLoop(s) == stage = s /\ i <= Len(arguments)

\* An entry with a star is looked for anywhere in the host.
MutantEntryMatches(entry, host) ==
  IF Head(entry) = "*"
    THEN \E k \in 0 .. Len(host) : IsPrefix(Tail(entry), SubSeq(host, k + 1, Len(host)))
    ELSE IsPrefix(host, entry)

\* strncmp anchors what follows a star at the end of the host, which must not be
\* shorter than the entry with its star; without a star it compares as many
\* characters as the host has.
EntryMatches(entry, host) ==
  IF Head(entry) = "*"
    THEN Len(host) >= Len(entry) /\ IsSuffix(Tail(entry), host)
    ELSE IsPrefix(host, entry)

\* MatchURL2TrustedLocations: an empty list trusts all.
Matches(url) ==
  LET cracked == CrackUrl[url]
  IN  \/ installation.TrustedLocations = <<>>
      \/ /\ cracked # NoParse
         /\ IF cracked.scheme = "file" \/ IsPrefix(LocalhostName, cracked.host)
              THEN installation.TrustLocalhost
              ELSE \E j \in DOMAIN installation.TrustedLocations :
                     EntryMatches(installation.TrustedLocations[j], cracked.host)

\* VerifySiteLock, in a build with NO_REGISTRY_AUTHORIZE.
VerifySiteLock ==
  /\ stage = "authorizing"
  /\ installation.NO_REGISTRY_AUTHORIZE
  /\ stage' = IF document # NoAddress /\ Matches(document) THEN "choosing" ELSE "refused"
  /\ UNCHANGED <<inputVars, i, ret, hostVars, policy>>

\* One round of TestAuthorization, which has the address of the page.
Authorize ==
  /\ InLoop("authorizing")
  /\ ~installation.NO_REGISTRY_AUTHORIZE
  /\ document # NoAddress
  /\ ret' = (ret /\ TestExplicitAuthorization(installation.registry, Argument.kind,
                                              document, Argument.value))
  /\ i' = i + 1
  /\ UNCHANGED <<inputVars, stage, hostVars, policy>>

\* NPP_New makes a host if all arguments may be used; without the location of
\* the page or its href TestAuthorization is over before its loop.
EndAuthorization ==
  /\ stage = "authorizing"
  /\ ~installation.NO_REGISTRY_AUTHORIZE
  /\ document = NoAddress \/ i = Len(arguments) + 1
  /\ stage' = IF document # NoAddress /\ ret THEN "choosing" ELSE "refused"
  /\ i' = 1
  /\ UNCHANGED <<inputVars, ret, hostVars, policy>>

\* isWellKnownClsId and isWellKnownProgId: only a build without the registry has
\* lists, whose entries are compared as prefixes.
IsWellKnown(name) ==
  installation.NO_REGISTRY_AUTHORIZE =>
    \E j \in DOMAIN installation.WellKnown :
      IsPrefix(Lowered(installation.WellKnown[j]), Lowered(name))

Known == IsWellKnown(Argument.value)

\* CLSIDFromString resolves a program id too, CLSIDFromProgID nothing else.
Named(argument) ==
  IF argument.kind = "progid" /\ argument.value \in ClassIds
    THEN NoClass
    ELSE ClassOf[argument.value]

\* verifyClsID looks a text up among the keys of the registry, which are class ids:
\* for a program id setClsIDFromProgID gives it the id that the program id
\* resolves to, but setClsID gives it what the page wrote.
HasKillBit(argument) ==
  /\ Named(argument) \in killed
  /\ argument.kind = "clsid" => argument.value \in ClassIds

Refused(argument) ==
  \/ installation.AcceptOnlyWellKnown /\ ~IsWellKnown(argument.value)
  \/ HasKillBit(argument)

\* A class id that is valid stays.
MutantSetClsID ==
  /\ InLoop("choosing")
  /\ Argument.kind = "clsid"
  /\ i' = i + 1
  /\ isKnown' = (isKnown \/ Known)
  /\ LET class == Named(Argument)
     IN  IF isValidClsID \/ Refused(Argument) \/ class \in {NoClass, NullClass}
           THEN UNCHANGED <<ClsID, isValidClsID>>
           ELSE ClsID' = class /\ isValidClsID' = TRUE
  /\ UNCHANGED <<inputVars, stage, ret, CodeBaseUrl, policy>>

\* setClsID.  What names no class fails in CLSIDFromString, which may leave
\* CLSID_NULL behind; the null class itself is stored and then refused.
SetClsID ==
  /\ InLoop("choosing")
  /\ Argument.kind = "clsid"
  /\ i' = i + 1
  /\ isKnown' = (isKnown \/ Known)
  /\ LET class == Named(Argument)
     IN  IF Refused(Argument)
           THEN UNCHANGED <<ClsID, isValidClsID>>
           ELSE IF class = NoClass
                  THEN /\ ClsID' \in {ClsID, NullClass}
                       /\ UNCHANGED isValidClsID
                  ELSE /\ ClsID' = class
                       /\ isValidClsID' = (isValidClsID \/ class # NullClass)
  /\ UNCHANGED <<inputVars, stage, ret, CodeBaseUrl, policy>>

\* The class id is stored before it is verified.
MutantSetClsIDFromProgID ==
  /\ InLoop("choosing")
  /\ Argument.kind = "progid"
  /\ i' = i + 1
  /\ LET class == Named(Argument)
     IN  /\ ClsID' = IF class = NoClass THEN ClsID ELSE class
         /\ isValidClsID' = (isValidClsID \/ class \notin killed \cup {NoClass, NullClass})
  /\ UNCHANGED <<inputVars, stage, ret, isKnown, CodeBaseUrl, policy>>

\* setClsIDFromProgID looks at the list of known ones only when no others are
\* accepted.
SetClsIDFromProgID ==
  /\ InLoop("choosing")
  /\ Argument.kind = "progid"
  /\ i' = i + 1
  /\ isKnown' = (isKnown \/ (installation.AcceptOnlyWellKnown /\ Known))
  /\ LET class == Named(Argument)
     IN  IF Refused(Argument) \/ class = NoClass
           THEN UNCHANGED <<ClsID, isValidClsID>>
           ELSE /\ ClsID' = class
                /\ isValidClsID' = (isValidClsID \/ class # NullClass)
  /\ UNCHANGED <<inputVars, stage, ret, CodeBaseUrl, policy>>

\* setCodeBaseUrl, for a location that is trusted.
SetCodeBaseUrl ==
  /\ InLoop("choosing")
  /\ Argument.kind = "codebase"
  /\ i' = i + 1
  /\ CodeBaseUrl' = IF Matches(Argument.value) THEN Argument.value ELSE CodeBaseUrl
  /\ UNCHANGED <<inputVars, stage, ret, ClsID, isValidClsID, isKnown, policy>>

\* Trust is not limited to what is known.
MutantCreateControl ==
  /\ stage = "choosing"
  /\ i = Len(arguments) + 1
  /\ IF isValidClsID
       THEN /\ stage' = "created"
            /\ policy' = IF installation.TrustWellKnown THEN "dropped" ELSE "kept"
       ELSE /\ stage' = "invalid"
            /\ UNCHANGED policy
  /\ UNCHANGED <<inputVars, i, ret, hostVars>>

\* hasValidClsID, and the site that CreateControl makes.
CreateControl ==
  /\ stage = "choosing"
  /\ i = Len(arguments) + 1
  /\ IF isValidClsID
       THEN /\ stage' = "created"
            /\ policy' = IF installation.TrustWellKnown /\ isKnown THEN "dropped" ELSE "kept"
       ELSE /\ stage' = "invalid"
            /\ UNCHANGED policy
  /\ UNCHANGED <<inputVars, i, ret, hostVars>>

Next ==
  \/ VerifySiteLock \/ Authorize \/ EndAuthorization
  \/ SetClsID \/ SetClsIDFromProgID \/ SetCodeBaseUrl
  \/ CreateControl

Spec == Init /\ [][Next]_vars

-----------------------------------------------------------------------------
\* The arguments of one kind that NPP_New has passed to the host.
Passed(kind) == {j \in 1 .. i - 1 : arguments[j].kind = kind}

Naming == {j \in Passed("clsid") \cup Passed("progid") : Named(arguments[j]) = ClsID}

\* What the documentation calls a trusted location (README.md:47-49): every
\* address without a list; otherwise a file or the local host where these are
\* trusted, a host that ends in what follows the star of an entry, the star
\* standing for at least one character, or a host that is an entry.
Local(url) == CrackUrl[url].scheme = "file" \/ CrackUrl[url].host = LocalhostName

Trusted(url) ==
  LET locations == installation.TrustedLocations
      host == CrackUrl[url].host
  IN  \/ locations = <<>>
      \/ /\ CrackUrl[url] # NoParse
         /\ Local(url) => installation.TrustLocalhost
         /\ ~Local(url) => \E j \in DOMAIN locations :
              IF locations[j][1] = "*"
                THEN \E n \in 1 .. Len(host) : SubSeq(host, n + 1, Len(host)) = Tail(locations[j])
                ELSE host = locations[j]

\* The hosts for which the code says something else: it compares only as many
\* characters as the host has with an entry (ffactivex.cpp:186), and only as many
\* as "localhost" has with that (ffactivex.cpp:160).
Misjudged(url) ==
  /\ installation.TrustedLocations # <<>>
  /\ CrackUrl[url] # NoParse
  /\ ~Local(url)
  /\ \/ IsStrictPrefix(LocalhostName, CrackUrl[url].host)
     \/ \E j \in DOMAIN installation.TrustedLocations :
          /\ installation.TrustedLocations[j][1] # "*"
          /\ IsStrictPrefix(CrackUrl[url].host, installation.TrustedLocations[j])

\* With the registry, the verdict of the loops and wildcards is the one of the
\* reference: the host sees the arguments when the browser says where the page is
\* and the registry allows each of them there, wherever among the others it
\* stands, and only then (authorize.cpp:101-181).
HostSeesAllowed ==
  (stage # "authorizing" /\ ~installation.NO_REGISTRY_AUTHORIZE) =>
    (stage # "refused" <=>
       /\ document # NoAddress
       /\ \A j \in DOMAIN arguments :
            Allowed(installation.registry, arguments[j].kind, document, arguments[j].value))

\* No page gets a host in a site locked build, and no address becomes the code
\* base in any, that the documentation does not call trusted, but for the hosts
\* that are misjudged; and the code base is the last address that is accepted
\* (ffactivex.cpp:140-193, 272-278, 360-370).
LocationsAreTrusted ==
  /\ (installation.NO_REGISTRY_AUTHORIZE /\ stage \notin {"authorizing", "refused"}) =>
       document # NoAddress /\ (Trusted(document) \/ Misjudged(document))
  /\ \/ \E j \in Passed("codebase") :
          /\ arguments[j].value = CodeBaseUrl
          /\ Trusted(CodeBaseUrl) \/ Misjudged(CodeBaseUrl)
          /\ \A k \in Passed("codebase") :
               k > j => ~Trusted(arguments[k].value) \/ Misjudged(arguments[k].value)
     \/ /\ CodeBaseUrl = NoUrl
        /\ stage \in {"choosing", "invalid", "created"} =>
             \A j \in Passed("codebase") :
               ~Trusted(arguments[j].value) \/ Misjudged(arguments[j].value)

\* However the arguments follow each other, and although the class id is set
\* anew for each while isValidClsID stays, the class of a control is one that an
\* argument named.  It has no kill bit, as the comments promise, with one
\* exception: a program id given as a class id, for which the registry is asked
\* for a key of that name (axhost.cpp:294-297, 346-351).
ClassIsVerified ==
  ClsID # NullClass =>
    /\ stage \in {"choosing", "invalid", "created"}
    /\ Naming # {}
    /\ ClsID \in killed =>
         \E j \in Naming : arguments[j].kind = "clsid" /\ arguments[j].value \notin ClassIds

\* The last usable argument decides: an earlier one is used only when each later
\* one names nothing usable (axhost.cpp:277-362).
LastUsableDecides ==
  (stage = "created" /\ ClsID # NullClass) =>
    \A j \in Passed("clsid") \cup Passed("progid") :
      \/ Refused(arguments[j])
      \/ Named(arguments[j]) = NoClass
      \/ \E k \in Naming : k >= j

\* The policy is dropped for a control that is itself well known (README.md:69,
\* 105), with one exception: where other controls are accepted too, a class id
\* that is well known need not be the one that is used, because isKnown stays
\* when another argument sets the class (axhost.cpp:284-292, 324-335, 389-397).
DroppedPolicyIsKnown ==
  (policy = "dropped" /\ ClsID # NullClass) =>
    \/ \E j \in Naming : IsWellKnown(arguments[j].value)
    \/ /\ ~installation.AcceptOnlyWellKnown
       /\ \E j \in Passed("clsid") \ Naming : IsWellKnown(arguments[j].value)
=============================================================================
