----------------------------- MODULE SiteCreate -----------------------------
(***************************************************************************)
(* CControlSite::Create (common/ControlSite.cpp): whether an ActiveX       *)
(* control may be hosted, is up to date, can be created, or has to be      *)
(* downloaded first, and how the download is waited for.  What PluginHost  *)
(* takes as one step is here followed line by line.                        *)
(***************************************************************************)
EXTENDS Integers, Sequences

CONSTANTS Word,        \* a half of a DWORD holds 0 .. Word - 1
          Versions,    \* versions: sequences of four numbers
          NoVersion,   \* no version is given or found
          NoCodebase,  \* szCodebase is NULL
          Objects,     \* how objects of the class answer IObjectSafety
          NoObject,    \* a NULL interface pointer
          EarlyStop    \* the moniker may call OnStopBinding before
                       \* CoGetClassObjectFromURL has returned

ASSUME CreateAssumption ==
  /\ Word \in Nat \ {0}
  /\ Versions \subseteq [1 .. 4 -> Nat]
  /\ NoVersion \notin Versions /\ NoCodebase \notin Versions /\ NoVersion # NoCodebase
  /\ Objects \subseteq [answers : BOOLEAN, accepts : BOOLEAN,
                        supported : SUBSET {"caller", "data"}, enabled : SUBSET {"caller", "data"}]
  /\ NoObject \notin Objects
  /\ EarlyStop \in BOOLEAN

Codebases == Versions \cup {NoVersion, NoCodebase}

\* server says how the class names its file under InprocServer32: there is no such
\* key, as for a class with a local server only, or no name in it, or a file.
Worlds == [registered : BOOLEAN, marked : BOOLEAN, server : {"unopened", "unnamed", "file"},
           version : Versions \cup {NoVersion}, object : Objects \cup {NoObject}]

VARIABLES world,       \* the registry's entry of the class, the version of its
                       \* file, and what CoCreateInstance makes of it
          policy,      \* there is a policy, and only safe objects are wanted
          codebase,    \* szCodebase: its #version, or none in it, or NULL
          pc,          \* where Create is, "returned" at the end
          checkForObjectSafety, bUpdateControlVersion,
          hr,          \* "unset", "ok" or "failed"
          spObject,    \* the object created
          m_spObject,  \* the object the site has when Create returns
          m_bBindingInProgress, m_hrBindResult,
          moniker,     \* the download: "none", "running", "stopped", or "early",
                       \* stopped before Create began to wait
          registeredBSC,   \* the bind status callback is registered
          first            \* history: the world when the policy was asked

siteVars == <<m_spObject, m_bBindingInProgress, m_hrBindResult>>
bindVars == <<moniker, registeredBSC>>
localVars == <<checkForObjectSafety, bUpdateControlVersion, hr, spObject>>
inputVars == <<policy, codebase>>
vars == <<world, inputVars, pc, localVars, siteVars, bindVars, first>>

TypeOK ==
  /\ world \in Worlds
  /\ policy \in BOOLEAN
  /\ codebase \in Codebases
  /\ pc \in {"safety", "version", "create", "bind", "wait", "revoke", "recreate", "return", "returned"}
  /\ checkForObjectSafety \in BOOLEAN
  /\ bUpdateControlVersion \in BOOLEAN
  /\ hr \in {"unset", "ok", "failed"}
  /\ spObject \in Objects \cup {NoObject}
  /\ m_spObject \in Objects \cup {NoObject}
  /\ m_bBindingInProgress \in BOOLEAN
  /\ m_hrBindResult \in {"ok", "failed"}
  /\ moniker \in {"none", "running", "stopped", "early"}
  /\ registeredBSC \in BOOLEAN
  /\ first \in Worlds

\* Only a class with an entry is marked, has a server or can be created, and only
\* a file has a version.
PossibleWorlds ==
  {w \in Worlds :
     /\ ~w.registered => ~w.marked /\ w.server = "unopened" /\ w.object = NoObject
     /\ w.server # "file" => w.version = NoVersion}

\* m_bBindingInProgress has no value before a download gives it one.
Init ==
  /\ world \in PossibleWorlds
  /\ policy \in BOOLEAN
  /\ codebase \in Codebases
  /\ pc = "safety"
  /\ checkForObjectSafety = FALSE
  /\ bUpdateControlVersion = FALSE
  /\ hr = "unset"
  /\ spObject = NoObject
  /\ m_spObject = NoObject
  /\ m_bBindingInProgress \in BOOLEAN
  /\ m_hrBindResult = "failed"
  /\ moniker = "none"
  /\ registeredBSC = FALSE
  /\ first = world

-----------------------------------------------------------------------------
\* The default policy hosts every class.  One that does not exist and can be
\* fetched is not asked about its safety; one that is not marked will be asked
\* itself.
DecideSafety ==
  /\ pc = "safety"
  /\ checkForObjectSafety' = (/\ policy
                              /\ world.registered \/ codebase = NoCodebase
                              /\ ~world.marked)
  /\ pc' = "version"
  /\ UNCHANGED <<world, inputVars, bUpdateControlVersion, hr, spObject, siteVars, bindVars, first>>

\* MAKELONG
MakeLong(low, high) == (low % Word) + ((high % Word) * Word)

\* Only the first half of a version is compared.
MutantNewer(v, w) == MakeLong(v[2], v[1]) > MakeLong(w[2], w[1])

\* The version of the code base against that of the file, half by half.
Newer(v, w) ==
  LET MS(x) == MakeLong(x[2], x[1])
      LS(x) == MakeLong(x[4], x[3])
  IN  MS(v) > MS(w) \/ (MS(v) = MS(w) /\ LS(v) > LS(w))

\* Without the key the result of a query that was not made is read, and a file name
\* that nobody wrote; of a file without a version, a buffer that nobody filled.
Unread(w) == w.server = "unopened" \/ (w.server = "file" /\ w.version = NoVersion)

CompareVersion ==
  /\ pc = "version"
  /\ \E found \in IF Unread(world) THEN Versions \cup {NoVersion} ELSE {world.version} :
       bUpdateControlVersion' = (/\ codebase \in Versions
                                 /\ found # NoVersion
                                 /\ Newer(codebase, found))
  /\ pc' = "create"
  /\ UNCHANGED <<world, inputVars, checkForObjectSafety, hr, spObject, siteVars, bindVars, first>>

\* IsObjectSafeForScripting.  The negation binds to the options first: any safe
\* option that is enabled will do; if there is none the one for scripting is
\* set and read back.
IsObjectSafeForScripting(o) ==
  /\ o.answers
  /\ \/ o.enabled \cap o.supported # {}
     \/ "caller" \in o.supported /\ o.accepts

\* CoCreateInstance can fail though the class is there.
CoCreateInstance ==
  \/ spObject' = world.object /\ hr' = (IF world.object = NoObject THEN "failed" ELSE "ok")
  \/ spObject' = NoObject /\ hr' = "failed"

Unsafe(o) == checkForObjectSafety /\ ~IsObjectSafeForScripting(o)

\* An unsafe object is kept.
MutantFirstCreate ==
  /\ pc = "create"
  /\ IF bUpdateControlVersion
       THEN pc' = "bind" /\ UNCHANGED <<hr, spObject>>
       ELSE /\ CoCreateInstance
            /\ pc' = IF hr' = "failed" /\ codebase # NoCodebase THEN "bind" ELSE "return"
  /\ UNCHANGED <<world, inputVars, checkForObjectSafety, bUpdateControlVersion,
                 siteVars, bindVars, first>>

\* The first creation, left out when an update would find the file in use.
\* An unsafe object is dropped.
FirstCreate ==
  /\ pc = "create"
  /\ IF bUpdateControlVersion
       THEN pc' = "bind" /\ UNCHANGED <<hr, spObject>>
       ELSE \/ /\ CoCreateInstance
               /\ hr' = "ok" => ~Unsafe(spObject')
               /\ pc' = IF hr' = "failed" /\ codebase # NoCodebase THEN "bind" ELSE "return"
            \/ /\ world.object # NoObject
               /\ Unsafe(world.object)
               /\ hr' = "failed"
               /\ pc' = "returned"
               /\ UNCHANGED spObject
  /\ UNCHANGED <<world, inputVars, checkForObjectSafety, bUpdateControlVersion,
                 siteVars, bindVars, first>>

-----------------------------------------------------------------------------
\* What a download may install: a class, marked or not, and objects of any kind.
Install ==
  world' \in {w \in PossibleWorlds :
              w.registered /\ w.server = world.server /\ w.version = world.version}

\* No memory for the URL, no bind context or no registration.
BindFails ==
  /\ pc = "bind"
  /\ hr' = "failed"
  /\ pc' = "returned"
  /\ UNCHANGED <<world, inputVars, checkForObjectSafety, bUpdateControlVersion, spObject,
                 siteVars, bindVars, first>>

\* CoGetClassObjectFromURL is done when it returns.
BindAtOnce ==
  /\ pc = "bind"
  /\ registeredBSC' = TRUE
  /\ moniker' = "stopped"
  /\ \/ hr' = "ok" /\ Install
     \/ hr' = "failed" /\ UNCHANGED world
  /\ pc' = "revoke"
  /\ UNCHANGED <<inputVars, checkForObjectSafety, bUpdateControlVersion, spObject, siteVars, first>>

\* Or it returns MK_S_ASYNCHRONOUS, and Create starts to wait, even if the
\* download has stopped by then: what OnStopBinding stored is overwritten.
StartWaiting ==
  /\ pc = "bind"
  /\ registeredBSC' = TRUE
  /\ m_bBindingInProgress' = TRUE
  /\ m_hrBindResult' = "failed"
  /\ \/ moniker' = "running" /\ UNCHANGED world
     \/ EarlyStop /\ moniker' = "early" /\ (Install \/ UNCHANGED world)
  /\ pc' = "wait"
  /\ UNCHANGED <<inputVars, localVars, m_spObject, first>>

\* The result is not stored.
MutantOnStopBinding ==
  /\ moniker = "running"
  /\ registeredBSC
  /\ moniker' = "stopped"
  /\ \E result \in {"ok", "failed"} :
       IF result = "ok" THEN Install ELSE UNCHANGED world
  /\ UNCHANGED <<inputVars, pc, localVars, siteVars, registeredBSC, first>>

\* OnStopBinding, with the result of the download.
OnStopBinding ==
  /\ moniker = "running"
  /\ registeredBSC
  /\ moniker' = "stopped"
  /\ m_bBindingInProgress' = FALSE
  /\ \E result \in {"ok", "failed"} :
       /\ m_hrBindResult' = result
       /\ IF result = "ok" THEN Install ELSE UNCHANGED world
  /\ UNCHANGED <<inputVars, pc, localVars, m_spObject, registeredBSC, first>>

\* The loop took a WM_QUIT.
Quit ==
  /\ pc = "wait"
  /\ m_bBindingInProgress
  /\ m_bBindingInProgress' = FALSE
  /\ UNCHANGED <<world, inputVars, pc, localVars, m_spObject, m_hrBindResult, bindVars, first>>

EndWaiting ==
  /\ pc = "wait"
  /\ ~m_bBindingInProgress
  /\ hr' = m_hrBindResult
  /\ pc' = "revoke"
  /\ UNCHANGED <<world, inputVars, checkForObjectSafety, bUpdateControlVersion, spObject,
                 siteVars, bindVars, first>>

Revoke ==
  /\ pc = "revoke"
  /\ registeredBSC' = FALSE
  /\ pc' = IF hr = "ok" THEN "recreate" ELSE "return"
  /\ UNCHANGED <<world, inputVars, localVars, siteVars, moniker, first>>

\* What was downloaded is not created.
MutantSecondCreate ==
  /\ pc = "recreate"
  /\ pc' = "return"
  /\ UNCHANGED <<world, inputVars, localVars, siteVars, bindVars, first>>

\* The second creation: an unsafe object makes Create fail, and is kept.
SecondCreate ==
  /\ pc = "recreate"
  /\ \/ CoCreateInstance /\ (hr' = "ok" => ~Unsafe(spObject'))
     \/ /\ world.object # NoObject
        /\ Unsafe(world.object)
        /\ spObject' = world.object
        /\ hr' = "failed"
  /\ pc' = "return"
  /\ UNCHANGED <<world, inputVars, checkForObjectSafety, bUpdateControlVersion,
                 siteVars, bindVars, first>>

Return ==
  /\ pc = "return"
  /\ m_spObject' = spObject
  /\ pc' = "returned"
  /\ UNCHANGED <<world, inputVars, localVars, m_bBindingInProgress, m_hrBindResult, bindVars, first>>

Step ==
  \/ DecideSafety \/ CompareVersion \/ FirstCreate
  \/ BindFails \/ BindAtOnce \/ StartWaiting \/ EndWaiting \/ Revoke
  \/ SecondCreate \/ Return

Next == Step \/ OnStopBinding \/ Quit

\* Create is one call of one thread; a download stops some time.
Spec == Init /\ [][Next]_vars /\ WF_vars(Step) /\ WF_vars(OnStopBinding)

-----------------------------------------------------------------------------
\* An object that can be used by scripts it does not trust.
ScriptSafe(o) ==
  /\ o.answers
  /\ "caller" \in o.supported
  /\ "caller" \in o.enabled \/ o.accepts

\* An object that is safe with regard to its data; for scripts it does not say so.
OnlyDataSafe(o) ==
  /\ o.answers
  /\ o.enabled \cap o.supported = {"data"}

\* A class that the policy makes Create ask: it was there and is not marked.
Asked == policy /\ first.registered /\ ~first.marked

\* Under the policy a class that was there and not marked safe is hosted only if
\* its object, be it a downloaded one, says that it is safe for scripting.  One
\* exception: the mask of ControlSite.cpp:161 lets an object pass that is only
\* safe with regard to its data (ControlSite.cpp:243-256, 347-355, 463-470).
UnmarkedIsAsked ==
  (pc = "returned" /\ hr = "ok" /\ Asked) => ScriptSafe(m_spObject) \/ OnlyDataSafe(m_spObject)

\* The same without the exception, as the comments at ControlSite.cpp:136 and 160
\* have it: "Ask the control if its safe for scripting", "Test if safe for
\* scripting".
HostedIsScriptSafe ==
  (pc = "returned" /\ hr = "ok" /\ Asked) => ScriptSafe(m_spObject)

\* Create succeeds with an object and fails without, but for one that was
\* downloaded and found unsafe; CAxHost deletes the site then.  However Create is
\* left, WM_QUIT included, no callback into the site stays registered
\* (ControlSite.cpp:430-479).
ResultMatchesObject ==
  pc = "returned" =>
    /\ hr \in {"ok", "failed"}
    /\ hr = "ok" => m_spObject # NoObject
    /\ (hr = "failed" /\ m_spObject # NoObject) => moniker = "stopped" /\ Unsafe(m_spObject)
    /\ ~registeredBSC

\* An installed control is replaced exactly when its file has a version and the
\* code base asks for a higher one, number by number, as far as the numbers fit into
\* their words.  One exception: where the code reads what nobody wrote, nothing is
\* said but that the code base asks for a version at all.  While a control is
\* replaced Create has no object of it (ControlSite.cpp:278-326, 341-355).
UpdateIffNewer ==
  LET fits(v) == v \in Versions => \A k \in 1 .. 4 : v[k] < Word
      higher == \E k \in 1 .. 4 : /\ codebase[k] > first.version[k]
                                  /\ \A l \in 1 .. k - 1 : codebase[l] = first.version[l]
  IN  pc \notin {"safety", "version"} =>
        /\ bUpdateControlVersion => codebase \in Versions
        /\ (~Unread(first) /\ fits(codebase) /\ fits(first.version)) =>
             (bUpdateControlVersion <=>
                codebase \in Versions /\ first.version \in Versions /\ higher)
        /\ bUpdateControlVersion /\ pc \in {"bind", "wait", "revoke"} => spObject = NoObject

\* Create returns once its download has stopped or a WM_QUIT was seen, unless the
\* download stopped before the flag it waits for was set (ControlSite.cpp:419-443).
CreateReturns == <>(pc = "returned" \/ moniker = "early")
=============================================================================
