# Formal model of ff-activex-host

ff-activex-host is an NPAPI plugin that hosts ActiveX controls in Mozilla
browsers. This directory holds TLA+ modules of its core, the TLC configurations
that model-check them, and theorems about them that TLAPS checks. Source paths
below are relative to `src/`; every model definition is tied to source lines in
`PROJECT.json` (`map`).

    tlc -workers 2 -config host_nested.cfg MCPluginHost.tla
    tlc -workers 2 -config in_place.cfg InPlaceSite.tla
    tlapm PluginHostProofs.tla

The module of each run is in section 3. All modules named `...Proofs` are for
`tlapm`.

## 1. The system

The plugin is one DLL on the browser's plugin thread. `NP_Initialize` enters a
single-threaded COM apartment and every class is `CComSingleThreadModel`, so
there is no preemption. The concurrency is *re-entrancy*: the plugin calls
foreign code (a download's message loop, a control's `DoVerb`, a page's event
handler, a control's deactivation), and that code can pump messages, run page
script, remove the very element it belongs to, and call any entry point again.

| Component | Source | State | Operations | Modules |
|---|---|---|---|---|
| Plugin entry points | `ffactivex/ffactivex.cpp`, `dllmain.cpp` | `instance->pdata` | `NPP_New`, `NPP_SetWindow`, `NPP_Destroy`, `NPP_GetValue`, `NPP_HandleEvent` | `PluginHost`, `PluginThread`, `InstanceLifecycle` |
| CAxHost | `ffactivex/axhost.cpp`, `.h` | `Window`, `OldProc`, `Site`, `Sink`, `Props`; the window's procedure and `GWL_USERDATA` | construction, `~CAxHost`, `setWindow`, `UpdateRect`, `CreateControl`, `AddEventHandler`, `AxHostWinProc` | `HostWindow`, `PluginHost` |
| Choice of the control | `ffactivex/axhost.cpp`, `ffactivex.cpp` | `ClsID`, `isValidClsID`, `isKnown`, `CodeBaseUrl` | the argument loop of `NPP_New`, `setClsID`, `setClsIDFromProgID`, `setCodeBaseUrl` | `ControlChoice` |
| Control site, life cycle | `common/ControlSite.cpp`, `.h` | COM references, `m_spObject`, `m_hWndParent`, `m_bBindingInProgress`, `m_hrBindResult` | `Create`, `OnStopBinding`, `Attach`, `Detach` | `ControlSite`, `PluginHost` |
| Control site, creation and policy | `common/ControlSite.cpp` | the class in the registry, the safety policy, the download | `Create` line by line, `IsObjectSafeForScripting` | `SiteCreate` |
| Control site, in-place site and buffer | `common/ControlSite.cpp` | activation flags, position, off-screen buffer | `IOleInPlaceSite*`, `GetDC`, `ReleaseDC`, `OnDefWindowMessage` | `InPlaceSite` |
| Event sink | `common/ControlEventSink.cpp`, `.h` | COM references, `m_bSubscribed`, `m_spEventSinkTypeInfo`, `events` | `GetEventSinkIID`, `SubscribeToEvents`, `UnsubscribeFromEvents`, `InternalInvoke` | `ControlEventSink`, `PluginHost`, `TypeInformation` |
| Scriptable object | `scriptable.h`, `.cpp` | NPObject references, the control's dispatch interface | `setControl`, `ResolveName`, `Invoke`, `GetProperty`, `Invalidate`, destructor | `ScriptableRefs`, `TypeInformation` |
| Generic NPObject | `GenericNPObject.cpp`, `.h` | elements, named and immutable properties | `SetProperty`, `GetProperty`, `RemoveProperty`, `Invoke`, `Enumerate` | `GenericNPObject` |
| Variant conversion | `variants.cpp`, `.h` | none | VARIANT to NPVariant and back, SAFEARRAY to array | `VariantConversion`, `SafeArrayConversion` |
| Registry authorization | `authorize.cpp`, `.h` | registry | `TestAuthorization`, `WildcardMatch` | `Authorization`, `ControlChoice` |
| Property list and bag | `common/PropertyList.h`, `PropertyBag.*` | named values | `AddOrReplaceNamedProperty`, `Read`, `Write` | `ParameterLists` |
| Trusted locations | `ffactivex.cpp` | lists of the build or the registry | `MatchURL2TrustedLocations`, `VerifySiteLock` | `ControlChoice` |
| Command target, item container, IP frame | `common/*` | none or constant | table look-ups and stubs | |
| Version tool, packaging | `transver/`, `install/`, `chrome/`, `tool/` | none | build-time only | |

**Interactions.** The browser calls the entry points. `NPP_New` stores a new
`CAxHost` in `pdata`, then `CAxHost::CreateControl` makes a `CControlSite` and
calls its `Create`; if the control must be downloaded, `Create` registers the
site as the bind status callback and spins a message loop until `OnStopBinding`
clears `m_bBindingInProgress` or `WM_QUIT` arrives. It then makes a
`CControlEventSink`, advises it on the control, and adds page handlers.
`NPP_SetWindow` subclasses the window and attaches the site to it, which gives
the control a reference on the site. The control calls back through the site and
through the sink. `NPP_Destroy` deletes the host: window, sink, site, in this
order.

**What is hard.** (a) `NPP_SetWindow`, `NPP_Destroy` and whole other instances
run inside `NPP_New`'s download loop. (b) `NPP_Destroy` runs inside the control's
activation or a page's event handler, and the plugin resumes in memory it
freed. (c) Downloads nest: the outer loop cannot leave before the inner one.
(d) Partial failure: `NPP_New` must undo whatever was built. (e) Windows
outlive hosts: a window that is not restored calls a deleted host.
(f) References of three holders on the site and two on the sink must be
released on every path.

**What makes each component correct.** *Entry points*: an instance the browser
may call is whole; `pdata` never points to a deleted host in such an instance.
*CAxHost*: deletion leaves no window behind; no call uses a deleted host.
*Control site*: alive while a binding can call it; released by everyone at the
end; every wait ends. *Event sink*: subscribed exactly when the control holds
it; no event outside the running phase. *Scriptable object*: never outlives the
control it calls, or calls nothing. *Generic NPObject*: length and enumerated
members agree with the properties. *Variants*: each conversion releases what it
made when it fails. *Authorization*: `WildcardMatch` agrees with the meaning of
a pattern; no rule means no. *Property list*: look-up is the last write. *Trusted
locations*: only a page, and a code base, on a host the list names. *Type
information*: a name means one member; every descriptor is given back.

## 2. The modules

| Module | Models | Extends |
|---|---|---|
| `PluginThread` | the stack of suspended plugin calls | |
| `ControlSite` | life cycle of `CControlSite` | `PluginThread` |
| `HostWindow` | window subclassing of `CAxHost` | `ControlSite` |
| `ControlEventSink` | subscription and references of the sink | `PluginThread` |
| `PluginHost` | the NPP entry points composing all of these; the properties | `HostWindow`, `ControlEventSink` |
| `InstanceLifecycle` | abstract: the stages of an instance and what is held in each | |
| `Authorization` | `WildcardMatch`, the search of the registry, and the reference definitions `Covers` and `Allowed` | |
| `ControlChoice` | the site lock and the loops over the arguments up to the class, code base and policy of the control | `Authorization` |
| `ParameterLists` | parameters and handlers on their way from arguments to control and sink | |
| `SiteCreate` | `CControlSite::Create`, its download loop and `OnStopBinding` | |
| `TypeInformation` | the search for the events of a control's class and for the members a page names | |
| `InPlaceSite` | `CControlSite` as in-place site; the buffer of `GetDC` | |
| `ScriptableRefs` | COM references behind scriptable objects | |
| `GenericNPObject` | the array object handed to a page | |
| `SafeArrayConversion` | the recursion that turns a SAFEARRAY into such objects | |
| `VariantConversion` | values going to a control and back | |
| `MC...` | finite sets, functions and symmetry for TLC | the module of that name |
| `PluginHostProofs` | theorems about the composed host, and its refinement | `PluginHost` |
| `ControlSiteProofs` | theorems about the site's creation and about it as in-place site | `SiteCreate`, `InPlaceSite` |
| `ConversionProofs` | theorems about both modules of `variants.cpp` | `SafeArrayConversion`, `VariantConversion` |
| `ControlChoiceProofs`, `ParameterListsProofs`, `TypeInformationProofs`, `ScriptableRefsProofs`, `GenericNPObjectProofs` | theorems about these modules | the module of that name |

`PluginHost` composes window, site, sink and thread. The other modules detail
single steps of it or stand beside it: `ControlChoice`, `ParameterLists` and
`SiteCreate` are what happens inside `NPP_New`, whose outcome `PluginHost` chooses
freely; `TypeInformation` is what the sink asks before `NPP_New` ends and a page
asks later; `InPlaceSite` is what a control does while `PluginHost` has it attached;
`ScriptableRefs` and the three modules on values are what events and script
calls carry.

### 2.1 The host

**The stack.** `stack` is the sequence of plugin calls suspended in foreign code,
innermost last. There are five places where the plugin suspends, one per frame
kind: `Create` (the download loop, `ControlSite.cpp:424`), `Activate`
(`DoVerb`/`SetExtent` inside `Attach`), `Move` (`SetObjectRects` inside
`SetPosition`), `Event` (the page's handler inside `InternalInvoke`) and `Detach`
(the control's deactivation inside `Detach`).
While a frame is suspended any other action can happen, for any instance; only
the innermost frame can resume. This is exactly what a single-threaded apartment
allows. Calls that create or look up COM objects (`CoCreateInstance`,
`CoGetClassObject`, `Advise`, `Unadvise`, and the final release of the control)
do not suspend in the model, and neither does a call of a page into the control
(section 7).

**State and code.**

| Variable | Code |
|---|---|
| `pdata`, `host`, `phase` | `instance->pdata`; the `CAxHost` object; what the browser knows (`idle`: not started, `starting`: inside `NPP_New`, `running`, `failing`: `NPP_New` is about to delete the host after an error, `failed`: `NPP_New` gave an error, `gone`: `NPP_Destroy` was called) |
| `siteRefs` | the holders of the COM count of `CControlSite`: `CAxHost::Site`, the registered bind status callback, the control's client site |
| `object`, `attached`, `parent`, `binding` | `m_spObject`, `m_spIOleObject`, `m_hWndParent`, `m_bBindingInProgress` with `m_hrBindResult` |
| `window`, `oldProc` | `CAxHost::Window`, `CAxHost::OldProc`; the constant `WindowsOf` gives each instance windows of its own |
| `axProc`, `userData` | which windows have `AxHostWinProc` as procedure and the host as `GWL_USERDATA` |
| `sinkRefs`, `subscribed`, `handlers` | the holders of the sink; `m_bSubscribed`; `events` not empty |
| `fault`, `reentered`, `abandoned` | history, not code: which instances used freed memory, which were destroyed under a call of their own, which windows were replaced directly |

**Actions and code.** `NPP_New` with its five outcomes; `PumpExit` and `PumpQuit`,
the two ends of the download loop with the rest of `NPP_New`; where `CreateControl`
fails, both leave what it has built so far (`FailNew`: a site without an object, one
with the unsafe object that `Create` kept, or an object and a sink that could not
subscribe) and `DeleteHost` is the undoing (`ffactivex.cpp:407-410`), before which
nothing else happens; `DownloadStops`
(`OnStopBinding`); `NPP_SetWindow` (`setWindow`, then `UpdateRect`);
`AttachReturn` and `MoveReturn` (the rest of `Attach`, of `SetPosition` and of
`UpdateRect`); `NPP_HandleEvent` and `NPP_GetValue`, which only read, and whose
use of host and site is what can go wrong; `AxHostWinProc`;
`FireEvent` and `EventReturn` (the halves of `InternalInvoke`); `NPP_Destroy` and
`DetachReturn` (`~CAxHost` up to the detach of the control, and the rest).

**The abstract specification.** `InstanceLifecycle` says what a browser may rely on
without calls, counts or controls: an instance is `idle`, `starting`,
`running`, then `closing` and `released`, or `failed`; it holds only its site
(and a window) while starting, site and sink while running, at most the site
while closing, and nothing once failed or released. `PluginHost` instantiates it
with a mapping (`Stage`, `Held`): `gone` is `closing` as long as anyone holds the
site, `released` after. `ImplementsLifecycle` is the refinement; an interrupted
download that keeps a destroyed instance's site, and the detach of a control,
are the two ways to be `closing`.

**Abstractions.** An instance has one life; a browser that reuses an `NPP` starts
again from the initial values. Counts are sets of holders, since each holder has
one reference. Which class is asked for, whether it is authorized, safe, recent
enough and downloadable are outcomes of `NPP_New`, chosen freely. The fields of
a destroyed object are reset, so that states that cannot be told apart are one
state. A control releases the site when told `SetClientSite(NULL)` and the sink
when unadvised, as COM requires. `wants` in an `Event` frame says that the
control asked for a result and holds no other reference on the sink during its
call. After the first use of freed memory nothing more is said (`Next` requires
`fault = {}`): the behaviour of the program is undefined from there. `MaxDepth`
bounds the stack by the guard of `Push`; it is the only bound inside the
modules.

**The browser.** The code relies on its browser, and the modules say how by two
constants. `DeferDestroy`: the browser holds `NPP_Destroy` back while a call of
the same instance is suspended (browsers of the Gecko family guard against
destruction under a plugin call; the code itself has no such guard).
`ClearWindowFirst`: between two windows the browser passes NULL. `FALSE` means
that the browser may or may not. In every case the browser calls
`NPP_SetWindow` and `NPP_Destroy` only for an instance whose `NPP_New` has
not failed; both may come *during* `NPP_New`, since `pdata` is set at
`ffactivex.cpp:384`, before the download.

### 2.2 From arguments to a control

**`ControlChoice`** has one action for each round of the two loops over the
arguments: `Authorize` (`TestAuthorization`) and, if every verdict was positive,
`SetClsID`, `SetClsIDFromProgID` or `SetCodeBaseUrl`, which set `ClsID`,
`isValidClsID`, `isKnown` and `CodeBaseUrl` as the host does; `CreateControl` is
`hasValidClsID` with the site's policy. The code can be built with
`NO_REGISTRY_AUTHORIZE`; then `VerifySiteLock` stands where the registry is asked,
and there are lists of well known names. Both builds are modelled: an
*installation*, chosen in `Init`, is the build with its lists (`WellKnown`,
`TrustedLocations`), its switches (`AcceptOnlyWellKnown`, `TrustWellKnown`,
`TrustLocalhost`) and the registry. `Matches` is `MatchURL2TrustedLocations`;
how a URL is cracked into scheme and host is the system's, and a function here
(`CrackUrl`). The browser may fail to give the address of the page (`NoAddress`);
then both builds refuse. Texts are sequences of a few characters, because
`WildcardMatch` and the comparison with an entry are about characters; case is a
function `Lower`. `Named` is the class a text stands for: `CLSIDFromString` takes a
program id too, `CLSIDFromProgID` nothing else. `HasKillBit` is what `verifyClsID`
finds: the keys of the kill bits are class ids, so that a program id given as
`clsid` has none, whatever its class. The spelling of a class id (case, braces) is
taken to be the one of its key.

**`ParameterLists`** has the four containers a `param_` or `event_` argument
passes through: `props` (`CAxHost::Props`, later the site's list), `events` of
`NPP_New`, `handlers` of the sink and the property bag of `Attach`. A list is its
entries and the number of entries its memory has room for (`EnsureMoreSpace`).
Any allocation may fail, and leaves what the code leaves: nothing, only memory, or
a cleared value. Names compare with or without case, as each place does.

**`SiteCreate`** follows `Create` by a program counter: the policy's question,
the version, the first creation, binding, the wait, the revocation, the second
creation. `OnStopBinding` and `Quit` (a `WM_QUIT` taken by the loop) come at any
time of the wait. With `EarlyStop` the moniker may report its end before
`CoGetClassObjectFromURL` has returned, thus before the flag is set that the loop
waits for (`moniker` is then `"early"`). `world` is what is installed, and a download replaces it. The
half of a version is a word of `Word` values, since `MAKELONG` cuts to 16 bits; an
object is how it answers `IObjectSafety`. `server` is what the class has under
`InprocServer32`: no key, as for a class that is not installed or has only a local
server, a key without a name, or a file. Where nobody wrote what the code reads
(`Unread`: the result of the query without a key, the buffer of a file that has no
version, `ControlSite.cpp:278-300`) the version found is a free choice; so is an
object that cannot be created.

### 2.3 While the control lives

**`InPlaceSite`** keeps the site's flags and position beside the control's own
(`control`, `ui`, `controlRect`), one action per callback of `IOleInPlaceSite`
and its extensions, `OnDefWindowMessage`, `GetDC`, `ReleaseDC`, and `Detach` in
the three steps a control sees. GDI is a set of handles: `gdi` says what a handle
stands for and `selected` which bitmap a context has, because a bitmap that is
selected cannot be deleted. Every allocation may return `Null`. Pixels are not
modelled. A control is given this object as `IOleInPlaceSite` and `IOleInPlaceSiteEx`
(`ControlSite.h:51-53`), which is how it activates; the entry for
`IOleInPlaceSiteWindowless` is commented out (lines 64-66), so `GetDC` and `ReleaseDC`
are reached only by a control that takes the one interface for the other. The model has
them as code that is ready to be switched on.

**`TypeInformation`** has the two searches of type information, which differ in
what they follow. `GetEventSinkIID` scans the implemented types of the class for
the default source; `Subscribe` is the rest of `SubscribeToEvents`, with what
`CreateControl` and `NPP_New` make of its failure. `ResolveName` is a stack of
frames, one per active call of `find_member`, each in one of its three loops. Any
call of `ITypeInfo` may fail: a failed one is skipped, as in the code, and sets the
history `failed`. `held` is which descriptors (`TYPEATTR`) are taken. Type
informations are numbered so that each refers to higher ones only: inheritance has
no cycles.

**`ScriptableRefs`** counts COM references per object and keeps who should hold
them: the site, the control's own side, and wrappers. A wrapper gives back two
references (`Deallocate`: the destructor and the smart pointer of
`scriptable.h:201`). `GetScriptableObject` makes it with two, and so does
`WrapResult`, because no result is ever cleared (`vResult`, `scriptable.h:277-288`).
`WrapElement` is an element of an array of interfaces in a result: the array's own
reference stays beside the two, and `kept` counts these; `LeaveElement` is an element
that the conversion did not come to. `WrapArgument` is the same for an argument of an
event, which belongs to the control: an interface alone has one reference only
(`borrowed`). The plugin itself never releases such a wrapper, nor one whose element
has a negative index (`owner`). `WrapNull` wraps NULL. `misused` is which objects were
used when they were gone. After `End` wrappers are invalid.

**`GenericNPObject`** is one array: `numeric`, `alpha`, and the immutable
`length` and `toString`. `toString` is an object with a plain pointer to the array
that a page may keep longer. A copy that runs out of memory leaves a `"torn"`
value: the type of the new one, the contents of the old.

**`SafeArrayConversion`** has a stack of frames, one per active call of the
recursion, and the one vector of indices they share; each element may fail, and
`Unwind` is the way out. An element is `Stored` by `setproperty`, whose result nobody
looks at: not under a negative index, and not a text whose copy finds no memory; the
objects of a row that is not stored are `lost`. **`VariantConversion`** is two functions,
`NPVar2Variant` and `Variant2NPVar`, applied in turn by `ToControl` and `ToPage`,
over machine words of `2 * Half` values and texts that count their terminating NUL.

## 3. The runs

| Run | Module | Instance | Shows |
|---|---|---|---|
| `host_nested` | `MCPluginHost` | 2 instances, of which one has 2 windows and one has 1, depth 3, any browser | `TypeOK`, `LiveInstanceIsWhole`, `AdviseBalanced`, `DownloadHoldsSite`, `NothingLeaks`, `FaultsExplained`, `DeletedHostLeavesWindows`, `ImplementsLifecycle` |
| `host_liveness` | `MCPluginHost` | the same instances and depth, a browser with both rules, `FairSpec` | `NoFault`, `StartingEnds`, `ThreadReturns`, `DestroyReleasesSite` |
| `attach_before_create` | `MCPluginHost` | 1 instance, 2 windows, depth 2 | a comment's claim fails (section 6) |
| `control_choice` | `MCControlChoice` | all lists of up to 2 arguments, some of 3; all masks of up to 2 characters, all trusted locations of up to 3; 2 pages and one without an address; both builds | `HostSeesAllowed`, `LocationsAreTrusted`, `ClassIsVerified`, `LastUsableDecides`, `DroppedPolicyIsKnown` |
| `parameter_lists` | `MCParameterLists` | 3 arguments, 3 names of which two differ in case, `GrowBy` 2 | `InsideAllocation`, `LastHandlerCounts`, `ControlReadsParameters` |
| `site_create` | `MCSiteCreate` | 5 versions, words of 2 values, 6 kinds of objects, `EarlyStop` | `UnmarkedIsAsked`, `ResultMatchesObject`, `UpdateIffNewer`, `CreateReturns` |
| `script_safety` | `MCSiteCreate` | the same | a comment's claim fails (section 6) |
| `in_place` | `InPlaceSite` | 3 GDI handles, 2 rectangles, no windowless controls | `OnlyBufferIsHeld`, `ControlFollowed`, `ShownWhereAsked` |
| `type_information` | `MCTypeInformation` | 4 type informations, 2 ids | `MembersResolve`, `AttributesBalanced`, `SinkKnowsEvents` |
| `scriptable_refs` | `MCScriptableRefs` | 3 wrappers, 2 COM objects, 1 uncleared array of each | `ReferencesAccounted`, `FaultsExplained` |
| `generic_array` | `MCGenericNPObject` | 1 object, 1 name, indices -1 to 2, length up to 2, 2 references | `ObjectsRetained`, `LengthCountsElements`, `EndedMethodIsQuiet` |
| `conversions` | `MCConversions` | arrays of up to 3 dimensions of up to 2 elements, lower bounds -1 to 1, at most 1 text without memory; words of 4 bits, texts and arrays of up to 3 | `ConvertedMatches`, `FailedConversionLeavesNothing`, `LosslessReturns`, `FirstArrivalSettles` |

Every module has a `TypeOK`. It documents the types; only the composed host's is
a run of its own.

**The host.**

- `FaultsExplained` (of `PluginHost`): freed memory is used only if the instance was destroyed
  under one of its own suspended calls, or was given a second window directly.
  `NoFault`: under a browser that does neither, never.
- `LiveInstanceIsWhole`: what `NPP_GetValue`, `NPP_HandleEvent` and
  `NPP_SetWindow` dereference without a check is there; and `pdata` dangles only
  after a failed `NPP_New` (`ffactivex.cpp:409` deletes the host and leaves
  `pdata`), where the browser calls nothing any more.
- `AdviseBalanced`: the sink's `m_bSubscribed` and the control's reference agree, and
  only a running instance is subscribed; so `~CAxHost` unadvises before it
  closes the control.
- `DownloadHoldsSite`: as long as a download can call `OnStopBinding`, the site
  lives, even if the host was deleted.
- `NothingLeaks`: once an instance has ended and its calls returned, no
  reference on site or sink is left, on every error path.
- `ImplementsLifecycle`: every nesting and error path is a life of
  `InstanceLifecycle`; nothing is held, or acquired again, after the end.
- `DeletedHostLeavesWindows`: only directly replaced windows remember a deleted
  host.
- `StartingEnds`, `ThreadReturns`, `DestroyReleasesSite`: no nesting of
  downloads, activations, events and destructions waits for ever. Here the browser
  holds `NPP_Destroy` back under a call of the same instance, so `DestroyReleasesSite`
  is about destruction under calls of *other* instances; that a destruction under the
  own download leaves nothing behind is `NothingLeaks` of `host_nested`.

**Choice and creation of the control.**

- `HostSeesAllowed`: the verdict of loops and wildcards is the reference one
  (`Allowed`, by cutting a text into one piece per character of the mask); one
  refused argument stops all, wherever it stands, and so does a page without an
  address.
- `ClassIsVerified`, `LastUsableDecides`: although each argument sets the class
  id anew and `isValidClsID` stays, the class is named by an argument, has no kill
  bit, and an earlier argument decides only where no later one is usable. The one
  class with a kill bit is that of a program id given as `clsid` (section 6).
- `LocationsAreTrusted`: no page gets a host in a site locked build, and no
  address becomes the code base in any, but what `README.md:47-49` calls trusted:
  a host that is an entry, or ends in what follows the star of one. `Misjudged` names the
  hosts for which the code says otherwise (section 6). Of several usable code bases
  the last counts.
- `DroppedPolicyIsKnown`: the safety policy is dropped only if the control that is
  created was itself named by something well known, as `README.md:69` and `105` have
  it. The one exception is a page that also gave a well known class id, where others
  are accepted too: `isKnown` stays when another argument sets the class (section 6).
- `InsideAllocation`: no list is written past its memory, whichever allocation
  failed before. `LastHandlerCounts`, `ControlReadsParameters`: which of several
  handlers an event runs, and which of several spellings a control reads, stated
  over the arguments themselves, across the differing comparisons.
- `UnmarkedIsAsked`: an installed class that is not marked safe is hosted under
  the policy only with an object that says it is safe for scripting, with one
  exception, objects that are safe with regard to data only. `HostedIsScriptSafe` is
  the same without the exception; the run `script_safety` shows that the code breaks
  it (section 6).
- `ResultMatchesObject`: success means an object, failure none (but for a
  downloaded one that is unsafe), and no callback stays registered, `WM_QUIT` or not.
- `UpdateIffNewer`: the packed comparison is the number-by-number one, for numbers
  that fit their words; larger ones wrap. Where the version that is compared was read
  from nowhere (`Unread`), only that the code base asks for one. `CreateReturns`: the loop ends, unless the download stopped
  before the wait began.
- `SinkKnowsEvents`: `NPP_New` never looks up an event without the type information
  of a default source, whichever call failed on the way there.

**The living control.**

- `OnlyBufferIsHeld`: every GDI object that exists is one that `ReleaseDC` will
  free. `ShownWhereAsked`: an off-screen buffer appears where it was asked for.
- `ControlFollowed`: flags, position and treatment as windowless follow the
  control; the only exception is the flag set before a windowless activation is
  refused.
- `MembersResolve`: a name resolves exactly to what the interfaces of the hierarchy
  offer in the way asked for, through all loops and returns of the recursion, as
  `scriptable.h:51-53` says; the one exception are members that no type on the chain
  of first bases has (section 6).
  `AttributesBalanced`: no way out of it forgets a descriptor or gives one back
  twice.
- `ReferencesAccounted`: the count of an object is what its holders should hold, as
  long as it was never wrapped with one reference, and one more for each array that
  nobody clears; so wrappers free nothing early, and nothing else is lost.
  `FaultsExplained` (of `ScriptableRefs`): an object used after its release was itself
  wrapped with too few references, and NULL is used only after it was wrapped.
- `ObjectsRetained`: the array holds what it stores and, freed, no more, with what
  it overwrote as the exception. `LengthCountsElements`: the counter is right until a
  page assigns it, sets an element twice or removes one that is not there.
  `EndedMethodIsQuiet`: a kept `toString` is silent once the instance ended.
- `ConvertedMatches`: each element exactly at its place, in any dimension, with
  one vector of indices, and nothing else. Three exceptions: negative indices, texts
  without memory, and kinds of elements the code does not read, plain numbers among
  them, which are all void. `FailedConversionLeavesNothing`: no object,
  lock or vector survives a failure, except the lock when the vector itself could
  not be allocated and the rows of negative indices; and each object of a result has
  one owner. A conversion that *succeeds* keeps lock and vector (section 6).
- `LosslessReturns`: which values survive a trip to a control and back.
  `FirstArrivalSettles`: nothing erodes on further trips, with the values named that
  do.

**Bounds.** Instances share nothing but the thread, so two show every way in
which one suspends inside another; a third would repeat them. Depth 3 is the
least at which two nested downloads have another call above them; it holds an
activation or event under the destruction of its instance, with a call of the
other instance on top. Two windows of one instance are needed for a replacement,
and a third is treated by the code as the second is; the other instance has one, as
windows are not shared. The theorems
of section 4 need none of these bounds. The other runs:

- `control_choice`: a mask of two characters has every pair of wildcard and
  letter next to each other and at both ends; two arguments give every order of
  two kinds, the lists of three a class replaced twice. Two plugins are needed to
  see that the second key is not looked at. Trusted locations of three characters
  against hosts of one to three have each entry shorter than, as long as and
  longer than a host, with and without a star, and hosts that begin with the name of
  the local host.
- `parameter_lists`: with `GrowBy` 2 the third entry makes a list grow a
  second time, so both growth and the entry just before it happen.
- `site_create`: in words of two values the number 2 wraps; the versions differ
  in each half and in the wrapped place. The objects are one for each way
  through `IsObjectSafeForScripting`. `EarlyStop` is TRUE: no code of the
  repository says that the moniker reports its end only after
  `CoGetClassObjectFromURL` has returned. If it reports earlier `Create` waits for
  a `WM_QUIT`; `CreateReturns` names this as its only exception.
- `type_information`: with one class, a dispatch interface and two more types
  there is a chain of two bases, a base with bases of its own, and a second base
  that is not followed. Two ids are one that is sought and another.
- `in_place`: a buffer needs at most two handles; the third shows one that stays
  free, or would be lost. Two rectangles tell a moved position from the old one.
  `SupportWindowless` is FALSE because `axhost.cpp:387` sets it so; the theorem
  `Following` also has the other value.
- `scriptable_refs`: two wrappers of one object and one of the other are the
  least in which counts can be confused; one kept reference of each (`MaxKept`) tells
  an object with from one without. The theorems have any number.
- `generic_array`: two elements and a gap are what padding, moving down and
  overwriting need; `MaxRefs` and `LengthBound` cut the counters. With one object
  beside `toString` each of overwriting, sharing and losing happens.
- `conversions`: three dimensions are the least with an inner call that is both
  called and calling; empty dimensions are included, and a lower bound of -1 with two
  elements has a row that is lost before one that is stored. At four bits every
  pattern of a word is tried. Three trips give two after the first arrival, in which
  nothing should change. The run has both modules of `variants.cpp`, which share
  nothing: in each behaviour one moves.

**Deadlock** is not checked, as every system here may rightly stop: an instance
has had its one life, `Create` has returned, a conversion has ended, nothing is
left to release. That nothing gets stuck before is what `host_liveness` and
`CreateReturns` show.

**Fairness.** `FairSpec` assumes that foreign code returns. Strong fairness is
needed: a frame can resume only while no other call is nested in it, and page
events may nest in it again and again. It is stated for each depth of the stack,
because the thread, not the instance, is what is scheduled. The inner
`PeekMessage` loop tests `m_bBindingInProgress` only when the queue is empty; the
assumption contains that the queue is empty now and then. Downloads stop (weak
fairness of `DownloadStops`): a moniker always reports an end. `PumpQuit`,
entry points, window messages and events need not happen. A failed `NPP_New` goes on
to its deletion of the host (weak fairness of `DeleteHost`), which is one call. `host_liveness` uses a
browser with both rules, because after a use of freed memory nothing is
promised. In `SiteCreate`, `Create` itself goes on (weak fairness of `Step`: one
call of one thread) and a download stops (weak fairness of `OnStopBinding`); a
`WM_QUIT` need not come.

## 4. What is proved

TLAPS checks every theorem for all values of the constants that satisfy the
assumptions named in the modules.

### 4.1 The host

`PluginHostProofs` holds for any set of instances and
windows, any `MaxDepth` and all four kinds of browser, under `DepthAssumption`,
`WindowAssumption`, `WindowsOfAssumption` and `BrowserAssumption`.

- `Typing`: `Spec => []TypeOK`.
- `Safety`: `Spec => [](HostInv /\ Safe)`, the inductive invariant.
- From it: `FaultSafety` (`FaultsExplained`), `GuardedSafety` (`NoFault`),
  `EntryPoints` (`LiveInstanceIsWhole`), `Advise` (`AdviseBalanced`),
  `WindowSafety` (`DeletedHostLeavesWindows`).
- `References`: `Spec => []ReferenceInv`; from it `DownloadSafety`
  (`DownloadHoldsSite`), `NoLeak` (`NothingLeaks`) and `Refinement`
  (`Spec => ImplementsLifecycle`).

**The argument.** None of these is inductive: `EventReturn` and `AttachReturn` use
whatever their frame left long ago, so the invariant must say what a suspended
call implies.

- `FramesInv`: a call is suspended in a phase that fits it, or its instance was
  destroyed under it; a `Create` frame of a destroyed instance has no host any
  more (so the loop's exit is a fault exactly then).
- `OneCreate`: an instance has at most one `Create` frame, so the frame that is
  popped was the only one that justified the phase `starting`.
- `PhaseInv`: only running, failing or closing instances have a control; a
  re-entered destruction leaves the phase `gone`.
- `WindowInv`: a host is reachable from its own window and from abandoned ones
  only; an idle or ended instance has no window.
- `GuardInv`: what the two browser rules exclude has not happened.

The proof has one step per action; a lemma about `Pop` and `Push` says which
frames remain. A fault is then impossible for an instance that is neither
re-entered nor abandoned: its `Activate` and `Event` frames find it running, thus
whole, and its windows point to a live host.

For the references a second invariant is needed. `NothingLeaks` speaks only of
the end; `ReferenceInv` says who holds what in between. `HeldInv`: the control
holds the site only while attached, a freed host leaves at most a binding's
reference, and only a running or failing instance has a sink; a failing one has its
host and exactly the site's first reference, whatever it had built. `ClosingInv`: an instance
whose host is being deleted is inside the detach of its control, and one whose
control is being activated is attached, so the late `SetClientSite` of `Attach`
adds a reference that `Detach` will take back. `DownloadHoldsSite` ties the
binding's reference to its frame. A step changes only its own instance
(`OthersSame`), so each action is treated for one instance. The refinement then
needs one lemma per action: what the invariant says before and after fixes the
stage and the holdings. An instance that fails late is still `starting` there and
holds what a starting one holds (`FailingHolds`); `DeleteHost` is the step to
`failed`.

### 4.2 The in-place site

`ControlSiteProofs`, under `SiteAssumption` (finitely many handles; `Null` and
`Stock` are none of them), proves `SiteTyping`, `BufferHeld` (`OnlyBufferIsHeld`),
`ShownInPlace` (`ShownWhereAsked`) and `Following` (`ControlFollowed`), with or
without windowless controls.
`OnlyBufferIsHeld` is not inductive: it does not say that the bitmap can be
deleted. `BufferInv` adds that a bitmap exists only in an off-screen buffer whose
old bitmap is remembered, and that the buffer's area is the one asked for; the flags
of the *last* buffer cannot be confused with those of the present one because
nothing is held between two. `ControlSafe` adds to `ControlFollowed` that a
control is idle before the site is attached.

### 4.3 Creation

`ControlSiteProofs` also, under `CreateAssumption`, proves `PolicyHolds`
(`UnmarkedIsAsked`, with its exception) and `CreateContract` (`ResultMatchesObject`)
for any versions and objects, also with `EarlyStop`. The invariant `CreateInv` has three parts
beside the types: `Decision` ties `checkForObjectSafety` to the registry as it was
when it was asked, which a download may since have changed; `Result` says at each
program counter what `hr` and `spObject` mean; `Binding` says that a callback is
registered only from the wait to the revocation, and that a good result comes
from a download that has stopped. `CreateInv` (`Creating`) contains the types
(`CreateTyping`).

`UpdateDecided` (`UpdateIffNewer`) holds for every width of a word. `HalvesCompare`
is the arithmetic behind `MAKELONG`: the sum of a digit and a multiple of the word
compares as the pair does, the multiple first. `NewerIsHigher` applies it twice.
`UpdateInv` adds that the version was compared with the registry that was asked
first, wherever the code reads it at all (`~Unread(first)`): there a version that is
not there cannot be the reason for an update.

### 4.4 References of wrappers

`ScriptableRefsProofs`, under `WrapperAssumption` (finitely many wrappers), proves
`Accounting` (`ReferencesAccounted`) and `WrapperFaults` (`FaultsExplained`). The
sum over wrappers is a cardinality; `NewCounts` and `FreeCounts` say by how much
each action changes it, from the library's theorems on finite sets. `HeldIsThere`
then gives the references that a user relies on, and `UseExplained` names the object
when they are missing. `RefInv` adds `NullExplained`: a wrapper without a control comes from a NULL that was wrapped. It
holds in all states (`RefSafety`), and with it the types (`RefTyping`).

### 4.5 Type information

`TypeInformationProofs`, under `InformationAssumption` (each type refers to higher
numbers only), proves `AttributesReturned` (`AttributesBalanced`) and `EventsKnown`
(`SinkKnowsEvents`) from the invariant `TypeInv` (`Searching`), which contains the types
(`SearchTyping`). `AttributesBalanced`
alone is not inductive: `EndCall` takes one type out of `held`, which would be wrong
if two frames looked at the same one. `FramesInv` says that the frames look at
increasing numbers; so does a new call, because a base has a higher number.
`SinkInv` follows the default source from the scan to the sink. There is one lemma
for each of the three ways in which frames change: a loop goes on, a call starts, a
call returns.

`MembersFound` (`MembersResolve`) needs what each frame has done so far.
`SearchInv` says that the frames go down the chain of first bases, each at the base of
the one around it (`OnChain`); that variables are looked at for a property only
(`ForProperty`); and that as long as nothing is found and no call has failed, each frame
has looked in vain at everything before its place in its loops (`Vain`). Its
`ResolvesFirstChain` is the result in terms of that chain alone. Hierarchy and chain are
least sets closed under bases and under first bases (`Reached`); `ChainFact` unfolds the
chain by one type, and `ChainInHierarchy` relates the two, so that members of the
hierarchy that are not found are exactly those passed over.

### 4.6 The choice of the control

`ControlChoiceProofs`, under `ChoiceAssumption`, proves `Verified`
(`ClassIsVerified`), `LastDecides` (`LastUsableDecides`) and `PolicyKnown`
(`DroppedPolicyIsKnown`), each with its exception, for lists of any length, any
registry and both builds.
`ChoiceInv` (`Choosing`) states the last two for the arguments passed so far:
`DecidesInv` without waiting for the end, `KnownInv` with the argument that made
`isKnown` true. What a round does to the class is one of two things, each a lemma:
the argument is unused, and the class stays or is forgotten (`ArgumentUnused`), or
it is used and names the class.

The verdicts are proved from the text up. `WildcardMatch` is a recursive function over
positions of the mask and of the text; `Covers`, the reference, cuts the text into one
piece per character of the mask. `RestCovered` is `Covers` from a pair of positions on, `PieceCovered` says how it
loses its first piece, `RoundCovered` that it satisfies the equation of
`WildcardMatch`, and `MatchedIsCovered` that nothing else does, so `WildcardCovers`
holds for every mask and text. `RegistryAllows` carries this to the keys of a
registry, of which the first counts (`FirstKey`). `MatchesTrusted` says that
`MatchURL2TrustedLocations` accepts what the documentation calls trusted, for every
address that is not `Misjudged`. `LocationInv` (`Locating`) then says at each round
of the two loops what the arguments passed so far have decided: `ret` is the verdict
over them, and `CodeBaseUrl` the last one that is accepted (`AcceptedBases`). From it `RegistryDecides`
(`HostSeesAllowed`) and `LocationsTrusted` (`LocationsAreTrusted`), for lists,
registries, lists of locations, masks and texts of any length. `ChoiceAssumption` types
these inputs; of `Lower` nothing is assumed. `ChoiceTyping` is the type invariant: with
`ChoiceInv`, each round stores a class or an address according to the kind of its argument.

### 4.7 Conversion of values

`ConversionProofs`, under `ArraysAssumption`, proves `NothingLeft`
(`FailedConversionLeavesNothing`) for any number of dimensions and elements. The
property speaks of the end; on the way an inner failure has released some objects
and not yet others. `CallsInv` says that each active call fills an object of its
own, later for inner calls, and the outermost call the first. `OwnInv` says that
while a failure unwinds, the objects from some number on are released, and the
innermost call's comes before them: releasing it, with all that come after, moves
that number down, and the outermost call moves it to the first. `LockInv` keeps lock
and vector together, but for the vector that could not be allocated. The objects of a
row that was not stored are in `lost` and out of reach of all releases; `LostInv` says
that this needs a negative lower bound, because only a text can find no memory.

`Matching` (`ConvertedMatches`) needs to know what belongs where before it is there.
`Object` is the converted array as a function of indices, built from the last dimension
to the first (`LayersExist`, `ObjectHolds`). `FillInv` (`Filling`) says that the call of
dimension *d* has set exactly the elements before its own index, each to `Object`
at the indices of the calls around it and its own, as far as it was `Stored`; and that
these calls are not at their ends. A return adds one element to the call around it (`SetFills`), because an
inner call that is full holds `Object` at the outer indices (`FullCall`): the shared
vector still has these when an inner loop has run over its own part. `ReadObject` is
the way back, from an object to the elements that a page reads. `ConversionTyping` is the
type invariant; `FormInv` adds to the two others that depth, vector and lock keep their form while
a failure unwinds.

Under `WordAssumption`, `Returning` (`LosslessReturns`) and `Settling`
(`FirstArrivalSettles`) hold for words, texts and arrays of any size. `TripsInv`
(`Trips`) says that what the page has after the first trip is *plain* or cannot be
given back, and what the control has is its image. The cases are lemmas: a number that
goes as an unsigned word comes back (`NumberReturns`), a text loses the NUL it was
given, because it is read up to its first one (`TextReturns`, `ReadText`), and the loop
over an array keeps the elements that are no objects (`KeptElements`). `PlainReturns` puts
them together for a single value. `VariantTyping` is the type invariant; `LengthInv` says that a
text that is longer than `MaxText` ends in the NUL that its next reader leaves out
(`ReadIsShorter`). It needs `MaxText` to be positive, because a date becomes a text.

### 4.8 Parameters and handlers

`ParameterListsProofs`, under `ListAssumption`, proves `TypeCorrect`, `Allocation`
(`InsideAllocation`), `LastHandler` (`LastHandlerCounts`) and `ParametersRead`
(`ControlReadsParameters`) for any names, any `GrowBy` and lists of any length. The
properties speak of the arguments, the lists keep only entries; `ParametersInv`
(`ParametersAreKept`) ties each entry to an argument. `PropsInOrder`: there is an
increasing map from the entries of `props` to the arguments that were stored, so the
list still has their order. `EventsKeepLast` and `SinkIsLast`: an event has one entry,
with its last handler, and the sink got what the list had. `Progress` and
`BagKeepsLast` are the loop of `Attach`: the bag has, for the entries passed so far, one
entry for each name with the last value written. `Allocated` says that each list has
memory for its entries, also when an allocation failed after the memory grew.

### 4.9 The array object

`GenericNPObjectProofs`, under `ArrayAssumption`, proves `Retaining`
(`ObjectsRetained`), `LengthCounts` (`LengthCountsElements`) and `EndedMethod`
(`EndedMethodIsQuiet`) for any objects, indices, names and bounds. Both counts are
cardinalities of sets of places; `CountSet`, `CountPadded` and `CountRemoved` say by how
much setting an element, padding and moving down change them. `ArrayInv`
(`ArrayIsKept`) adds that only finitely many names are in use, that a live array's
method is valid, and that a torn value comes from a copy that ran out of memory; it
contains the types (`ArrayTyping`).

### 4.10 Without induction over data

The library's induction theorems take an operator as a parameter, which the provers
cannot instantiate. Three things stand for them here: `LeastNumber` (in
`ControlChoiceProofs` `SmallestOf`), that a set of natural numbers has a least element,
from the well-foundedness of `<` in the library; a least counterexample in place
of an induction; and for each recursive function one that satisfies its equation, given
explicitly or shown to exist for each length, because `f[x \in S] == e` is a `CHOOSE`.
`SelectSeq`, `FoldLeft` and powers have no rules in the provers; `NotObjects`, `At`
and `Half` are written without them for this reason.

## 5. What is only model-checked

The four liveness properties (`StartingEnds`, `ThreadReturns`,
`DestroyReleasesSite`, `CreateReturns`): liveness under fairness, and `ENABLED`, are
out of the prover's reach. Every other property of a passing run is a theorem, and so is the
type invariant of every module; the runs check only that of `PluginHost`. The two
runs that end in a violation show behaviours of the code, and have no theorem.

## 6. Where code and comments differ

`ControlSite.h:86` gives the steps Create, then Attach. A window that arrives
during the download is attached first; `Attach` stores `m_hWndParent` before it
fails, so the control that arrives later is never attached. Run
`attach_before_create` has the trace.

`ControlSite.cpp:136` and `160` say that an object is tested to be safe for
scripting, and `README.md:105` that otherwise only well known controls are loaded.
The negation at line 161 applies to the options before the mask, so an object that
has enabled its option for data only passes. Run `script_safety` has the trace.

Noticed while modelling, without a run of their own. Each item of the
first group that a property touches is an exception the property names.

*Choice and creation*

- `README.md:47-49`: a trusted location without a star must match the domain name
  exactly, and a star stands for the rest. The code compares as many characters as the
  *host* has (`ffactivex.cpp:186`), so an entry covers every prefix of it, and every host
  whose name begins with the one of the local host counts as local
  (`ffactivex.cpp:160`). `Misjudged` is both.
- `axhost.cpp:294`: the list of vulnerable controls is checked under the text the page
  gave. A program id given as `clsid` is resolved by `CLSIDFromString` all the same, but
  the list has no key of that name, so that its kill bit is not seen.
- `README.md:69` and `105`: the policy is dropped for a control that is well known.
  `isKnown` stays when a later argument names another class (`axhost.cpp:284-292`), so
  where unknown controls are accepted too, one is created without the policy beside a
  well known class id. With the registry every class id counts as well known. A
  program id does so only where no others are accepted (`axhost.cpp:324`), so a well
  known one keeps the policy elsewhere.
- `ControlSite.cpp:278-300`: for a class without a file in the registry (not
  installed, or with a local server only) the result of a query that was not made
  decides whether versions are compared, and a file without a version has a buffer
  read that nobody filled. Whether the control is replaced is chance there.
- `README.md:105`: a class that is not installed and has a code base is not asked
  about its safety (`ControlSite.cpp:247`); `UnmarkedIsAsked` is about installed
  classes for this reason.
- `scriptable.h:51-53`: all base interfaces are searched. Each round of the loop
  asks for the first one (`GetRefTypeOfImplType` with a constant), which is then
  searched as often as there are bases; members behind a later base are not found.

*What is lost or kept*

- `variants.cpp:271-286`: the array is unlocked and the index vector freed after a
  failure only. A conversion that succeeds leaves the array locked and the vector
  allocated.
- `variants.cpp:198-247`: elements are read only from arrays of VARIANTs, BSTRs and
  interfaces. An array of plain numbers is converted to one whose elements are all void.
- `GenericNPObject.cpp:427-440`: an element under a negative index is lost: the
  vector throws, and the copy made before is never released, be it a text, a wrapper or
  the object of a whole row. `setproperty` answers true, and `variants.cpp:265` looks
  at no answer.
- `scriptable.h:277-288`, `316-324`: no result is cleared. Wrappers rely on that for
  their second reference, but an array of interfaces keeps its own beside the one of
  `SafeArrayGetElement`, and so does an array that is not converted. The BSTRs that
  `SafeArrayGetElement` makes (`variants.cpp:214-222`) are never freed either.
- `GenericNPObject.cpp:409`, `434`: a value that is set again is overwritten without
  being released. A copy that finds no memory leaves the type of the new value with
  the contents of the old (line 322); the model calls it `"torn"`.
- `GenericNPObject.cpp:208`: a `toString` that a page has kept reads its array also
  when the browser has freed that while the instance lives.
- `GenericNPObject.cpp:173`: the `toString` of an empty array writes the byte
  before its text. The model records it as the fault `"underrun"`.
- `variants.cpp:456`: an array that went through a control comes back as an object of
  the plugin whose names are texts, under which a page finds no element.
- `scriptable.h:74`: after a failed `GetFuncDesc` the loop still releases what the
  pointer holds, the descriptor of the round before or nothing that was ever
  assigned; the same for variables. `held` is about `TYPEATTR`s only.

*Windows and drawing*

- `ffactivex.cpp:297`: "the actual control will be created once we are given a
  window handle". `NPP_New` creates it at once (line 387).
- `axhost.cpp:196`: a window replaced directly by another is never restored; its
  procedure reads a deleted host. `DeletedHostLeavesWindows` names exactly these.
- `axhost.cpp:224`: a site is attached once. When the browser gives another window
  the rectangle follows, and the control stays in the old one.
- `ControlSite.cpp:1173`: the origin of an off-screen buffer is moved by its
  corner, not back by it, so a buffer not at the origin draws beside its bitmap.
- `axhost.cpp:127` returns `result` as it is when `OnDefWindowMessage` handled
  nothing, which is not initialised.
- `ffactivex.cpp:46`: an entry of the trusted locations with a star does not match
  the bare domain behind it, as the host has to be as long as the entry with its star.
- `ffactivex.cpp:133`: the log calls a function of the page, from nearly every
  place in the code. There any other call can nest, also where the model has no
  frame (section 7).

## 7. What is not modelled

- *Nesting at log calls*: where logging to the page is switched on, calls may nest
  at every log line (`ffactivex.cpp:133`). The five frame kinds are the places where
  they nest in every configuration; a kind for each log line would multiply the
  states of the host by the lines of the code.
- *Calls of a page into the control* are one step. The control may pump messages
  in a method; the wrapper, which the page holds, then converts the result for an
  instance that may have been destroyed meanwhile (`scriptable.h:287`). This would
  be a sixth frame kind, and comes first in the plan.
- *Drawing*: nothing calls `Draw`, `DoVerb` or `Advise` of the site, and pixels are
  not modelled. `InvalidateRgn` only asks the browser to draw.
- *Ambient properties*, item container, in-place frame: constants, or stubs that
  answer `E_NOTIMPL`. `LockInPlaceActive` stores a flag nothing reads.
- *Command target*: no table of commands is ever filled in, so `QueryStatus` and
  `Exec` answer that no command is known, and keep no state.
- `NP_Initialize`, `NP_Shutdown` and the COM entry points of the DLL fill tables
  once and keep no other state.
- How the address of a page is fetched (only whether it is there), how a URL is
  cracked, formatting: no state depends on them.
- *Who holds the property bag*: the one made in `Attach` is never released; a site
  is attached once, so it is one for each site.
- The version tool and the packaging run at build time.

## 8. Plan

Models, in this order: calls of a page that are suspended in the control, composed
of `ScriptableRefs` and `PluginHost`; nesting at log calls, for the parts of
`NPP_New` between two of them; a second subscription of a sink, should a caller
of `SubscribeToEvents` be added.

Theorems: for each new model its type invariant and its safety properties, and that the
present ones are kept by the composition.
