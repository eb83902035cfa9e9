----------------------------- MODULE PluginHost -----------------------------
(***************************************************************************)
(* The life of the plugin's instances: the NPP_ entry points of            *)
(* ffactivex.cpp driving CAxHost (axhost.cpp), its window, its control     *)
(* site and its event sink, on the browser's one plugin thread.            *)
(***************************************************************************)
EXTENDS HostWindow, ControlEventSink

CONSTANTS DeferDestroy,     \* the browser holds NPP_Destroy back while a call
                            \* of the same instance is suspended
          ClearWindowFirst  \* the browser passes a NULL window between two

ASSUME BrowserAssumption == DeferDestroy \in BOOLEAN /\ ClearWindowFirst \in BOOLEAN

VARIABLES pdata,       \* instance->pdata is not NULL
          host,        \* the CAxHost of the instance
          phase,       \* what the browser knows of the instance; "failing" when
                       \* NPP_New has failed and is about to delete the host
          fault,       \* history: calls of the instance that used freed memory
          reentered    \* history: destroyed under a suspended call of its own

hostVars == <<pdata, host, phase>>
vars == <<stack, winVars, siteVars, sinkVars, hostVars, fault, reentered>>

HostTypeOK ==
  /\ pdata \in [Instances -> BOOLEAN]
  /\ host \in [Instances -> {"none", "live", "freed"}]
  /\ phase \in [Instances -> {"idle", "starting", "running", "failing", "failed", "gone"}]
  /\ fault \in SUBSET Instances
  /\ reentered \in SUBSET Instances

TypeOK == StackTypeOK /\ WindowTypeOK /\ SiteTypeOK /\ SinkTypeOK /\ HostTypeOK

Init ==
  /\ stack = <<>>
  /\ WindowInit
  /\ SiteInit
  /\ SinkInit
  /\ pdata = [i \in Instances |-> FALSE]
  /\ host = [i \in Instances |-> "none"]
  /\ phase = [i \in Instances |-> "idle"]
  /\ fault = {}
  /\ reentered = {}

Uses(i, ok) == fault' = IF ok THEN fault ELSE fault \cup {i}

-----------------------------------------------------------------------------
(***************************************************************************)
(* NPP_New, up to the point where it returns or waits for a download.      *)
(***************************************************************************)

\* TestAuthorization or VerifySiteLock refuses before a host exists.
NotAuthorized(i) ==
  /\ phase' = [phase EXCEPT ![i] = "failed"]
  /\ UNCHANGED <<stack, winVars, siteVars, sinkVars, pdata, host>>

\* No argument gave a valid class id: the host is deleted, pdata never set.
NoValidClsID(i) ==
  /\ phase' = [phase EXCEPT ![i] = "failed"]
  /\ host' = [host EXCEPT ![i] = "freed"]
  /\ UNCHANGED <<stack, winVars, siteVars, sinkVars, pdata>>

\* CreateControl fails, before or after a download.  The site may have no object,
\* or one that is not safe and was kept with the error; or the sink was made, and
\* cannot subscribe to the events that are requested.
FailNew(i) ==
  /\ phase' = [phase EXCEPT ![i] = "failing"]
  /\ host' = [host EXCEPT ![i] = "live"]
  /\ pdata' = [pdata EXCEPT ![i] = TRUE]
  /\ siteRefs' = [siteRefs EXCEPT ![i] = {"host"}]
  /\ binding' = [binding EXCEPT ![i] = "none"]
  /\ \/ /\ \E made \in BOOLEAN : object' = [object EXCEPT ![i] = made]
        /\ UNCHANGED sinkVars
     \/ /\ object' = [object EXCEPT ![i] = TRUE]
        /\ Subscribe(i, FALSE, FALSE)
  /\ UNCHANGED <<attached, parent, winVars>>

\* CreateControl after Create succeeded, and the AddEventHandler loop.  A sink
\* that cannot subscribe is kept when no events were requested.
FinishNew(i) ==
  /\ \E connects \in BOOLEAN, hooked \in BOOLEAN :
       /\ hooked => connects
       /\ Subscribe(i, connects, hooked)
  /\ phase' = [phase EXCEPT ![i] = "running"]
  /\ host' = [host EXCEPT ![i] = "live"]
  /\ pdata' = [pdata EXCEPT ![i] = TRUE]
  /\ object' = [object EXCEPT ![i] = TRUE]
  /\ UNCHANGED <<attached, parent, winVars>>

\* Create finds the class without a download.
CreateAtOnce(i) ==
  /\ siteRefs' = [siteRefs EXCEPT ![i] = {"host"}]
  /\ FinishNew(i)
  /\ UNCHANGED <<stack, binding>>

\* pdata is set after CreateControl, not before.
MutantStartDownload(i) ==
  /\ StartBinding(i)
  /\ phase' = [phase EXCEPT ![i] = "starting"]
  /\ host' = [host EXCEPT ![i] = "live"]
  /\ UNCHANGED <<winVars, sinkVars, pdata>>

\* Create waits for the download of the control in its own message loop.
StartDownload(i) ==
  /\ StartBinding(i)
  /\ phase' = [phase EXCEPT ![i] = "starting"]
  /\ host' = [host EXCEPT ![i] = "live"]
  /\ pdata' = [pdata EXCEPT ![i] = TRUE]
  /\ UNCHANGED <<winVars, sinkVars>>

NPP_New(i) ==
  /\ phase[i] = "idle"
  /\ \/ NotAuthorized(i)
     \/ NoValidClsID(i)
     \/ FailNew(i) /\ UNCHANGED stack
     \/ CreateAtOnce(i)
     \/ StartDownload(i)
  /\ UNCHANGED <<fault, reentered>>

\* The host is deleted without its window.
MutantDeleteHost(i) ==
  /\ phase[i] = "failing"
  /\ phase' = [phase EXCEPT ![i] = "failed"]
  /\ host' = [host EXCEPT ![i] = "freed"]
  /\ ReleaseSink(i)
  /\ DetachAndRelease(i)
  /\ UNCHANGED <<stack, winVars, pdata, fault, reentered>>

\* The delete at the end of a NPP_New that failed runs ~CAxHost: window, sink,
\* then the site, whose control is not attached.  pdata keeps pointing to the
\* deleted host.
DeleteHost(i) ==
  /\ phase[i] = "failing"
  /\ phase' = [phase EXCEPT ![i] = "failed"]
  /\ host' = [host EXCEPT ![i] = "freed"]
  /\ ReleaseWindow(i)
  /\ ReleaseSink(i)
  /\ DetachAndRelease(i)
  /\ UNCHANGED <<stack, pdata, fault, reentered>>

-----------------------------------------------------------------------------
(***************************************************************************)
(* The return of CControlSite::Create from its message loop, into the rest *)
(* of NPP_New.                                                             *)
(***************************************************************************)

\* NPP_Destroy ran inside the loop: the site dies with its bind status
\* callback, and the code that follows uses it and the host.
ResumeInFreedHost(i) ==
  /\ host[i] = "freed"
  /\ EndBinding(i)
  /\ fault' = fault \cup {i}
  /\ UNCHANGED <<object, attached, parent, winVars, sinkVars, hostVars>>

\* The download failed, or the class cannot be created after it.
CreateFails(i) ==
  /\ host[i] = "live"
  /\ FailNew(i)
  /\ Pop
  /\ UNCHANGED fault

\* The control exists after its download.
CreateSucceeds(i) ==
  /\ host[i] = "live"
  /\ binding[i] = "ok"
  /\ EndBinding(i)
  /\ FinishNew(i)
  /\ UNCHANGED fault

\* The loop ends only with a successful download.
MutantPumpExit(i) ==
  /\ Innermost("Create", i)
  /\ binding[i] = "ok"
  /\ ResumeInFreedHost(i) \/ CreateFails(i) \/ CreateSucceeds(i)
  /\ UNCHANGED reentered

\* The loop found that its binding has stopped.
PumpExit(i) ==
  /\ Innermost("Create", i)
  /\ binding[i] \in {"ok", "failed"}
  /\ ResumeInFreedHost(i) \/ CreateFails(i) \/ CreateSucceeds(i)
  /\ UNCHANGED reentered

\* The loop took a WM_QUIT and gave up the download.
PumpQuit(i) ==
  /\ Innermost("Create", i)
  /\ binding[i] = "inProgress"
  /\ ResumeInFreedHost(i) \/ CreateFails(i)
  /\ UNCHANGED reentered

\* The end of a download is reported, whatever else is suspended.
DownloadStops(i) ==
  /\ OnStopBinding(i)
  /\ UNCHANGED <<winVars, sinkVars, hostVars, fault, reentered>>

-----------------------------------------------------------------------------
\* NPP_SetWindow: pdata is a live host as soon as NPP_New has set it, also
\* while NPP_New still waits for a download.
NPP_SetWindow(i, w) ==
  /\ phase[i] \in {"starting", "running"}
  /\ w \in WindowsOf[i] \cup {NoWindow}
  /\ ClearWindowFirst => w = NoWindow \/ window[i] \in {w, NoWindow}
  /\ setWindow(i, w)
  /\ UpdateRect(i, w)
  /\ UNCHANGED <<sinkVars, hostVars, fault, reentered>>

\* DoVerb returns into Attach and UpdateRect.
AttachReturn(i) ==
  /\ Innermost("Activate", i)
  /\ Pop
  /\ Uses(i, host[i] = "live")
  /\ IF host[i] = "live" THEN SetClientSite(i) ELSE UNCHANGED siteVars
  /\ UNCHANGED <<winVars, sinkVars, hostVars, reentered>>

\* SetObjectRects returns into UpdateRect.
MoveReturn(i) ==
  /\ Innermost("Move", i)
  /\ Pop
  /\ Uses(i, host[i] = "live")
  /\ UNCHANGED <<winVars, siteVars, sinkVars, hostVars, reentered>>

\* NPP_HandleEvent and NPP_GetValue, for as long as the browser knows the
\* instance: both follow pdata to the host, and use its site unchecked.
NPP_HandleEvent(i) ==
  /\ phase[i] \in {"starting", "running"}
  /\ Uses(i, pdata[i] => host[i] = "live" /\ "host" \in siteRefs[i])
  /\ UNCHANGED <<stack, winVars, siteVars, sinkVars, hostVars, reentered>>

NPP_GetValue(i) ==
  /\ phase[i] \in {"starting", "running"}
  /\ Uses(i, pdata[i] => host[i] = "live" /\ "host" \in siteRefs[i])
  /\ UNCHANGED <<stack, winVars, siteVars, sinkVars, hostVars, reentered>>

\* A focus or size message of a window that still has AxHostWinProc: the host
\* in its GWL_USERDATA, if any, is asked for its site.
AxHostWinProc(i, w) ==
  /\ w \in axProc[i]
  /\ Uses(i, w \in userData[i] => host[i] = "live")
  /\ UNCHANGED <<stack, winVars, siteVars, sinkVars, hostVars, reentered>>

-----------------------------------------------------------------------------
\* The control fires an event that has a handler: InternalInvoke calls the
\* page's function.
FireEvent(i) ==
  /\ "control" \in sinkRefs[i]
  /\ handlers[i]
  /\ \E wants \in BOOLEAN : Push(EventCall(i, wants))
  /\ UNCHANGED <<winVars, siteVars, sinkVars, hostVars, fault, reentered>>

\* The handler returns or throws; a result is converted with the sink's
\* instance member.
EventReturn(i) ==
  /\ Innermost("Event", i)
  /\ \E success \in BOOLEAN : Uses(i, success /\ Top.wants => sinkRefs[i] # {})
  /\ Pop
  /\ UNCHANGED <<winVars, siteVars, sinkVars, hostVars, reentered>>

-----------------------------------------------------------------------------
\* NPP_Destroy deletes the host: its window, its sink, then its site.  The
\* detach of an attached control is a call into the control.
NPP_Destroy(i) ==
  /\ phase[i] \in {"starting", "running"}
  /\ DeferDestroy => ~OnStack(i)
  /\ phase' = [phase EXCEPT ![i] = "gone"]
  /\ ReleaseWindow(i)
  /\ ReleaseSink(i)
  /\ IF attached[i]
     THEN /\ Push(Call("Detach", i))
          /\ UNCHANGED <<siteVars, pdata, host>>
     ELSE /\ DetachAndRelease(i)
          /\ pdata' = [pdata EXCEPT ![i] = FALSE]
          /\ host' = [host EXCEPT ![i] = "freed"]
          /\ UNCHANGED stack
  /\ reentered' = IF OnStack(i) THEN reentered \cup {i} ELSE reentered
  /\ UNCHANGED fault

\* The control has let go of the site and the host is freed.
DetachReturn(i) ==
  /\ Innermost("Detach", i)
  /\ Pop
  /\ DetachAndRelease(i)
  /\ pdata' = [pdata EXCEPT ![i] = FALSE]
  /\ host' = [host EXCEPT ![i] = "freed"]
  /\ UNCHANGED <<winVars, sinkVars, phase, fault, reentered>>

-----------------------------------------------------------------------------
\* What may happen while no NPP_New is about to delete its host.
Step(i) ==
  \/ NPP_New(i)
  \/ PumpExit(i)
  \/ PumpQuit(i)
  \/ DownloadStops(i)
  \/ \E w \in Windows \cup {NoWindow} : NPP_SetWindow(i, w)
  \/ AttachReturn(i)
  \/ MoveReturn(i)
  \/ NPP_HandleEvent(i)
  \/ NPP_GetValue(i)
  \/ \E w \in Windows : AxHostWinProc(i, w)
  \/ FireEvent(i)
  \/ EventReturn(i)
  \/ NPP_Destroy(i)
  \/ DetachReturn(i)

\* Nothing is said of what the program does after it used freed memory.
Next ==
  /\ fault = {}
  /\ \/ \E i \in Instances : DeleteHost(i)
     \/ /\ \A i \in Instances : phase[i] # "failing"
        /\ \E i \in Instances : Step(i)

\* A suspended call returns.
Return == \E i \in Instances :
  PumpExit(i) \/ AttachReturn(i) \/ MoveReturn(i) \/ EventReturn(i) \/ DetachReturn(i)

Spec == Init /\ [][Next]_vars

(***************************************************************************)
(* Every call into foreign code ends, the message loop of Create finds its *)
(* queue empty, every download stops, and a NPP_New that failed goes on.   *)
(* A call at some depth can resume only while no other call is nested in   *)
(* it, hence strong fairness for each depth of the stack.                  *)
(***************************************************************************)
Fairness ==
  /\ \A n \in 1 .. MaxDepth : SF_vars(Return /\ Len(stack) = n)
  /\ \A i \in Instances : WF_vars(DownloadStops(i)) /\ WF_vars(DeleteHost(i))

FairSpec == Spec /\ Fairness

-----------------------------------------------------------------------------
\* Freed memory is used only in one of two ways: the browser destroyed the
\* instance under one of its own suspended calls, or it gave an instance a
\* second window without taking the first back.
FaultsExplained == \A i \in fault : i \in reentered \/ abandoned[i] # {}

\* With a browser that does neither, the plugin never uses freed memory.
NoFault == DeferDestroy /\ ClearWindowFirst => fault = {}

\* pdata, host and site are there from the first suspension of NPP_New on, the
\* control and the sink once NPP_New has returned.
EntryPointsFind == \A i \in Instances :
  /\ phase[i] \in {"starting", "running"} =>
       pdata[i] /\ host[i] = "live" /\ "host" \in siteRefs[i]
  /\ phase[i] = "running" => object[i] /\ "host" \in sinkRefs[i]

StalePdataOnlyAfterError == \A i \in Instances :
  pdata[i] /\ host[i] # "live" => phase[i] = "failed"

\* An instance the browser may call has all that the entry points use without a
\* check; and pdata is cleared with the host, so that it points to a deleted one
\* only after an NPP_New that reported an error.
LiveInstanceIsWhole == EntryPointsFind /\ StalePdataOnlyAfterError

\* The sink's own view of its subscription matches the control's reference on
\* it, through failed starts and re-entrant destruction, so no event reaches
\* the plugin for an instance that is not running.
AdviseBalanced == \A i \in Instances :
  /\ "control" \in sinkRefs[i] <=> subscribed[i]
  /\ subscribed[i] => phase[i] = "running"

\* A download in progress holds its site until its message loop resumes, also
\* when the host was deleted meanwhile: OnStopBinding never finds it gone.
DownloadHoldsSite == \A i \in Instances :
  /\ "bind" \in siteRefs[i] <=> Suspended("Create", i)
  /\ binding[i] = "inProgress" => "bind" \in siteRefs[i]

\* A deleted host is remembered by no window but those that were replaced by
\* another window directly.
DeletedHostLeavesWindows == \A i \in Instances :
  host[i] = "freed" => userData[i] \subseteq abandoned[i]

\* When an instance has ended, by an error or by NPP_Destroy, and its calls
\* have returned, nobody holds its site or sink and no control is attached.
NothingLeaks == \A i \in Instances :
  phase[i] \in {"failed", "gone"} /\ ~OnStack(i) /\ i \notin fault =>
    /\ host[i] # "live"
    /\ siteRefs[i] = {} /\ sinkRefs[i] = {}
    /\ ~object[i] /\ ~attached[i]

\* NPP_New does not wait for ever, however downloads of several instances nest
\* in each other's message loops and whatever events run in between.
StartingEnds == \A i \in Instances : phase[i] = "starting" ~> phase[i] # "starting"

\* The plugin gives the thread back to the browser again and again.
ThreadReturns == []<>(stack = <<>>)

\* A destroyed instance lets go of its site, however the detach of its control is
\* nested with the calls of other instances.
DestroyReleasesSite == \A i \in Instances :
  phase[i] = "gone" ~> host[i] = "freed" /\ siteRefs[i] = {}

-----------------------------------------------------------------------------
(***************************************************************************)
(* The inductive invariant behind the safety properties: what a suspended  *)
(* call implies for its instance, what each phase implies for the host,    *)
(* and which windows can still reach a host.                               *)
(***************************************************************************)

\* A call is suspended in a phase that fits it, or its instance was destroyed
\* under it; a download whose instance was destroyed has no host any more.
FrameFits(f) ==
  /\ f.kind = "Create" =>
       phase[f.inst] = "starting" \/ (f.inst \in reentered /\ host[f.inst] = "freed")
  /\ f.kind \in {"Activate", "Move", "Event"} => phase[f.inst] = "running" \/ f.inst \in reentered
  /\ f.kind = "Detach" => phase[f.inst] = "gone"

FramesInv == \A n \in DOMAIN stack : FrameFits(stack[n])

OneCreate == \A m, n \in DOMAIN stack :
  stack[m].kind = "Create" /\ stack[n].kind = "Create" /\ stack[m].inst = stack[n].inst
    => m = n

PhaseInv == \A i \in Instances :
  /\ phase[i] = "idle" => host[i] = "none"
  /\ phase[i] = "failing" => host[i] = "live"
  /\ object[i] => phase[i] \in {"running", "failing", "gone"}
  /\ attached[i] => object[i]
  /\ i \in reentered => phase[i] = "gone"

WindowInv == \A i \in Instances :
  /\ userData[i] \subseteq abandoned[i] \cup {window[i]}
  /\ window[i] # NoWindow => phase[i] \in {"starting", "running", "failing"}
  /\ host[i] = "none" => userData[i] = {}

\* What only a browser that keeps both rules guarantees.
GuardInv ==
  /\ DeferDestroy => reentered = {}
  /\ ClearWindowFirst => \A i \in Instances : abandoned[i] = {}

\* The part of the invariant that says why no call uses freed memory.
HostInv == FramesInv /\ OneCreate /\ PhaseInv /\ WindowInv /\ GuardInv

-----------------------------------------------------------------------------
(***************************************************************************)
(* The references behind NothingLeaks, DownloadHoldsSite and the           *)
(* refinement below.                                                       *)
(***************************************************************************)

\* What a site and a sink are held by, in each phase.
HeldInv == \A i \in Instances :
  /\ "control" \in siteRefs[i] => attached[i]
  /\ phase[i] \in {"idle", "failed"} => siteRefs[i] = {} /\ host[i] # "live"
  /\ host[i] = "freed" => siteRefs[i] \subseteq {"bind"} /\ ~attached[i] /\ ~object[i]
  /\ phase[i] = "gone" => host[i] # "none"
  /\ phase[i] \notin {"running", "failing"} => sinkRefs[i] = {}
  /\ phase[i] = "failing" =>
       siteRefs[i] = {"host"} /\ sinkRefs[i] \subseteq {"host"} /\ ~attached[i] /\ host[i] = "live"

\* An instance whose host is being deleted is inside the detach of its control,
\* and a control being activated has been attached.
ClosingInv == \A i \in Instances :
  /\ phase[i] = "gone" /\ host[i] = "live" =>
       Suspended("Detach", i) /\ "host" \in siteRefs[i]
  /\ Suspended("Activate", i) => attached[i] \/ host[i] = "freed"

ReferenceInv == HeldInv /\ ClosingInv /\ DownloadHoldsSite

-----------------------------------------------------------------------------
(***************************************************************************)
(* The plugin as the browser sees it.                                      *)
(***************************************************************************)

\* An instance is closing as long as NPP_Destroy, or a call it interrupted,
\* still holds the site; it is still starting when its NPP_New is failing.
Stage(i) ==
  CASE phase[i] = "failing" -> "starting"
    [] phase[i] \notin {"failing", "gone"} -> phase[i]
    [] phase[i] = "gone" /\ siteRefs[i] # {} -> "closing"
    [] OTHER -> "released"

Held(i) ==
  {r \in {"window", "site", "sink"} :
     \/ r = "window" /\ window[i] # NoWindow
     \/ r = "site" /\ siteRefs[i] # {}
     \/ r = "sink" /\ sinkRefs[i] # {} /\ phase[i] # "failing"}

Lifecycle == INSTANCE InstanceLifecycle WITH
  state <- [i \in Instances |-> Stage(i)],
  holds <- [i \in Instances |-> Held(i)]

\* Through any nesting of calls and on every error path, each instance goes
\* through its stages in order, holds in each stage what InstanceLifecycle says,
\* and nothing any more once it has failed or is released.
ImplementsLifecycle == Lifecycle!Spec

-----------------------------------------------------------------------------
(***************************************************************************)
(* What a comment of the code says, and the code does not do.              *)
(***************************************************************************)

\* ControlSite.h:86: the "normal steps to hosting a control" are Create, then
\* Attach.
AttachFollowsCreate == \A i \in Instances :
  phase[i] \in {"starting", "running"} /\ parent[i] # NoWindow => object[i]
=============================================================================
