-------------------------- MODULE PluginHostProofs --------------------------
(***************************************************************************)
(* Theorems about PluginHost, for every set of instances and windows,      *)
(* every bound on nesting and every browser: first what is about faults    *)
(* and windows, then the references, and the proof that PluginHost         *)
(* implements InstanceLifecycle.                                           *)
(***************************************************************************)
EXTENDS PluginHost, TLAPS

-----------------------------------------------------------------------------
(***************************************************************************)
(* The stack of suspended calls.                                           *)
(***************************************************************************)

\* A call that suspends becomes the last frame; the others stay.
LEMMA PushFrames ==
  ASSUME StackTypeOK, NEW f \in Frame, Push(f)
  PROVE  /\ StackTypeOK'
         /\ Len(stack) + 1 \in DOMAIN stack' /\ stack'[Len(stack) + 1] = f
         /\ \A n \in DOMAIN stack : n \in DOMAIN stack' /\ stack'[n] = stack[n]
         /\ \A n \in DOMAIN stack' : n \in DOMAIN stack \/ n = Len(stack) + 1
         /\ Len(stack) + 1 \notin DOMAIN stack
BY DEF StackTypeOK, Push

\* A call that returns takes the last frame with it; the others stay.
LEMMA PopFrames ==
  ASSUME StackTypeOK, stack # <<>>, Pop
  PROVE  /\ StackTypeOK'
         /\ Len(stack) \in DOMAIN stack
         /\ \A n \in DOMAIN stack' :
              n \in DOMAIN stack /\ n # Len(stack) /\ stack'[n] = stack[n]
         /\ \A n \in DOMAIN stack : n # Len(stack) => n \in DOMAIN stack'
BY DEF StackTypeOK, Pop

\* The frames the actions push are frames.
LEMMA CallFrames ==
  ASSUME NEW i \in Instances
  PROVE  /\ \A k \in {"Create", "Activate", "Move", "Detach"} : Call(k, i) \in Frame
         /\ \A wants \in BOOLEAN : EventCall(i, wants) \in Frame
BY DEF Call, EventCall, Frame

-----------------------------------------------------------------------------
(***************************************************************************)
(* Types.                                                                  *)
(***************************************************************************)

\* The variables other than the stack; the frames have lemmas of their own.
FieldsTypeOK == WindowTypeOK /\ SiteTypeOK /\ SinkTypeOK /\ HostTypeOK

\* The failing end of NPP_New keeps the types, whatever it has built.
LEMMA FailNewType ==
  ASSUME FieldsTypeOK, NEW i \in Instances, FailNew(i), UNCHANGED <<fault, reentered>>
  PROVE  FieldsTypeOK'
<1>1. SiteTypeOK'
  BY DEF FieldsTypeOK, SiteTypeOK, FailNew
<1>2. SinkTypeOK'
  BY DEF FieldsTypeOK, SinkTypeOK, FailNew, Subscribe, sinkVars
<1>3. WindowTypeOK' /\ HostTypeOK'
  BY DEF FieldsTypeOK, WindowTypeOK, HostTypeOK, FailNew, winVars
<1> QED BY <1>1, <1>2, <1>3 DEF FieldsTypeOK

\* Every step of NPP_New keeps the types.
LEMMA NewType ==
  ASSUME FieldsTypeOK, StackTypeOK, NEW i \in Instances, NPP_New(i)
  PROVE  FieldsTypeOK' /\ StackTypeOK'
<1>1. CASE NotAuthorized(i)
  BY <1>1 DEF NPP_New, NotAuthorized, FieldsTypeOK, StackTypeOK, WindowTypeOK, SiteTypeOK,
     SinkTypeOK, HostTypeOK, winVars, siteVars, sinkVars
<1>2. CASE NoValidClsID(i)
  BY <1>2 DEF NPP_New, NoValidClsID, FieldsTypeOK, StackTypeOK, WindowTypeOK, SiteTypeOK,
     SinkTypeOK, HostTypeOK, winVars, siteVars, sinkVars
<1>3. CASE FailNew(i) /\ UNCHANGED stack
  BY <1>3, FailNewType DEF NPP_New, StackTypeOK
<1>4. CASE CreateAtOnce(i)
  BY <1>4 DEF NPP_New, CreateAtOnce, FinishNew, Subscribe, FieldsTypeOK, StackTypeOK,
     WindowTypeOK, SiteTypeOK, SinkTypeOK, HostTypeOK, winVars
<1>5. CASE StartDownload(i)
  BY <1>5, PushFrames, CallFrames DEF NPP_New, StartDownload, StartBinding, FieldsTypeOK,
     WindowTypeOK, SiteTypeOK, SinkTypeOK, HostTypeOK, winVars, sinkVars
<1> QED BY <1>1, <1>2, <1>3, <1>4, <1>5 DEF NPP_New

\* Both ways out of the message loop of Create keep the types.
LEMMA PumpType ==
  ASSUME FieldsTypeOK, StackTypeOK, NEW i \in Instances, PumpExit(i) \/ PumpQuit(i)
  PROVE  FieldsTypeOK' /\ StackTypeOK'
<1>1. StackTypeOK'
  BY PopFrames DEF PumpExit, PumpQuit, Innermost, ResumeInFreedHost, CreateFails,
     CreateSucceeds, EndBinding
<1>2. CASE ResumeInFreedHost(i)
  BY <1>1, <1>2 DEF PumpExit, PumpQuit, ResumeInFreedHost, EndBinding, FieldsTypeOK, WindowTypeOK,
     SiteTypeOK, SinkTypeOK, HostTypeOK, winVars, sinkVars, hostVars
<1>3. CASE CreateFails(i)
  BY <1>1, <1>3, FailNewType DEF PumpExit, PumpQuit, CreateFails
<1>4. CASE CreateSucceeds(i)
  BY <1>1, <1>4 DEF PumpExit, PumpQuit, CreateSucceeds, EndBinding, FinishNew, Subscribe,
     FieldsTypeOK, WindowTypeOK, SiteTypeOK, SinkTypeOK, HostTypeOK, winVars
<1> QED BY <1>2, <1>3, <1>4, <1>1 DEF PumpExit, PumpQuit

\* Setting a window, and the attach it may start, keep the types.
LEMMA SetWindowType ==
  ASSUME FieldsTypeOK, StackTypeOK, NEW i \in Instances, NEW w \in Windows \cup {NoWindow},
         NPP_SetWindow(i, w)
  PROVE  FieldsTypeOK' /\ StackTypeOK'
<1>1. setWindow(i, w) => WindowTypeOK'
  BY DEF setWindow, Subclass, Unsubclass, FieldsTypeOK, WindowTypeOK, winVars
<1>2. CASE Attach(i, w)
  <2>1. SiteTypeOK'
    <3>1. attached' \in {attached, [attached EXCEPT ![i] = TRUE]}
      BY <1>2 DEF Attach
    <3>2. siteRefs' \in {siteRefs, [siteRefs EXCEPT ![i] = @ \cup {"control"}]}
      BY <1>2 DEF Attach
    <3>3. attached' \in [Instances -> BOOLEAN]
      BY <3>1 DEF FieldsTypeOK, SiteTypeOK
    <3>4. siteRefs' \in [Instances -> SUBSET {"host", "bind", "control"}]
      BY <3>2 DEF FieldsTypeOK, SiteTypeOK
    <3>5. parent' \in [Instances -> Windows \cup {NoWindow}]
      BY <1>2 DEF Attach, FieldsTypeOK, SiteTypeOK
    <3> QED BY <1>2, <3>3, <3>4, <3>5 DEF Attach, FieldsTypeOK, SiteTypeOK
  <2>2. StackTypeOK'
    BY <1>2, PushFrames, CallFrames DEF Attach, StackTypeOK
  <2> QED BY <1>1, <2>1, <2>2 DEF NPP_SetWindow, FieldsTypeOK, SinkTypeOK, HostTypeOK,
     sinkVars, hostVars
<1>4. CASE SetPosition(i)
  <2>1. StackTypeOK'
    BY <1>4, PushFrames, CallFrames DEF SetPosition, StackTypeOK
  <2> QED BY <1>1, <1>4, <2>1 DEF SetPosition, NPP_SetWindow, FieldsTypeOK, SiteTypeOK,
     SinkTypeOK, HostTypeOK, siteVars, sinkVars, hostVars
<1>3. CASE UNCHANGED <<stack, siteVars>>
  BY <1>1, <1>3 DEF NPP_SetWindow, FieldsTypeOK, StackTypeOK, SiteTypeOK, SinkTypeOK, HostTypeOK,
     siteVars, sinkVars, hostVars
<1> QED BY <1>2, <1>3, <1>4 DEF NPP_SetWindow, UpdateRect

\* Deleting the host of an instance keeps the types.
LEMMA DestroyType ==
  ASSUME FieldsTypeOK, StackTypeOK, NEW i \in Instances,
         NPP_Destroy(i) \/ DetachReturn(i) \/ DeleteHost(i)
  PROVE  FieldsTypeOK' /\ StackTypeOK'
<1>1. CASE NPP_Destroy(i)
  <2>1. StackTypeOK'
    BY <1>1, PushFrames, CallFrames DEF NPP_Destroy, StackTypeOK
  <2>2. WindowTypeOK' /\ SinkTypeOK'
    BY <1>1 DEF NPP_Destroy, ReleaseWindow, ReleaseSink, FieldsTypeOK, WindowTypeOK, SinkTypeOK
  <2>3. SiteTypeOK'
    <3>1. DetachAndRelease(i) => SiteTypeOK'
      BY DEF DetachAndRelease, FieldsTypeOK, SiteTypeOK
    <3>2. UNCHANGED siteVars => SiteTypeOK'
      BY DEF siteVars, FieldsTypeOK, SiteTypeOK
    <3> QED BY <1>1, <3>1, <3>2 DEF NPP_Destroy
  <2>4. HostTypeOK'
    BY <1>1 DEF NPP_Destroy, FieldsTypeOK, HostTypeOK
  <2> QED BY <2>1, <2>2, <2>3, <2>4 DEF FieldsTypeOK
<1>2. CASE DetachReturn(i)
  BY <1>2, PopFrames DEF DetachReturn, Innermost, DetachAndRelease, FieldsTypeOK, WindowTypeOK,
     SiteTypeOK, SinkTypeOK, HostTypeOK, winVars, sinkVars
<1>3. CASE DeleteHost(i)
  BY <1>3 DEF DeleteHost, ReleaseWindow, ReleaseSink, DetachAndRelease, FieldsTypeOK, StackTypeOK,
     WindowTypeOK, SiteTypeOK, SinkTypeOK, HostTypeOK
<1> QED BY <1>1, <1>2, <1>3

\* The other steps change one or two variables.
LEMMA CallbackType ==
  ASSUME FieldsTypeOK, StackTypeOK, NEW i \in Instances,
         \/ DownloadStops(i) \/ AttachReturn(i) \/ FireEvent(i) \/ EventReturn(i)
         \/ MoveReturn(i) \/ NPP_HandleEvent(i) \/ NPP_GetValue(i)
         \/ \E w \in Windows : AxHostWinProc(i, w)
  PROVE  FieldsTypeOK' /\ StackTypeOK'
<1>1. CASE DownloadStops(i)
  BY <1>1 DEF DownloadStops, OnStopBinding, FieldsTypeOK, StackTypeOK, WindowTypeOK,
     SiteTypeOK, SinkTypeOK, HostTypeOK, winVars, sinkVars, hostVars
<1>2. CASE AttachReturn(i)
  BY <1>2, PopFrames DEF AttachReturn, Innermost, SetClientSite, Uses, FieldsTypeOK,
     WindowTypeOK, SiteTypeOK, SinkTypeOK, HostTypeOK, winVars, siteVars, sinkVars, hostVars
<1>3. CASE FireEvent(i)
  BY <1>3, PushFrames, CallFrames DEF FireEvent, FieldsTypeOK, WindowTypeOK, SiteTypeOK,
     SinkTypeOK, HostTypeOK, winVars, siteVars, sinkVars, hostVars
<1>4. CASE EventReturn(i)
  BY <1>4, PopFrames DEF EventReturn, Innermost, Uses, FieldsTypeOK, WindowTypeOK,
     SiteTypeOK, SinkTypeOK, HostTypeOK, winVars, siteVars, sinkVars, hostVars
<1>5. CASE \E w \in Windows : AxHostWinProc(i, w)
  BY <1>5 DEF AxHostWinProc, Uses, FieldsTypeOK, StackTypeOK, WindowTypeOK,
     SiteTypeOK, SinkTypeOK, HostTypeOK, winVars, siteVars, sinkVars, hostVars
<1>6. CASE MoveReturn(i)
  BY <1>6, PopFrames DEF MoveReturn, Innermost, Uses, FieldsTypeOK,
     WindowTypeOK, SiteTypeOK, SinkTypeOK, HostTypeOK, winVars, siteVars, sinkVars, hostVars
<1>7. CASE NPP_HandleEvent(i) \/ NPP_GetValue(i)
  BY <1>7 DEF NPP_HandleEvent, NPP_GetValue, Uses, FieldsTypeOK, StackTypeOK, WindowTypeOK,
     SiteTypeOK, SinkTypeOK, HostTypeOK, winVars, siteVars, sinkVars, hostVars
<1> QED BY <1>1, <1>2, <1>3, <1>4, <1>5, <1>6, <1>7

LEMMA TypeOKParts == TypeOK <=> StackTypeOK /\ FieldsTypeOK
BY DEF TypeOK, FieldsTypeOK

\* The variables keep their types.
THEOREM Typing == Spec => []TypeOK
<1>1. Init => TypeOK
  BY DEF Init, WindowInit, SiteInit, SinkInit, TypeOK, StackTypeOK, WindowTypeOK, SiteTypeOK,
     SinkTypeOK, HostTypeOK
<1>2. TypeOK /\ [Next]_vars => TypeOK'
  <2> SUFFICES ASSUME StackTypeOK, FieldsTypeOK, [Next]_vars
               PROVE  StackTypeOK' /\ FieldsTypeOK'
    BY DEF TypeOK, FieldsTypeOK
  <2>1. CASE UNCHANGED vars
    BY <2>1 DEF vars, winVars, siteVars, sinkVars, hostVars, StackTypeOK, FieldsTypeOK,
       WindowTypeOK, SiteTypeOK, SinkTypeOK, HostTypeOK
  <2>2. ASSUME NEW i \in Instances,
               \/ NPP_New(i) \/ PumpExit(i) \/ PumpQuit(i)
               \/ NPP_Destroy(i) \/ DetachReturn(i) \/ DeleteHost(i)
        PROVE  StackTypeOK' /\ FieldsTypeOK'
    BY <2>2, NewType, PumpType, DestroyType
  <2>3. ASSUME NEW i \in Instances, NEW w \in Windows \cup {NoWindow}, NPP_SetWindow(i, w)
        PROVE  StackTypeOK' /\ FieldsTypeOK'
    BY <2>3, SetWindowType
  <2>4. ASSUME NEW i \in Instances,
               \/ DownloadStops(i) \/ AttachReturn(i) \/ FireEvent(i) \/ EventReturn(i)
               \/ MoveReturn(i) \/ NPP_HandleEvent(i) \/ NPP_GetValue(i)
               \/ \E w \in Windows : AxHostWinProc(i, w)
        PROVE  StackTypeOK' /\ FieldsTypeOK'
    BY <2>4, CallbackType
  <2> QED BY <2>1, <2>2, <2>3, <2>4 DEF Next, Step
<1> QED BY <1>1, <1>2, PTL DEF Spec

-----------------------------------------------------------------------------
(***************************************************************************)
(* Safety.                                                                 *)
(***************************************************************************)

\* The inductive invariant, next to TypeOK.
Safe == /\ HostInv
        /\ EntryPointsFind
        /\ StalePdataOnlyAfterError
        /\ AdviseBalanced
        /\ FaultsExplained

\* What the frames of the stack have to do with an instance that has not
\* started, or has just failed to: nothing.
LEMMA IdleHasNoFrame ==
  ASSUME TypeOK, Safe, NEW i \in Instances, phase[i] \in {"idle", "failing"}
  PROVE  \A n \in DOMAIN stack : stack[n].inst # i
<1> SUFFICES ASSUME NEW n \in DOMAIN stack, stack[n].inst = i PROVE FALSE
  OBVIOUS
<1>1. stack[n] \in Frame
  BY DEF TypeOK, StackTypeOK
<1>2. i \notin reentered
  BY DEF Safe, HostInv, PhaseInv
<1>3. stack[n].kind \in {"Create", "Activate", "Move", "Detach", "Event"}
  BY <1>1 DEF Frame
<1> QED BY <1>2, <1>3 DEF Safe, HostInv, FramesInv, FrameFits

\* Frames stay as they fit when only their own instance, i, is disturbed.
LEMMA FramesKept ==
  ASSUME TypeOK, FramesInv, OneCreate, NEW i \in Instances,
         \A n \in DOMAIN stack' : n \in DOMAIN stack /\ stack'[n] = stack[n],
         \A n \in DOMAIN stack' : stack[n].inst = i => FrameFits(stack[n])',
         \A j \in Instances : j # i =>
           /\ phase'[j] = phase[j] /\ host'[j] = host[j]
           /\ j \in reentered => j \in reentered'
  PROVE  FramesInv' /\ OneCreate'
<1>1. OneCreate'
  BY DEF OneCreate
<1>2. ASSUME NEW n \in DOMAIN stack' PROVE FrameFits(stack[n])'
  <2>1. CASE stack'[n].inst = i
    BY <1>2, <2>1
  <2>2. CASE stack'[n].inst # i
    <3>1. n \in DOMAIN stack /\ stack'[n] = stack[n]
      BY <1>2
    <3>2. stack[n] \in Frame
      BY <3>1 DEF TypeOK, StackTypeOK
    <3>3. FrameFits(stack[n])
      BY <3>1 DEF FramesInv
    <3> QED BY <3>1, <3>2, <3>3, <2>2 DEF FrameFits, Frame
  <2> QED BY <2>1, <2>2
<1> QED BY <1>1, <1>2 DEF FramesInv

\* Frames stay as they fit, and a call that suspends adds one that fits.
LEMMA FramesPushed ==
  ASSUME TypeOK, FramesInv, OneCreate, NEW f \in Frame, Push(f), FrameFits(f)',
         \A n \in DOMAIN stack : \A g \in Frame :
           stack[n] = g /\ FrameFits(g) => FrameFits(g)',
         f.kind = "Create" => \A n \in DOMAIN stack : stack[n].inst # f.inst
  PROVE  FramesInv' /\ OneCreate'
<1>1. ASSUME NEW n \in DOMAIN stack' PROVE FrameFits(stack[n])'
  <2>1. CASE n \in DOMAIN stack
    <3>1. stack[n] \in Frame /\ stack'[n] = stack[n]
      BY <2>1, PushFrames DEF TypeOK, StackTypeOK
    <3>2. PICK g \in Frame : g = stack[n]
      BY <3>1
    <3>3. FrameFits(g)
      BY <2>1, <3>2 DEF FramesInv
    <3>4. FrameFits(g)'
      BY <2>1, <3>2, <3>3
    <3> QED BY <3>1, <3>2, <3>4 DEF FrameFits
  <2>2. CASE n = Len(stack) + 1
    <3>1. stack'[n] = f
      BY <2>2, PushFrames DEF TypeOK
    <3> QED BY <3>1 DEF FrameFits
  <2> QED BY <1>1, <2>1, <2>2, PushFrames DEF TypeOK
<1>2. OneCreate'
  BY PushFrames DEF OneCreate, TypeOK
<1> QED BY <1>1, <1>2 DEF FramesInv

\* The same when no call is added.
LEMMA FramesRefit ==
  ASSUME TypeOK, FramesInv, OneCreate,
         \A n \in DOMAIN stack' : n \in DOMAIN stack /\ stack'[n] = stack[n],
         \A n \in DOMAIN stack : \A g \in Frame :
           stack[n] = g /\ FrameFits(g) => FrameFits(g)'
  PROVE  FramesInv' /\ OneCreate'
<1>1. ASSUME NEW n \in DOMAIN stack' PROVE FrameFits(stack[n])'
  <2>1. n \in DOMAIN stack /\ stack'[n] = stack[n] /\ stack[n] \in Frame
    BY <1>1 DEF TypeOK, StackTypeOK
  <2>2. PICK g \in Frame : g = stack[n]
    BY <2>1
  <2>3. FrameFits(g)
    BY <2>1, <2>2 DEF FramesInv
  <2>4. FrameFits(g)'
    BY <2>1, <2>2, <2>3
  <2> QED BY <2>1, <2>2, <2>4 DEF FrameFits
<1>2. OneCreate'
  BY DEF OneCreate
<1> QED BY <1>1, <1>2 DEF FramesInv

\* Frames that stay while no phase changes stay as they fit.
LEMMA FramesStay ==
  ASSUME TypeOK, FramesInv, OneCreate, UNCHANGED <<host, phase, reentered>>,
         \A n \in DOMAIN stack' : n \in DOMAIN stack /\ stack'[n] = stack[n]
  PROVE  FramesInv' /\ OneCreate'
<1>1. ASSUME NEW n \in DOMAIN stack' PROVE FrameFits(stack[n])'
  <2>1. n \in DOMAIN stack /\ stack'[n] = stack[n]
    BY <1>1
  <2>2. FrameFits(stack[n])
    BY <2>1 DEF FramesInv
  <2> QED BY <2>1, <2>2 DEF FrameFits
<1>2. OneCreate'
  BY DEF OneCreate
<1> QED BY <1>1, <1>2 DEF FramesInv

\* NPP_New that refuses the instance at once.
LEMMA RefusedSafe ==
  ASSUME TypeOK, Safe, NEW i \in Instances, phase[i] = "idle",
         NotAuthorized(i) \/ NoValidClsID(i), UNCHANGED <<fault, reentered>>
  PROVE  Safe'
<1> USE DEF NotAuthorized, NoValidClsID, winVars, siteVars, sinkVars
<1>1. FramesInv' /\ OneCreate'
  BY IdleHasNoFrame, FramesKept DEF Safe, HostInv, TypeOK, HostTypeOK
<1>2. PhaseInv' /\ WindowInv' /\ GuardInv'
  BY DEF Safe, HostInv, PhaseInv, WindowInv, GuardInv, TypeOK, HostTypeOK
<1>3. EntryPointsFind'
  <2> SUFFICES ASSUME NEW j \in Instances, phase'[j] \in {"starting", "running"}
               PROVE  /\ pdata[j] /\ host'[j] = "live" /\ "host" \in siteRefs[j]
                      /\ phase'[j] = "running" => object[j] /\ "host" \in sinkRefs[j]
    BY DEF EntryPointsFind
  <2>1. j # i /\ phase'[j] = phase[j] /\ host'[j] = host[j]
    BY DEF TypeOK, HostTypeOK
  <2> QED BY <2>1 DEF Safe, EntryPointsFind
<1>4. StalePdataOnlyAfterError'
  BY DEF Safe, StalePdataOnlyAfterError, TypeOK, HostTypeOK
<1>5. AdviseBalanced'
  BY DEF Safe, AdviseBalanced, TypeOK, HostTypeOK
<1>6. FaultsExplained'
  BY DEF Safe, FaultsExplained
<1> QED BY <1>1, <1>2, <1>3, <1>4, <1>5, <1>6 DEF Safe, HostInv

\* The failing end of NPP_New, with or without a download, once no call of the
\* instance is suspended any more.
LEMMA FailNewSafe ==
  ASSUME TypeOK, Safe, NEW i \in Instances, FailNew(i), phase[i] \in {"idle", "starting"},
         UNCHANGED <<fault, reentered>>,
         \A n \in DOMAIN stack' :
           n \in DOMAIN stack /\ stack'[n] = stack[n] /\ stack[n].inst # i
  PROVE  Safe'
<1>1. /\ phase'[i] = "failing" /\ host'[i] = "live"
      /\ ~attached'[i] /\ i \notin reentered /\ ~subscribed[i]
      /\ UNCHANGED <<attached, window, userData, abandoned>>
  BY DEF FailNew, winVars, Safe, HostInv, PhaseInv, AdviseBalanced, TypeOK, HostTypeOK
<1>2. \A j \in Instances : j # i =>
        /\ phase'[j] = phase[j] /\ host'[j] = host[j] /\ pdata'[j] = pdata[j]
        /\ object'[j] = object[j] /\ siteRefs'[j] = siteRefs[j]
        /\ sinkRefs'[j] = sinkRefs[j] /\ subscribed'[j] = subscribed[j]
  <2>1. \A j \in Instances : j # i =>
          phase'[j] = phase[j] /\ host'[j] = host[j] /\ pdata'[j] = pdata[j]
    BY DEF FailNew, TypeOK, HostTypeOK
  <2>2. \A j \in Instances : j # i => object'[j] = object[j] /\ siteRefs'[j] = siteRefs[j]
    BY DEF FailNew, TypeOK, SiteTypeOK
  <2>3. \A j \in Instances : j # i => sinkRefs'[j] = sinkRefs[j] /\ subscribed'[j] = subscribed[j]
    BY DEF FailNew, Subscribe, sinkVars, TypeOK, SinkTypeOK
  <2> QED BY <2>1, <2>2, <2>3
<1>3. "control" \notin sinkRefs'[i] /\ ~subscribed'[i]
  BY <1>1 DEF FailNew, Subscribe, sinkVars, Safe, AdviseBalanced, TypeOK, SinkTypeOK
<1>4. FramesInv' /\ OneCreate'
  BY <1>2, FramesKept DEF Safe, HostInv
<1>5. PhaseInv'
  BY <1>1, <1>2 DEF Safe, HostInv, PhaseInv
<1>6. WindowInv' /\ GuardInv'
  BY <1>1, <1>2 DEF Safe, HostInv, WindowInv, GuardInv
<1>7. EntryPointsFind' /\ StalePdataOnlyAfterError'
  BY <1>1, <1>2 DEF Safe, EntryPointsFind, StalePdataOnlyAfterError
<1>8. AdviseBalanced'
  BY <1>2, <1>3 DEF Safe, AdviseBalanced
<1>9. FaultsExplained'
  BY <1>1 DEF Safe, FaultsExplained
<1> QED BY <1>4, <1>5, <1>6, <1>7, <1>8, <1>9 DEF Safe, HostInv

\* The successful end of NPP_New.
LEMMA FinishNewSafe ==
  ASSUME TypeOK, Safe, NEW i \in Instances, FinishNew(i), phase[i] \in {"idle", "starting"},
         UNCHANGED <<fault, reentered>>, "host" \in siteRefs'[i],
         \A j \in Instances : j # i => siteRefs'[j] = siteRefs[j],
         \A n \in DOMAIN stack' :
           n \in DOMAIN stack /\ stack'[n] = stack[n] /\ stack[n].inst # i
  PROVE  Safe'
<1>1. FramesInv' /\ OneCreate'
  BY FramesKept DEF FinishNew, Safe, HostInv, TypeOK, HostTypeOK
<1>2. PhaseInv'
  <2>1. \A j \in Instances : j # i => phase'[j] = phase[j] /\ host'[j] = host[j] /\ object'[j] = object[j]
    BY DEF FinishNew, TypeOK, HostTypeOK, SiteTypeOK
  <2>2. phase'[i] = "running" /\ object'[i] /\ i \notin reentered
    BY DEF FinishNew, Safe, HostInv, PhaseInv, TypeOK, HostTypeOK, SiteTypeOK
  <2> SUFFICES ASSUME NEW j \in Instances
               PROVE  /\ phase'[j] = "idle" => host'[j] = "none"
                      /\ phase'[j] = "failing" => host'[j] = "live"
                      /\ object'[j] => phase'[j] \in {"running", "failing", "gone"}
                      /\ attached'[j] => object'[j]
                      /\ j \in reentered' => phase'[j] = "gone"
    BY DEF PhaseInv
  <2>3. attached'[j] = attached[j] /\ (j \in reentered' <=> j \in reentered)
    BY DEF FinishNew
  <2>4. CASE j = i
    BY <2>2, <2>3, <2>4
  <2>5. CASE j # i
    BY <2>1, <2>3, <2>5 DEF Safe, HostInv, PhaseInv
  <2> QED BY <2>4, <2>5
<1>3. WindowInv' /\ GuardInv'
  BY DEF FinishNew, winVars, Safe, HostInv, WindowInv, GuardInv, TypeOK, HostTypeOK
<1>4. /\ "host" \in sinkRefs'[i]
      /\ "control" \in sinkRefs'[i] <=> subscribed'[i]
      /\ \A j \in Instances : j # i =>
           sinkRefs'[j] = sinkRefs[j] /\ subscribed'[j] = subscribed[j]
  <2> PICK connects \in BOOLEAN, hooked \in BOOLEAN : Subscribe(i, connects, hooked)
    BY DEF FinishNew
  <2>1. /\ sinkRefs'[i] = {"host"} \cup (IF connects THEN {"control"} ELSE {})
        /\ subscribed'[i] = connects
    BY DEF Subscribe, TypeOK, SinkTypeOK
  <2>2. \A j \in Instances : j # i =>
          sinkRefs'[j] = sinkRefs[j] /\ subscribed'[j] = subscribed[j]
    BY DEF Subscribe, TypeOK, SinkTypeOK
  <2> QED BY <2>1, <2>2
<1>5. /\ phase'[i] = "running" /\ host'[i] = "live" /\ pdata'[i] /\ object'[i]
      /\ \A j \in Instances : j # i =>
           /\ phase'[j] = phase[j] /\ host'[j] = host[j]
           /\ pdata'[j] = pdata[j] /\ object'[j] = object[j]
  BY DEF FinishNew, TypeOK, HostTypeOK, SiteTypeOK
<1>6. EntryPointsFind'
  BY <1>4, <1>5 DEF Safe, EntryPointsFind
<1>7. StalePdataOnlyAfterError'
  BY <1>5 DEF Safe, StalePdataOnlyAfterError
<1>8. AdviseBalanced'
  BY <1>4, <1>5 DEF Safe, AdviseBalanced
<1>9. FaultsExplained'
  BY DEF FinishNew, winVars, Safe, FaultsExplained
<1> QED BY <1>1, <1>2, <1>3, <1>6, <1>7, <1>8, <1>9 DEF Safe, HostInv

\* NPP_New that starts to wait for a download.
LEMMA StartDownloadSafe ==
  ASSUME TypeOK, Safe, NEW i \in Instances, phase[i] = "idle", StartDownload(i),
         UNCHANGED <<fault, reentered>>
  PROVE  Safe'
<1>1. /\ phase'[i] = "starting" /\ host'[i] = "live" /\ pdata'[i] /\ "host" \in siteRefs'[i]
      /\ \A j \in Instances : j # i =>
           /\ phase'[j] = phase[j] /\ host'[j] = host[j]
           /\ pdata'[j] = pdata[j] /\ siteRefs'[j] = siteRefs[j]
  BY DEF StartDownload, StartBinding, TypeOK, HostTypeOK, SiteTypeOK
<1>2. UNCHANGED <<object, attached>> /\ UNCHANGED winVars /\ UNCHANGED sinkVars
  BY DEF StartDownload, StartBinding
<1>3. FramesInv' /\ OneCreate'
  <2>1. Push(Call("Create", i)) /\ Call("Create", i) \in Frame
    BY CallFrames DEF StartDownload, StartBinding
  <2>2. FrameFits(Call("Create", i))'
    BY <1>1 DEF FrameFits, Call
  <2>3. ASSUME NEW g \in Frame, FrameFits(g) PROVE FrameFits(g)'
    <3>1. i \notin reentered
      BY DEF Safe, HostInv, PhaseInv
    <3>2. g.inst \in Instances /\ g.kind \in {"Create", "Activate", "Move", "Detach", "Event"}
      BY DEF Frame
    <3>3. g.inst # i
      BY <2>3, <3>1, <3>2 DEF FrameFits
    <3> QED BY <1>1, <2>3, <3>2, <3>3 DEF FrameFits
  <2> QED BY <2>1, <2>2, <2>3, IdleHasNoFrame, FramesPushed DEF Safe, HostInv, Call
<1>4. PhaseInv'
  BY <1>1, <1>2 DEF Safe, HostInv, PhaseInv
<1>5. WindowInv' /\ GuardInv'
  BY <1>1, <1>2 DEF winVars, Safe, HostInv, WindowInv, GuardInv
<1>6. EntryPointsFind'
  BY <1>1, <1>2 DEF sinkVars, Safe, EntryPointsFind
<1>7. StalePdataOnlyAfterError'
  BY <1>1 DEF Safe, StalePdataOnlyAfterError
<1>8. AdviseBalanced'
  BY <1>1, <1>2 DEF sinkVars, Safe, AdviseBalanced
<1>9. FaultsExplained'
  BY <1>2 DEF winVars, Safe, FaultsExplained
<1> QED BY <1>3, <1>4, <1>5, <1>6, <1>7, <1>8, <1>9 DEF Safe, HostInv

\* Every outcome of NPP_New.
LEMMA NewSafe ==
  ASSUME TypeOK, Safe, NEW i \in Instances, NPP_New(i)
  PROVE  Safe'
<1>1. phase[i] = "idle" /\ UNCHANGED <<fault, reentered>>
  BY DEF NPP_New
<1>2. CASE NotAuthorized(i) \/ NoValidClsID(i)
  BY <1>1, <1>2, RefusedSafe
<1>3. CASE FailNew(i) /\ UNCHANGED stack
  BY <1>1, <1>3, IdleHasNoFrame, FailNewSafe
<1>4. CASE CreateAtOnce(i)
  <2>1. "host" \in siteRefs'[i] /\ \A j \in Instances : j # i => siteRefs'[j] = siteRefs[j]
    BY <1>4 DEF CreateAtOnce, TypeOK, SiteTypeOK
  <2> QED BY <1>1, <1>4, <2>1, IdleHasNoFrame, FinishNewSafe DEF CreateAtOnce
<1>5. CASE StartDownload(i)
  BY <1>1, <1>5, StartDownloadSafe
<1> QED BY <1>2, <1>3, <1>4, <1>5 DEF NPP_New

\* A step that touches no more than the stack, a binding, references of others
\* than the host, and the history of faults.
LEMMA QuietSafe ==
  ASSUME TypeOK, Safe,
         UNCHANGED <<object, attached, winVars, sinkVars, hostVars, reentered>>,
         \A j \in Instances : "host" \in siteRefs[j] => "host" \in siteRefs'[j],
         FramesInv', OneCreate', FaultsExplained'
  PROVE  Safe'
<1> USE DEF winVars, sinkVars, hostVars
<1>1. PhaseInv'
  BY DEF Safe, HostInv, PhaseInv
<1>2. WindowInv' /\ GuardInv'
  BY DEF Safe, HostInv, WindowInv, GuardInv
<1>3. EntryPointsFind'
  BY DEF Safe, EntryPointsFind
<1>4. StalePdataOnlyAfterError'
  BY DEF Safe, StalePdataOnlyAfterError
<1>5. AdviseBalanced'
  BY DEF Safe, AdviseBalanced
<1> QED BY <1>1, <1>2, <1>3, <1>4, <1>5 DEF Safe, HostInv

\* A fault of an instance that was destroyed under its own calls is explained.
LEMMA ReentrantFault ==
  ASSUME Safe, NEW i \in reentered, UNCHANGED <<abandoned, reentered>>,
         fault' \in {fault, fault \cup {i}}
  PROVE  FaultsExplained'
BY DEF Safe, FaultsExplained

\* The innermost call fits its instance.
LEMMA InnermostFits ==
  ASSUME TypeOK, Safe, NEW i \in Instances, NEW k, Innermost(k, i)
  PROVE  Len(stack) \in DOMAIN stack /\ FrameFits(Top) /\ Top.kind = k /\ Top.inst = i
<1>1. Len(stack) \in DOMAIN stack
  BY DEF TypeOK, StackTypeOK, Innermost
<1> QED BY <1>1 DEF Safe, HostInv, FramesInv, Innermost, Top

\* The message loop of a live host is the only call of its instance.
LEMMA PumpFrames ==
  ASSUME TypeOK, Safe, NEW i \in Instances, Innermost("Create", i), host[i] = "live", Pop
  PROVE  /\ phase[i] = "starting" /\ ~object[i]
         /\ \A n \in DOMAIN stack' :
              n \in DOMAIN stack /\ stack'[n] = stack[n] /\ stack[n].inst # i
<1>1. Len(stack) \in DOMAIN stack /\ FrameFits(Top) /\ Top.kind = "Create" /\ Top.inst = i
  BY InnermostFits
<1>2. phase[i] = "starting"
  BY <1>1 DEF FrameFits
<1>3. ~object[i] /\ i \notin reentered
  BY <1>2 DEF Safe, HostInv, PhaseInv
<1>4. ASSUME NEW n \in DOMAIN stack'
      PROVE  n \in DOMAIN stack /\ stack'[n] = stack[n] /\ stack[n].inst # i
  <2>1. n \in DOMAIN stack /\ n # Len(stack) /\ stack'[n] = stack[n]
    BY <1>4, PopFrames DEF TypeOK, Innermost
  <2>2. stack[n].kind \in {"Create", "Activate", "Move", "Detach", "Event"}
    <3>1. stack[n] \in Frame
      BY <2>1 DEF TypeOK, StackTypeOK
    <3> QED BY <3>1 DEF Frame
  <2>3. FrameFits(stack[n])
    BY <2>1 DEF Safe, HostInv, FramesInv
  <2>4. CASE stack[n].kind = "Create"
    BY <1>1, <2>1, <2>4 DEF Safe, HostInv, OneCreate, Top
  <2>5. CASE stack[n].kind # "Create"
    BY <1>2, <1>3, <2>1, <2>2, <2>3, <2>5 DEF FrameFits
  <2> QED BY <2>1, <2>4, <2>5
<1> QED BY <1>2, <1>3, <1>4

\* Both ways out of the message loop of Create.
LEMMA PumpSafe ==
  ASSUME TypeOK, Safe, NEW i \in Instances, PumpExit(i) \/ PumpQuit(i)
  PROVE  Safe'
<1>1. Innermost("Create", i) /\ UNCHANGED reentered /\ Pop
  BY DEF PumpExit, PumpQuit, ResumeInFreedHost, CreateFails, CreateSucceeds, EndBinding
<1>2. CASE ResumeInFreedHost(i)
  <2>1. Len(stack) \in DOMAIN stack /\ FrameFits(Top) /\ Top.kind = "Create" /\ Top.inst = i
    BY <1>1, InnermostFits
  <2>2. i \in reentered
    BY <1>2, <2>1 DEF ResumeInFreedHost, FrameFits, Safe, EntryPointsFind
  <2>3. FaultsExplained'
    BY <1>1, <1>2, <2>2, ReentrantFault DEF ResumeInFreedHost, winVars
  <2>4. FramesInv' /\ OneCreate'
    BY <1>1, <1>2, FramesStay, PopFrames DEF ResumeInFreedHost, hostVars, Innermost, Safe, HostInv,
       TypeOK
  <2>5. \A j \in Instances : "host" \in siteRefs[j] => "host" \in siteRefs'[j]
    BY <1>2 DEF ResumeInFreedHost, EndBinding, TypeOK, SiteTypeOK
  <2> QED BY <1>1, <1>2, <2>3, <2>4, <2>5, QuietSafe DEF ResumeInFreedHost
<1>3. CASE CreateFails(i)
  BY <1>1, <1>3, PumpFrames, FailNewSafe DEF CreateFails
<1>4. CASE CreateSucceeds(i)
  <2>1. phase[i] = "starting"
    BY <1>1, <1>4, PumpFrames DEF CreateSucceeds
  <2>2. "host" \in siteRefs'[i] /\ \A j \in Instances : j # i => siteRefs'[j] = siteRefs[j]
    BY <1>4, <2>1 DEF CreateSucceeds, EndBinding, TypeOK, SiteTypeOK, Safe, EntryPointsFind
  <2> QED BY <1>1, <1>4, <2>1, <2>2, PumpFrames, FinishNewSafe DEF CreateSucceeds
<1> QED BY <1>2, <1>3, <1>4 DEF PumpExit, PumpQuit

\* What happens to an instance between its start and its end, except for a new
\* window: the end of its download, its events, the return of calls into its
\* control, the messages of its windows.
LEMMA CallbackSafe ==
  ASSUME TypeOK, Safe, NEW i \in Instances,
         \/ DownloadStops(i) \/ AttachReturn(i) \/ FireEvent(i) \/ EventReturn(i)
         \/ MoveReturn(i) \/ NPP_HandleEvent(i) \/ NPP_GetValue(i)
         \/ \E w \in Windows : AxHostWinProc(i, w)
  PROVE  Safe'
<1>1. CASE DownloadStops(i)
  <2>1. FaultsExplained'
    BY <1>1 DEF DownloadStops, winVars, Safe, FaultsExplained
  <2>2. FramesInv' /\ OneCreate'
    BY <1>1, FramesStay DEF DownloadStops, OnStopBinding, hostVars, Safe, HostInv
  <2> QED BY <1>1, <2>1, <2>2, QuietSafe DEF DownloadStops, OnStopBinding
<1>2. CASE AttachReturn(i)
  <2>1. Len(stack) \in DOMAIN stack /\ FrameFits(Top) /\ Top.kind = "Activate" /\ Top.inst = i
    BY <1>2, InnermostFits DEF AttachReturn
  <2>2. host[i] # "live" => i \in reentered
    BY <2>1 DEF FrameFits, Safe, EntryPointsFind
  <2>3. FaultsExplained'
    <3>1. CASE host[i] = "live"
      BY <1>2, <3>1 DEF AttachReturn, Uses, winVars, Safe, FaultsExplained
    <3>2. CASE host[i] # "live"
      BY <1>2, <2>2, <3>2, ReentrantFault DEF AttachReturn, Uses, winVars
    <3> QED BY <3>1, <3>2
  <2>4. FramesInv' /\ OneCreate'
    BY <1>2, FramesStay, PopFrames DEF AttachReturn, Innermost, hostVars, Safe, HostInv, TypeOK
  <2>5. UNCHANGED <<object, attached>>
        /\ \A j \in Instances : "host" \in siteRefs[j] => "host" \in siteRefs'[j]
    BY <1>2 DEF AttachReturn, SetClientSite, siteVars, TypeOK, SiteTypeOK
  <2> QED BY <1>2, <2>3, <2>4, <2>5, QuietSafe DEF AttachReturn
<1>3. CASE FireEvent(i)
  <2>1. FaultsExplained'
    BY <1>3 DEF FireEvent, winVars, Safe, FaultsExplained
  <2>2. PICK wants \in BOOLEAN : Push(EventCall(i, wants))
    BY <1>3 DEF FireEvent
  <2>3. FrameFits(EventCall(i, wants))'
    BY <1>3 DEF FireEvent, hostVars, FrameFits, EventCall, Safe, AdviseBalanced
  <2>4. \A g \in Frame : FrameFits(g) => FrameFits(g)'
    BY <1>3 DEF FireEvent, hostVars, FrameFits
  <2>5. FramesInv' /\ OneCreate'
    BY <2>2, <2>3, <2>4, CallFrames, FramesPushed DEF EventCall, Safe, HostInv
  <2> QED BY <1>3, <2>1, <2>5, QuietSafe DEF FireEvent, siteVars
<1>4. CASE EventReturn(i)
  <2>1. Len(stack) \in DOMAIN stack /\ FrameFits(Top) /\ Top.kind = "Event" /\ Top.inst = i
    BY <1>4, InnermostFits DEF EventReturn
  <2>2. sinkRefs[i] = {} => i \in reentered
    BY <2>1 DEF FrameFits, Safe, EntryPointsFind
  <2>3. FaultsExplained'
    <3>1. CASE sinkRefs[i] # {}
      BY <1>4, <3>1 DEF EventReturn, Uses, winVars, Safe, FaultsExplained
    <3>2. CASE sinkRefs[i] = {}
      BY <1>4, <2>2, <3>2, ReentrantFault DEF EventReturn, Uses, winVars
    <3> QED BY <3>1, <3>2
  <2>4. FramesInv' /\ OneCreate'
    BY <1>4, FramesStay, PopFrames DEF EventReturn, Innermost, hostVars, Safe, HostInv, TypeOK
  <2> QED BY <1>4, <2>3, <2>4, QuietSafe DEF EventReturn, siteVars
<1>5. CASE \E w \in Windows : AxHostWinProc(i, w)
  <2> PICK w \in Windows : AxHostWinProc(i, w)
    BY <1>5
  <2>1. w \in userData[i] /\ host[i] # "live" => abandoned[i] # {}
    BY WindowAssumption DEF Safe, HostInv, PhaseInv, WindowInv, EntryPointsFind
  <2>2. FaultsExplained'
    BY <2>1 DEF AxHostWinProc, Uses, winVars, Safe, FaultsExplained
  <2>3. FramesInv' /\ OneCreate'
    BY FramesStay DEF AxHostWinProc, hostVars, Safe, HostInv
  <2> QED BY <2>2, <2>3, QuietSafe DEF AxHostWinProc, siteVars
<1>6. CASE MoveReturn(i)
  <2>1. Len(stack) \in DOMAIN stack /\ FrameFits(Top) /\ Top.kind = "Move" /\ Top.inst = i
    BY <1>6, InnermostFits DEF MoveReturn
  <2>2. host[i] # "live" => i \in reentered
    BY <2>1 DEF FrameFits, Safe, EntryPointsFind
  <2>3. FaultsExplained'
    <3>1. CASE host[i] = "live"
      BY <1>6, <3>1 DEF MoveReturn, Uses, winVars, Safe, FaultsExplained
    <3>2. CASE host[i] # "live"
      BY <1>6, <2>2, <3>2, ReentrantFault DEF MoveReturn, Uses, winVars
    <3> QED BY <3>1, <3>2
  <2>4. FramesInv' /\ OneCreate'
    BY <1>6, FramesStay, PopFrames DEF MoveReturn, Innermost, hostVars, Safe, HostInv, TypeOK
  <2> QED BY <1>6, <2>3, <2>4, QuietSafe DEF MoveReturn, siteVars
<1>7. CASE NPP_HandleEvent(i) \/ NPP_GetValue(i)
  <2>1. FaultsExplained'
    BY <1>7 DEF NPP_HandleEvent, NPP_GetValue, Uses, winVars, Safe, EntryPointsFind, FaultsExplained
  <2>2. FramesInv' /\ OneCreate'
    BY <1>7, FramesStay DEF NPP_HandleEvent, NPP_GetValue, hostVars, Safe, HostInv
  <2> QED BY <1>7, <2>1, <2>2, QuietSafe DEF NPP_HandleEvent, NPP_GetValue, siteVars
<1> QED BY <1>1, <1>2, <1>3, <1>4, <1>5, <1>6, <1>7

\* The browser sets a window; only windows replaced directly are left behind.
LEMMA WindowChange ==
  ASSUME TypeOK, WindowInv, GuardInv, NEW i \in Instances, NEW w \in Windows \cup {NoWindow},
         setWindow(i, w), host[i] = "live", phase[i] \in {"starting", "running"},
         UNCHANGED <<host, phase, reentered>>,
         ClearWindowFirst => w = NoWindow \/ window[i] \in {w, NoWindow}
  PROVE  WindowInv' /\ GuardInv'
<1>1. CASE w = window[i]
  BY <1>1 DEF setWindow, winVars, WindowInv, GuardInv
<1>2. CASE w # window[i] /\ w # NoWindow
  <2>1. /\ window'[i] = w /\ userData'[i] = userData[i] \cup {w}
        /\ abandoned'[i] = (abandoned[i] \cup ({window[i]} \ {NoWindow})) \ {w}
        /\ \A j \in Instances : j # i =>
             window'[j] = window[j] /\ userData'[j] = userData[j] /\ abandoned'[j] = abandoned[j]
    BY <1>2 DEF setWindow, Subclass, TypeOK, WindowTypeOK
  <2>2. NoWindow \notin userData[i]
    BY WindowAssumption DEF TypeOK, WindowTypeOK
  <2>3. WindowInv'
    BY <2>1, <2>2 DEF WindowInv
  <2>4. GuardInv'
    BY <1>2, <2>1 DEF GuardInv
  <2> QED BY <2>3, <2>4
<1>3. CASE w # window[i] /\ w = NoWindow
  <2>1. /\ window'[i] = NoWindow /\ userData'[i] = userData[i] \ {window[i]}
        /\ abandoned' = abandoned
        /\ \A j \in Instances : j # i => window'[j] = window[j] /\ userData'[j] = userData[j]
    BY <1>3 DEF setWindow, Unsubclass, TypeOK, WindowTypeOK
  <2>2. WindowInv'
    BY <2>1 DEF WindowInv
  <2>3. GuardInv'
    BY <2>1 DEF GuardInv
  <2> QED BY <2>2, <2>3
<1> QED BY <1>1, <1>2, <1>3

LEMMA SetWindowSafe ==
  ASSUME TypeOK, Safe, fault = {}, NEW i \in Instances, NEW w \in Windows \cup {NoWindow},
         NPP_SetWindow(i, w)
  PROVE  Safe'
<1>1. /\ phase[i] \in {"starting", "running"} /\ host[i] = "live" /\ setWindow(i, w)
      /\ UNCHANGED sinkVars /\ UNCHANGED hostVars /\ UNCHANGED fault /\ UNCHANGED reentered
  BY DEF NPP_SetWindow, Safe, EntryPointsFind
<1>2. /\ UNCHANGED object
      /\ \A j \in Instances : "host" \in siteRefs[j] => "host" \in siteRefs'[j]
  BY DEF NPP_SetWindow, UpdateRect, Attach, SetPosition, siteVars, TypeOK, SiteTypeOK
<1>3. \A j \in Instances : attached'[j] => attached[j] \/ object[j]
  <2>1. attached' = attached \/ (object[i] /\ attached' = [attached EXCEPT ![i] = TRUE])
    BY DEF NPP_SetWindow, UpdateRect, Attach, SetPosition, siteVars
  <2> QED BY <2>1 DEF TypeOK, SiteTypeOK
<1>4. UNCHANGED stack \/ \E k \in {"Activate", "Move"} : Push(Call(k, i)) /\ object[i]
  <2>1. Attach(i, w) => UNCHANGED stack \/ (Push(Call("Activate", i)) /\ object[i])
    BY Zenon DEF Attach
  <2>2. SetPosition(i) => UNCHANGED stack \/ (Push(Call("Move", i)) /\ object[i])
    BY DEF SetPosition, Safe, HostInv, PhaseInv
  <2>3. Attach(i, w) \/ SetPosition(i) \/ UNCHANGED stack
    BY DEF NPP_SetWindow, UpdateRect
  <2> QED BY <2>1, <2>2, <2>3
<1>5. FramesInv' /\ OneCreate'
  <2>1. CASE UNCHANGED stack
    BY <1>1, <2>1, FramesStay DEF hostVars, Safe, HostInv
  <2>2. ASSUME NEW k \in {"Activate", "Move"}, Push(Call(k, i)), object[i]
        PROVE  FramesInv' /\ OneCreate'
    <3>1. phase[i] = "running"
      BY <1>1, <2>2 DEF Safe, HostInv, PhaseInv
    <3>2. FrameFits(Call(k, i))'
      BY <1>1, <3>1 DEF hostVars, FrameFits, Call
    <3>3. \A g \in Frame : FrameFits(g) => FrameFits(g)'
      BY <1>1 DEF hostVars, FrameFits
    <3> QED BY <2>2, <3>2, <3>3, CallFrames, FramesPushed DEF Call, Safe, HostInv
  <2> QED BY <1>4, <2>1, <2>2
<1>6. PhaseInv'
  BY <1>1, <1>2, <1>3 DEF hostVars, Safe, HostInv, PhaseInv
<1>7. WindowInv' /\ GuardInv'
  BY <1>1, WindowChange DEF NPP_SetWindow, hostVars, Safe, HostInv
<1>8. EntryPointsFind'
  BY <1>1, <1>2 DEF hostVars, sinkVars, Safe, EntryPointsFind
<1>9. StalePdataOnlyAfterError' /\ AdviseBalanced'
  BY <1>1 DEF hostVars, sinkVars, Safe, StalePdataOnlyAfterError, AdviseBalanced
<1>10. FaultsExplained'
  BY <1>1 DEF FaultsExplained
<1> QED BY <1>5, <1>6, <1>7, <1>8, <1>9, <1>10 DEF Safe, HostInv

\* The part of ~CAxHost that comes before the control is detached.
LEMMA ReleaseSafe ==
  ASSUME TypeOK, Safe, NEW i \in Instances, phase'[i] \in {"failed", "gone"},
         \A j \in Instances : j # i => phase'[j] = phase[j] /\ host'[j] = host[j],
         host'[i] # "none",
         ReleaseWindow(i), ReleaseSink(i)
  PROVE  WindowInv' /\ AdviseBalanced' /\ \A j \in Instances : j # i => sinkRefs'[j] = sinkRefs[j]
<1>1. WindowInv'
  <2>1. /\ window'[i] = NoWindow /\ userData'[i] = userData[i] \ {window[i]}
        /\ abandoned' = abandoned
        /\ \A j \in Instances : j # i => window'[j] = window[j] /\ userData'[j] = userData[j]
    BY DEF ReleaseWindow, TypeOK, WindowTypeOK
  <2> QED BY <2>1 DEF Safe, HostInv, WindowInv
<1>2. /\ "control" \notin sinkRefs'[i] /\ ~subscribed'[i]
      /\ \A j \in Instances : j # i =>
           sinkRefs'[j] = sinkRefs[j] /\ subscribed'[j] = subscribed[j]
  BY DEF ReleaseSink, Safe, AdviseBalanced, TypeOK, SinkTypeOK
<1>3. AdviseBalanced'
  BY <1>2 DEF Safe, AdviseBalanced
<1> QED BY <1>1, <1>2, <1>3

\* The delete of the host at the end of a NPP_New that failed.
LEMMA DeleteHostSafe ==
  ASSUME TypeOK, Safe, NEW i \in Instances, DeleteHost(i)
  PROVE  Safe'
<1>1. /\ phase[i] = "failing" /\ phase'[i] = "failed" /\ host'[i] = "freed"
      /\ i \notin reentered /\ UNCHANGED <<stack, pdata, fault, reentered, abandoned>>
  BY DEF DeleteHost, ReleaseWindow, Safe, HostInv, PhaseInv, TypeOK, HostTypeOK
<1>2. ~object'[i] /\ ~attached'[i]
  BY DEF DeleteHost, DetachAndRelease, TypeOK, SiteTypeOK
<1>3. \A j \in Instances : j # i =>
        /\ phase'[j] = phase[j] /\ host'[j] = host[j] /\ siteRefs'[j] = siteRefs[j]
        /\ object'[j] = object[j] /\ attached'[j] = attached[j]
  BY DEF DeleteHost, DetachAndRelease, TypeOK, HostTypeOK, SiteTypeOK
<1>4. /\ WindowInv' /\ AdviseBalanced'
      /\ \A j \in Instances : j # i => sinkRefs'[j] = sinkRefs[j]
  BY <1>1, <1>3, ReleaseSafe DEF DeleteHost
<1>5. FramesInv' /\ OneCreate'
  BY <1>1, <1>3, IdleHasNoFrame, FramesKept DEF Safe, HostInv
<1>6. PhaseInv'
  BY <1>1, <1>2, <1>3 DEF Safe, HostInv, PhaseInv
<1>7. GuardInv'
  BY <1>1 DEF Safe, HostInv, GuardInv
<1>8. EntryPointsFind' /\ StalePdataOnlyAfterError'
  BY <1>1, <1>3, <1>4 DEF Safe, EntryPointsFind, StalePdataOnlyAfterError
<1>9. FaultsExplained'
  BY <1>1 DEF Safe, FaultsExplained
<1> QED BY <1>4, <1>5, <1>6, <1>7, <1>8, <1>9 DEF Safe, HostInv

\* NPP_Destroy, up to the detach of an attached control.
LEMMA DestroySafe ==
  ASSUME TypeOK, Safe, fault = {}, NEW i \in Instances, NPP_Destroy(i)
  PROVE  Safe'
<1>1. /\ phase[i] \in {"starting", "running"} /\ host[i] = "live"
      /\ i \notin reentered /\ UNCHANGED fault /\ UNCHANGED abandoned
  BY DEF NPP_Destroy, ReleaseWindow, Safe, EntryPointsFind, HostInv, PhaseInv
<1>2. /\ phase'[i] = "gone" /\ host'[i] \in {"live", "freed"}
      /\ ~attached[i] => host'[i] = "freed" /\ pdata'[i] = FALSE
      /\ attached[i] => host'[i] = "live"
      /\ \A j \in Instances : j # i => phase'[j] = phase[j] /\ host'[j] = host[j]
  BY <1>1 DEF NPP_Destroy, TypeOK, HostTypeOK
<1>3. \A j \in Instances : j # i => pdata'[j] = pdata[j]
  BY DEF NPP_Destroy, TypeOK, HostTypeOK
<1>4. \A j \in Instances : j # i =>
        /\ siteRefs'[j] = siteRefs[j] /\ object'[j] = object[j] /\ attached'[j] = attached[j]
  BY DEF NPP_Destroy, DetachAndRelease, siteVars, TypeOK, SiteTypeOK
<1>5. attached'[i] => object'[i]
  <2>1. CASE attached[i]
    BY <2>1 DEF NPP_Destroy, siteVars, Safe, HostInv, PhaseInv
  <2>2. CASE ~attached[i]
    BY <2>2 DEF NPP_Destroy, DetachAndRelease, TypeOK, SiteTypeOK
  <2> QED BY <2>1, <2>2
<1>6. reentered' = IF OnStack(i) THEN reentered \cup {i} ELSE reentered
  BY DEF NPP_Destroy
<1>7. /\ WindowInv' /\ AdviseBalanced'
      /\ \A j \in Instances : j # i => sinkRefs'[j] = sinkRefs[j]
  BY <1>1, <1>2, ReleaseSafe DEF NPP_Destroy
<1>8. FramesInv' /\ OneCreate'
  <2>1. ASSUME NEW n \in DOMAIN stack PROVE FrameFits(stack[n]) /\ stack[n] \in Frame
    BY DEF Safe, HostInv, FramesInv, TypeOK, StackTypeOK
  <2>2. ASSUME NEW g \in Frame, FrameFits(g), g.inst = i => OnStack(i)
        PROVE  FrameFits(g)'
    <3>1. g.inst \in Instances /\ g.kind \in {"Create", "Activate", "Move", "Detach", "Event"}
      BY DEF Frame
    <3>2. CASE g.inst # i
      BY <1>2, <1>6, <2>2, <3>1, <3>2 DEF FrameFits
    <3>3. CASE g.inst = i
      <4>1. i \in reentered' /\ g.kind # "Detach"
        BY <1>1, <1>6, <2>2, <3>3 DEF FrameFits
      <4>2. CASE g.kind = "Create"
        <5>1. phase[i] = "starting"
          BY <1>1, <2>2, <3>3, <4>2 DEF FrameFits
        <5>2. ~attached[i]
          BY <5>1 DEF Safe, HostInv, PhaseInv
        <5> QED BY <1>2, <3>3, <4>1, <4>2, <5>2 DEF FrameFits
      <4> QED BY <3>1, <3>3, <4>1, <4>2 DEF FrameFits
    <3> QED BY <3>2, <3>3
  <2>3. \A n \in DOMAIN stack : \A g \in Frame : stack[n] = g /\ FrameFits(g) => FrameFits(g)'
    BY <2>2 DEF OnStack
  <2>4. CASE attached[i]
    <3>1. Push(Call("Detach", i))
      BY <2>4 DEF NPP_Destroy
    <3>2. FrameFits(Call("Detach", i))'
      BY <1>2 DEF FrameFits, Call
    <3> QED BY <2>3, <3>1, <3>2, CallFrames, FramesPushed DEF Call, Safe, HostInv
  <2>5. CASE ~attached[i]
    <3>1. UNCHANGED stack
      BY <2>5 DEF NPP_Destroy
    <3> QED BY <2>3, <3>1, FramesRefit DEF Safe, HostInv
  <2> QED BY <2>4, <2>5
<1>9. PhaseInv'
  <2> SUFFICES ASSUME NEW j \in Instances
               PROVE  /\ phase'[j] = "idle" => host'[j] = "none"
                      /\ phase'[j] = "failing" => host'[j] = "live"
                      /\ object'[j] => phase'[j] \in {"running", "failing", "gone"}
                      /\ attached'[j] => object'[j]
                      /\ j \in reentered' => phase'[j] = "gone"
    BY DEF PhaseInv
  <2>1. CASE j = i
    BY <1>2, <1>5, <2>1
  <2>2. CASE j # i
    BY <1>2, <1>4, <1>6, <2>2 DEF Safe, HostInv, PhaseInv
  <2> QED BY <2>1, <2>2
<1>10. GuardInv'
  BY <1>1, <1>6 DEF NPP_Destroy, Safe, HostInv, GuardInv
<1>11. EntryPointsFind'
  BY <1>2, <1>3, <1>4, <1>7 DEF Safe, EntryPointsFind
<1>12. StalePdataOnlyAfterError'
  <2>1. pdata'[i] => host'[i] = "live"
    BY <1>2
  <2> QED BY <1>2, <1>3, <2>1 DEF Safe, StalePdataOnlyAfterError
<1>13. FaultsExplained'
  BY <1>1 DEF FaultsExplained
<1> QED BY <1>7, <1>8, <1>9, <1>10, <1>11, <1>12, <1>13 DEF Safe, HostInv

\* The detached control gives the thread back to ~CAxHost.
LEMMA DetachReturnSafe ==
  ASSUME TypeOK, Safe, fault = {}, NEW i \in Instances, DetachReturn(i)
  PROVE  Safe'
<1>1. /\ Pop /\ UNCHANGED winVars /\ UNCHANGED sinkVars
      /\ UNCHANGED phase /\ UNCHANGED fault /\ UNCHANGED reentered
  BY DEF DetachReturn
<1>2. phase[i] = "gone"
  BY InnermostFits DEF DetachReturn, FrameFits
<1>3. /\ host'[i] = "freed" /\ pdata'[i] = FALSE /\ attached'[i] = FALSE
      /\ \A j \in Instances : j # i =>
           /\ host'[j] = host[j] /\ pdata'[j] = pdata[j] /\ siteRefs'[j] = siteRefs[j]
           /\ object'[j] = object[j] /\ attached'[j] = attached[j]
  BY DEF DetachReturn, DetachAndRelease, TypeOK, HostTypeOK, SiteTypeOK
<1>4. FramesInv' /\ OneCreate'
  <2>1. \A n \in DOMAIN stack' : n \in DOMAIN stack /\ stack'[n] = stack[n]
    BY <1>1, PopFrames DEF DetachReturn, Innermost, TypeOK
  <2>2. ASSUME NEW n \in DOMAIN stack, NEW g \in Frame, stack[n] = g, FrameFits(g)
        PROVE  FrameFits(g)'
    <3>1. g.inst \in Instances
      BY DEF Frame
    <3>2. host'[g.inst] = host[g.inst] \/ host'[g.inst] = "freed"
      BY <1>3, <3>1
    <3> QED BY <1>1, <2>2, <3>2 DEF FrameFits
  <2> QED BY <2>1, <2>2, FramesRefit DEF Safe, HostInv
<1>5. PhaseInv'
  <2> SUFFICES ASSUME NEW j \in Instances
               PROVE  /\ phase'[j] = "idle" => host'[j] = "none"
                      /\ phase'[j] = "failing" => host'[j] = "live"
                      /\ object'[j] => phase'[j] \in {"running", "failing", "gone"}
                      /\ attached'[j] => object'[j]
                      /\ j \in reentered' => phase'[j] = "gone"
    BY DEF PhaseInv
  <2>1. CASE j = i
    BY <1>1, <1>2, <1>3, <2>1
  <2>2. CASE j # i
    BY <1>1, <1>3, <2>2 DEF Safe, HostInv, PhaseInv
  <2> QED BY <2>1, <2>2
<1>6. WindowInv' /\ GuardInv'
  <2>1. window[i] = NoWindow
    BY <1>2 DEF Safe, HostInv, WindowInv
  <2> QED BY <1>1, <1>3, <2>1 DEF winVars, Safe, HostInv, WindowInv, GuardInv
<1>7. EntryPointsFind'
  BY <1>1, <1>2, <1>3 DEF sinkVars, Safe, EntryPointsFind
<1>8. StalePdataOnlyAfterError'
  BY <1>1, <1>3 DEF Safe, StalePdataOnlyAfterError
<1>9. AdviseBalanced'
  BY <1>1 DEF sinkVars, Safe, AdviseBalanced
<1>10. FaultsExplained'
  BY <1>1 DEF FaultsExplained
<1> QED BY <1>4, <1>5, <1>6, <1>7, <1>8, <1>9, <1>10 DEF Safe, HostInv

-----------------------------------------------------------------------------
(***************************************************************************)
(* The theorems.                                                           *)
(***************************************************************************)

LEMMA InitSafe == Init => Safe
BY DEF Init, WindowInit, SiteInit, SinkInit, Safe, HostInv, FramesInv, OneCreate, PhaseInv,
   WindowInv, GuardInv, EntryPointsFind, StalePdataOnlyAfterError, AdviseBalanced,
   FaultsExplained

LEMMA NextSafe == TypeOK /\ Safe /\ [Next]_vars => Safe'
<1> SUFFICES ASSUME TypeOK, Safe, [Next]_vars PROVE Safe'
  OBVIOUS
<1>1. CASE UNCHANGED vars
  <2>1. FramesInv' /\ OneCreate'
    BY <1>1, FramesStay DEF vars, hostVars, Safe, HostInv
  <2>2. FaultsExplained'
    BY <1>1 DEF vars, winVars, Safe, FaultsExplained
  <2> QED BY <1>1, <2>1, <2>2, QuietSafe DEF vars, siteVars
<1>2. CASE Next
  <2>1. fault = {}
    BY <1>2 DEF Next
  <2>2. ASSUME NEW i \in Instances, NPP_New(i) PROVE Safe'
    BY <2>2, NewSafe
  <2>3. ASSUME NEW i \in Instances, PumpExit(i) \/ PumpQuit(i) PROVE Safe'
    BY <2>3, PumpSafe
  <2>4. ASSUME NEW i \in Instances, NEW w \in Windows \cup {NoWindow}, NPP_SetWindow(i, w)
        PROVE  Safe'
    BY <2>1, <2>4, SetWindowSafe
  <2>5. ASSUME NEW i \in Instances,
               \/ DownloadStops(i) \/ AttachReturn(i) \/ FireEvent(i) \/ EventReturn(i)
               \/ MoveReturn(i) \/ NPP_HandleEvent(i) \/ NPP_GetValue(i)
               \/ \E w \in Windows : AxHostWinProc(i, w)
        PROVE  Safe'
    BY <2>5, CallbackSafe
  <2>6. ASSUME NEW i \in Instances, NPP_Destroy(i) PROVE Safe'
    BY <2>1, <2>6, DestroySafe
  <2>7. ASSUME NEW i \in Instances, DetachReturn(i) PROVE Safe'
    BY <2>1, <2>7, DetachReturnSafe
  <2>8. ASSUME NEW i \in Instances, DeleteHost(i) PROVE Safe'
    BY <2>8, DeleteHostSafe
  <2> QED BY <1>2, <2>2, <2>3, <2>4, <2>5, <2>6, <2>7, <2>8 DEF Next, Step
<1> QED BY <1>1, <1>2

\* The invariant that says why no suspended call finds its instance freed.
THEOREM Safety == Spec => [](HostInv /\ Safe)
<1>1. Safe => HostInv
  BY DEF Safe
<1> QED BY InitSafe, NextSafe, Typing, <1>1, PTL DEF Spec

\* Freed memory is used only after a re-entrant NPP_Destroy or a window that
\* was replaced directly: NPP_ entry points, OnStopBinding, InternalInvoke,
\* Attach and AxHostWinProc are safe from everything else.
THEOREM FaultSafety == Spec => []FaultsExplained
<1>1. Safe => FaultsExplained
  BY DEF Safe
<1> QED BY <1>1, Safety, PTL

\* With a browser that defers NPP_Destroy and clears windows first, no call
\* uses freed memory at all.
THEOREM GuardedSafety == Spec => []NoFault
<1>1. TypeOK /\ Safe => NoFault
  <2> SUFFICES ASSUME TypeOK, Safe, DeferDestroy, ClearWindowFirst, NEW i \in fault
               PROVE  FALSE
    BY DEF NoFault
  <2>1. i \in Instances
    BY DEF TypeOK, HostTypeOK
  <2> QED BY <2>1 DEF Safe, HostInv, GuardInv, FaultsExplained
<1> QED BY <1>1, Safety, Typing, PTL

\* Entry points find what they use without a check, and only an NPP_New that
\* failed leaves pdata dangling.
THEOREM EntryPoints == Spec => []LiveInstanceIsWhole
<1>1. Safe => LiveInstanceIsWhole
  BY DEF Safe, LiveInstanceIsWhole
<1> QED BY <1>1, Safety, PTL

\* The sink and the control agree on the subscription.
THEOREM Advise == Spec => []AdviseBalanced
<1>1. Safe => AdviseBalanced
  BY DEF Safe
<1> QED BY <1>1, Safety, PTL

\* A deleted host is remembered by no window but those replaced directly.
THEOREM WindowSafety == Spec => []DeletedHostLeavesWindows
<1>1. TypeOK /\ Safe => DeletedHostLeavesWindows
  BY WindowAssumption DEF Safe, HostInv, PhaseInv, WindowInv, EntryPointsFind,
     DeletedHostLeavesWindows,
     TypeOK, WindowTypeOK
<1> QED BY <1>1, Safety, Typing, PTL

-----------------------------------------------------------------------------
(***************************************************************************)
(* Suspended calls.                                                        *)
(***************************************************************************)

\* A call that suspends is suspended; nothing else changes.
LEMMA SuspendedPushed ==
  ASSUME StackTypeOK, NEW f \in Frame, Push(f)
  PROVE  \A k, j : Suspended(k, j)' <=> Suspended(k, j) \/ (f.kind = k /\ f.inst = j)
<1> SUFFICES ASSUME NEW k, NEW j
             PROVE  Suspended(k, j)' <=> Suspended(k, j) \/ (f.kind = k /\ f.inst = j)
  OBVIOUS
<1>1. Suspended(k, j)' => Suspended(k, j) \/ (f.kind = k /\ f.inst = j)
  BY PushFrames DEF Suspended
<1>2. Suspended(k, j) => Suspended(k, j)'
  BY PushFrames DEF Suspended
<1>3. f.kind = k /\ f.inst = j => Suspended(k, j)'
  BY PushFrames DEF Suspended
<1> QED BY <1>1, <1>2, <1>3

\* A call that returns can only end the suspension of its own kind and
\* instance.
LEMMA SuspendedPopped ==
  ASSUME StackTypeOK, stack # <<>>, Pop
  PROVE  /\ \A k, j : Suspended(k, j)' => Suspended(k, j)
         /\ \A k, j : Suspended(k, j) /\ (Top.kind # k \/ Top.inst # j) => Suspended(k, j)'
         /\ Suspended(Top.kind, Top.inst)
BY PopFrames DEF Suspended, Top

\* An instance has one Create call at most, so its return ends the suspension.
LEMMA CreatePopped ==
  ASSUME StackTypeOK, OneCreate, NEW i \in Instances, Innermost("Create", i), Pop
  PROVE  ~Suspended("Create", i)'
BY PopFrames DEF Suspended, Innermost, Top, OneCreate

-----------------------------------------------------------------------------
(***************************************************************************)
(* References.                                                             *)
(***************************************************************************)

\* ReferenceInv for one instance.
RefsOf(i) ==
  /\ "control" \in siteRefs[i] => attached[i]
  /\ phase[i] \in {"idle", "failed"} => siteRefs[i] = {} /\ host[i] # "live"
  /\ host[i] = "freed" => siteRefs[i] \subseteq {"bind"} /\ ~attached[i] /\ ~object[i]
  /\ phase[i] = "gone" => host[i] # "none"
  /\ phase[i] \notin {"running", "failing"} => sinkRefs[i] = {}
  /\ phase[i] = "failing" =>
       siteRefs[i] = {"host"} /\ sinkRefs[i] \subseteq {"host"} /\ ~attached[i] /\ host[i] = "live"
  /\ phase[i] = "gone" /\ host[i] = "live" =>
       Suspended("Detach", i) /\ "host" \in siteRefs[i]
  /\ Suspended("Activate", i) => attached[i] \/ host[i] = "freed"
  /\ "bind" \in siteRefs[i] <=> Suspended("Create", i)
  /\ binding[i] = "inProgress" => "bind" \in siteRefs[i]

LEMMA RefsOfAll == ReferenceInv <=> \A i \in Instances : RefsOf(i)
BY DEF ReferenceInv, HeldInv, ClosingInv, DownloadHoldsSite, RefsOf

\* What a step of instance i leaves as it is for instance j.
Same(j) ==
  /\ phase'[j] = phase[j] /\ host'[j] = host[j] /\ window'[j] = window[j]
  /\ siteRefs'[j] = siteRefs[j] /\ object'[j] = object[j] /\ attached'[j] = attached[j]
  /\ binding'[j] = binding[j] /\ sinkRefs'[j] = sinkRefs[j]

\* Suspended calls of instance j stay as they are.
SameCalls(j) == \A k \in {"Create", "Activate", "Detach"} : Suspended(k, j)' <=> Suspended(k, j)

\* What does not change keeps its references.
LEMMA RefsKept ==
  ASSUME NEW j, RefsOf(j), Same(j), SameCalls(j)
  PROVE  RefsOf(j)'
BY DEF RefsOf, Same, SameCalls

\* Entry points and returns that change nothing of instance i but its calls.
Passes(i) == MoveReturn(i) \/ NPP_HandleEvent(i) \/ NPP_GetValue(i)

\* What instance i may do in some state.
Acts(i) == Step(i) \/ DeleteHost(i)

\* A step leaves alone what belongs to other instances.
LEMMA OthersSame ==
  ASSUME TypeOK, NEW i \in Instances, Acts(i), NEW j \in Instances, j # i
  PROVE  Same(j)
<1> USE DEF Same, TypeOK, HostTypeOK, WindowTypeOK, SiteTypeOK, SinkTypeOK,
       winVars, siteVars, sinkVars, hostVars
<1>1. FailNew(i) => Same(j)
  BY DEF FailNew, Subscribe
<1>2. FinishNew(i) => /\ phase'[j] = phase[j] /\ host'[j] = host[j] /\ window'[j] = window[j]
                      /\ object'[j] = object[j] /\ attached'[j] = attached[j]
                      /\ sinkRefs'[j] = sinkRefs[j]
  BY DEF FinishNew, Subscribe
<1>3. CASE NPP_New(i)
  <2>1. CASE NotAuthorized(i)
    BY <2>1 DEF NotAuthorized
  <2>2. CASE NoValidClsID(i)
    BY <2>2 DEF NoValidClsID
  <2>3. CASE FailNew(i)
    BY <1>1, <2>3
  <2>4. CASE CreateAtOnce(i)
    BY <1>2, <2>4 DEF CreateAtOnce
  <2>5. CASE StartDownload(i)
    BY <2>5 DEF StartDownload, StartBinding
  <2> QED BY <1>3, <2>1, <2>2, <2>3, <2>4, <2>5 DEF NPP_New
<1>4. CASE PumpExit(i) \/ PumpQuit(i)
  <2>1. CASE ResumeInFreedHost(i)
    BY <2>1 DEF ResumeInFreedHost, EndBinding
  <2>2. CASE CreateFails(i)
    BY <1>1, <2>2 DEF CreateFails
  <2>3. CASE CreateSucceeds(i)
    BY <1>2, <2>3 DEF CreateSucceeds, EndBinding
  <2> QED BY <1>4, <2>1, <2>2, <2>3 DEF PumpExit, PumpQuit
<1>5. CASE DownloadStops(i)
  BY <1>5 DEF DownloadStops, OnStopBinding
<1>6. ASSUME NEW w \in Windows \cup {NoWindow}, NPP_SetWindow(i, w) PROVE Same(j)
  <2>1. window'[j] = window[j]
    BY <1>6 DEF NPP_SetWindow, setWindow
  <2>2. siteRefs'[j] = siteRefs[j] /\ attached'[j] = attached[j] /\ UNCHANGED <<object, binding>>
    BY <1>6 DEF NPP_SetWindow, UpdateRect, Attach, SetPosition
  <2> QED BY <1>6, <2>1, <2>2 DEF NPP_SetWindow
<1>7. CASE AttachReturn(i)
  BY <1>7 DEF AttachReturn, SetClientSite
<1>8. CASE FireEvent(i) \/ EventReturn(i) \/ (\E w \in Windows : AxHostWinProc(i, w))
  BY <1>8 DEF FireEvent, EventReturn, AxHostWinProc
<1>9. CASE NPP_Destroy(i)
  <2>1. window'[j] = window[j] /\ sinkRefs'[j] = sinkRefs[j]
    BY <1>9 DEF NPP_Destroy, ReleaseWindow, ReleaseSink
  <2>2. phase'[j] = phase[j] /\ host'[j] = host[j]
    BY <1>9 DEF NPP_Destroy
  <2>3. UNCHANGED siteVars \/ DetachAndRelease(i)
    BY <1>9 DEF NPP_Destroy
  <2> QED BY <2>1, <2>2, <2>3 DEF DetachAndRelease
<1>10. CASE DetachReturn(i)
  BY <1>10 DEF DetachReturn, DetachAndRelease
<1>11. CASE Passes(i)
  BY <1>11 DEF Passes, MoveReturn, NPP_HandleEvent, NPP_GetValue
<1>12. CASE DeleteHost(i)
  BY <1>12 DEF DeleteHost, ReleaseWindow, ReleaseSink, DetachAndRelease
<1> QED BY <1>3, <1>4, <1>5, <1>6, <1>7, <1>8, <1>9, <1>10, <1>11, <1>12 DEF Acts, Step, Passes

\* A call of instance i suspends, or its innermost call returns.
Calls(i) == \E f \in Frame : f.inst = i /\ Push(f)
Returns(i) == stack # <<>> /\ Top.inst = i /\ Pop

\* Suspended calls of other instances stay when a call of i suspends or returns.
LEMMA OthersSuspended ==
  ASSUME TypeOK, NEW i \in Instances, NEW j \in Instances, j # i,
         UNCHANGED stack \/ Calls(i) \/ Returns(i)
  PROVE  SameCalls(j)
<1>1. CASE UNCHANGED stack
  BY <1>1 DEF SameCalls, Suspended
<1>2. CASE Calls(i)
  BY <1>2, SuspendedPushed DEF Calls, SameCalls, TypeOK
<1>3. CASE Returns(i)
  BY <1>3, SuspendedPopped DEF Returns, SameCalls, TypeOK
<1> QED BY <1>1, <1>2, <1>3

\* Every step leaves the stack alone, or suspends or resumes a call of its own
\* instance.
LEMMA StepStack ==
  ASSUME NEW i \in Instances, Acts(i)
  PROVE  UNCHANGED stack \/ Calls(i) \/ Returns(i)
<1>1. \A k \in {"Create", "Activate", "Move", "Detach"} : Push(Call(k, i)) => Calls(i)
  BY CallFrames DEF Call, Calls
<1>2. \A wants \in BOOLEAN : Push(EventCall(i, wants)) => Calls(i)
  BY CallFrames DEF EventCall, Calls
<1>3. CASE NPP_New(i)
  BY <1>1, <1>3 DEF NPP_New, NotAuthorized, NoValidClsID, CreateAtOnce, StartDownload, StartBinding
<1>4. CASE PumpExit(i) \/ PumpQuit(i)
  BY <1>4 DEF PumpExit, PumpQuit, Innermost, ResumeInFreedHost, CreateFails, CreateSucceeds,
     EndBinding, Returns
<1>5. CASE DownloadStops(i) \/ (\E w \in Windows : AxHostWinProc(i, w))
  BY <1>5 DEF DownloadStops, OnStopBinding, AxHostWinProc
<1>6. CASE \E w \in Windows \cup {NoWindow} : NPP_SetWindow(i, w)
  <2> PICK w \in Windows \cup {NoWindow} : NPP_SetWindow(i, w)
    BY <1>6
  <2>1. Attach(i, w) \/ SetPosition(i) \/ UNCHANGED stack
    BY DEF NPP_SetWindow, UpdateRect
  <2>2. Attach(i, w) => UNCHANGED stack \/ Push(Call("Activate", i))
    BY Zenon DEF Attach
  <2>3. SetPosition(i) => UNCHANGED stack \/ Push(Call("Move", i))
    BY DEF SetPosition
  <2> QED BY <1>1, <2>1, <2>2, <2>3
<1>7. CASE AttachReturn(i) \/ EventReturn(i) \/ DetachReturn(i)
  BY <1>7 DEF AttachReturn, EventReturn, DetachReturn, Innermost, Returns
<1>8. CASE FireEvent(i)
  BY <1>2, <1>8 DEF FireEvent
<1>9. CASE NPP_Destroy(i)
  BY <1>1, <1>9 DEF NPP_Destroy
<1>10. CASE Passes(i)
  BY <1>10 DEF Passes, MoveReturn, NPP_HandleEvent, NPP_GetValue, Innermost, Returns
<1>11. CASE DeleteHost(i)
  BY <1>11 DEF DeleteHost
<1> QED BY <1>3, <1>4, <1>5, <1>6, <1>7, <1>8, <1>9, <1>10, <1>11 DEF Acts, Step, Passes

-----------------------------------------------------------------------------
(***************************************************************************)
(* The instance that takes the step.                                       *)
(***************************************************************************)

\* What Suspended says of the instance whose call is innermost.
LEMMA InnermostSuspended ==
  ASSUME TypeOK, NEW i \in Instances, NEW k, Innermost(k, i)
  PROVE  Suspended(k, i)
BY DEF TypeOK, StackTypeOK, Innermost, Suspended, Top

\* A NPP_New that fails late leaves the host one reference on its site, and on
\* its sink if there is one.
LEMMA FailNewRefs ==
  ASSUME TypeOK, NEW i \in Instances, FailNew(i), sinkRefs[i] = {}, ~attached[i],
         \A k \in {"Create", "Activate"} : ~Suspended(k, i)'
  PROVE  RefsOf(i)'
<1>1. /\ phase'[i] = "failing" /\ host'[i] = "live" /\ siteRefs'[i] = {"host"}
      /\ binding'[i] = "none" /\ ~attached'[i]
  BY DEF FailNew, TypeOK, HostTypeOK, SiteTypeOK
<1>2. sinkRefs'[i] \subseteq {"host"}
  BY DEF FailNew, Subscribe, sinkVars, TypeOK, SinkTypeOK
<1> QED BY <1>1, <1>2 DEF RefsOf

\* NPP_New for an instance that had not started: nothing is held before.
LEMMA NewRefs ==
  ASSUME TypeOK, Safe, NEW i \in Instances, RefsOf(i), NPP_New(i)
  PROVE  RefsOf(i)'
<1> USE DEF TypeOK, HostTypeOK, SiteTypeOK, SinkTypeOK, winVars, siteVars, sinkVars
<1>1. /\ phase[i] = "idle" /\ host[i] = "none" /\ siteRefs[i] = {} /\ sinkRefs[i] = {}
      /\ ~object[i] /\ ~attached[i] /\ binding[i] # "inProgress"
  BY DEF NPP_New, RefsOf, Safe, HostInv, PhaseInv
<1>2. \A k : ~Suspended(k, i)
  BY <1>1, IdleHasNoFrame DEF Suspended
<1>3. UNCHANGED stack => \A k : ~Suspended(k, i)'
  BY <1>2 DEF Suspended
<1>4. CASE NotAuthorized(i)
  BY <1>1, <1>3, <1>4 DEF NotAuthorized, RefsOf
<1>5. CASE NoValidClsID(i)
  BY <1>1, <1>3, <1>5 DEF NoValidClsID, RefsOf
<1>6. CASE FailNew(i) /\ UNCHANGED stack
  BY <1>1, <1>2, <1>3, <1>6, FailNewRefs
<1>7. CASE CreateAtOnce(i)
  BY <1>1, <1>3, <1>7 DEF CreateAtOnce, FinishNew, RefsOf
<1>8. CASE StartDownload(i)
  <2>1. \A k : Suspended(k, i)' <=> k = "Create"
    <3>1. Push(Call("Create", i)) /\ Call("Create", i) \in Frame
      BY <1>8, CallFrames DEF StartDownload, StartBinding
    <3>2. Call("Create", i).kind = "Create" /\ Call("Create", i).inst = i
      BY DEF Call
    <3> QED BY <1>2, <3>1, <3>2, SuspendedPushed
  <2> QED BY <1>1, <1>8, <2>1 DEF StartDownload, StartBinding, RefsOf
<1> QED BY <1>4, <1>5, <1>6, <1>7, <1>8 DEF NPP_New

\* The ends of the message loop of Create, which drop the binding's reference.
LEMMA PumpRefs ==
  ASSUME TypeOK, Safe, NEW i \in Instances, RefsOf(i), PumpExit(i) \/ PumpQuit(i)
  PROVE  RefsOf(i)'
<1> USE DEF TypeOK, HostTypeOK, SiteTypeOK, SinkTypeOK, winVars, siteVars, sinkVars, hostVars
<1>1. Innermost("Create", i) /\ Pop
  BY DEF PumpExit, PumpQuit, ResumeInFreedHost, CreateFails, CreateSucceeds, EndBinding
<1>2. ~Suspended("Create", i)'
  BY <1>1, CreatePopped DEF Safe, HostInv
<1>3. \A k \in {"Activate", "Detach"} : Suspended(k, i)' <=> Suspended(k, i)
  BY <1>1, SuspendedPopped DEF Innermost
<1>4. CASE ResumeInFreedHost(i)
  BY <1>2, <1>3, <1>4 DEF ResumeInFreedHost, EndBinding, RefsOf
<1>5. host[i] = "live" => phase[i] = "starting" /\ ~object[i] /\ ~attached[i]
  BY <1>1, PumpFrames DEF Safe, HostInv, PhaseInv
<1>6. CASE CreateFails(i)
  <2>1. ~Suspended("Activate", i)'
    BY <1>3, <1>5, <1>6 DEF CreateFails, RefsOf
  <2> QED BY <1>2, <1>5, <1>6, <2>1, FailNewRefs DEF CreateFails, RefsOf
<1>7. CASE CreateSucceeds(i)
  <2>1. /\ phase'[i] = "running" /\ host'[i] = "live" /\ siteRefs'[i] = siteRefs[i] \ {"bind"}
        /\ binding'[i] = "none" /\ attached'[i] = attached[i]
    BY <1>7 DEF CreateSucceeds, FinishNew, EndBinding
  <2> QED BY <1>2, <1>3, <1>5, <1>7, <2>1 DEF CreateSucceeds, RefsOf
<1> QED BY <1>4, <1>6, <1>7 DEF PumpExit, PumpQuit

\* A new window attaches the control, or changes no reference.
LEMMA SetWindowRefs ==
  ASSUME TypeOK, Safe, NEW i \in Instances, NEW w \in Windows \cup {NoWindow}, RefsOf(i),
         NPP_SetWindow(i, w)
  PROVE  RefsOf(i)'
<1> USE DEF TypeOK, SiteTypeOK, siteVars, sinkVars, hostVars
<1>1. phase[i] \in {"starting", "running"} /\ host[i] = "live"
  BY DEF NPP_SetWindow, Safe, EntryPointsFind
<1>2. UNCHANGED sinkVars /\ UNCHANGED hostVars /\ UNCHANGED binding /\ UNCHANGED object
  BY DEF NPP_SetWindow, UpdateRect, Attach, SetPosition
<1>3. CASE UNCHANGED <<stack, siteVars>>
  BY <1>1, <1>2, <1>3 DEF RefsOf, Suspended
<1>4. CASE Attach(i, w)
  <2>1. /\ siteRefs'[i] \in {siteRefs[i], siteRefs[i] \cup {"control"}}
        /\ attached[i] => attached'[i]
        /\ siteRefs'[i] = siteRefs[i] \/ attached'[i]
    BY <1>4 DEF Attach
  <2>2. UNCHANGED stack \/ (Push(Call("Activate", i)) /\ attached'[i])
    BY <1>4 DEF Attach
  <2>3. \A k \in {"Create", "Detach"} : Suspended(k, i)' <=> Suspended(k, i)
    <3>1. UNCHANGED stack => \A k : Suspended(k, i)' <=> Suspended(k, i)
      BY DEF Suspended
    <3> QED BY <2>2, <3>1, SuspendedPushed, CallFrames DEF Call
  <2>4. Suspended("Activate", i)' => attached'[i]
    <3>1. CASE UNCHANGED stack
      <4>1. Suspended("Activate", i)' => Suspended("Activate", i)
        BY <3>1 DEF Suspended
      <4> QED BY <1>1, <2>1, <4>1 DEF RefsOf
    <3>2. CASE attached'[i]
      BY <3>2
    <3> QED BY <2>2, <3>1, <3>2
  <2> QED BY <1>1, <1>2, <2>1, <2>3, <2>4 DEF RefsOf
<1>5. CASE SetPosition(i)
  <2>1. SameCalls(i)
    <3>1. CASE UNCHANGED stack
      BY <3>1 DEF SameCalls, Suspended
    <3>2. CASE Push(Call("Move", i))
      BY <3>2, SuspendedPushed, CallFrames DEF Call, SameCalls
    <3> QED BY <1>5, <3>1, <3>2 DEF SetPosition
  <2>2. UNCHANGED siteVars
    BY <1>5 DEF SetPosition
  <2> QED BY <1>1, <1>2, <2>1, <2>2 DEF RefsOf, SameCalls
<1> QED BY <1>3, <1>4, <1>5 DEF NPP_SetWindow, UpdateRect

\* The return of a control's activation gives it the site, if there is one.
LEMMA AttachReturnRefs ==
  ASSUME TypeOK, Safe, NEW i \in Instances, RefsOf(i), AttachReturn(i)
  PROVE  RefsOf(i)'
<1> USE DEF TypeOK, SiteTypeOK, siteVars, sinkVars, hostVars
<1>1. Innermost("Activate", i) /\ Pop /\ UNCHANGED sinkVars /\ UNCHANGED hostVars
  BY DEF AttachReturn
<1>2. /\ \A k \in {"Create", "Detach"} : Suspended(k, i)' <=> Suspended(k, i)
      /\ Suspended("Activate", i)
  BY <1>1, SuspendedPopped DEF Innermost
<1>3. CASE host[i] = "live"
  <2>1. attached[i]
    BY <1>2, <1>3 DEF RefsOf
  <2>2. /\ siteRefs'[i] = siteRefs[i] \cup {"control"}
        /\ attached'[i] = attached[i] /\ binding'[i] = binding[i]
    BY <1>3 DEF AttachReturn, SetClientSite
  <2> QED BY <1>1, <1>2, <1>3, <2>1, <2>2 DEF RefsOf
<1>4. CASE host[i] # "live"
  BY <1>1, <1>2, <1>4 DEF AttachReturn, RefsOf
<1> QED BY <1>3, <1>4

\* Events, window messages and the end of a download change no reference.
LEMMA CallbackRefs ==
  ASSUME TypeOK, NEW i \in Instances, RefsOf(i),
         \/ DownloadStops(i) \/ FireEvent(i) \/ EventReturn(i) \/ Passes(i)
         \/ \E w \in Windows : AxHostWinProc(i, w)
  PROVE  RefsOf(i)'
<1> USE DEF TypeOK, SiteTypeOK, siteVars, sinkVars, hostVars
<1>1. /\ UNCHANGED <<siteRefs, object, attached>> /\ UNCHANGED sinkVars /\ UNCHANGED hostVars
      /\ binding'[i] = "inProgress" => binding[i] = "inProgress"
  BY DEF DownloadStops, OnStopBinding, FireEvent, EventReturn, AxHostWinProc,
     Passes, MoveReturn, NPP_HandleEvent, NPP_GetValue
<1>2. \A k \in {"Create", "Activate", "Detach"} : Suspended(k, i)' <=> Suspended(k, i)
  <2>1. CASE UNCHANGED stack
    BY <2>1 DEF Suspended
  <2>2. CASE FireEvent(i)
    <3>1. PICK wants \in BOOLEAN : Push(EventCall(i, wants))
      BY <2>2 DEF FireEvent
    <3>2. EventCall(i, wants) \in Frame /\ EventCall(i, wants).kind = "Event"
      BY CallFrames DEF EventCall
    <3> QED BY <3>1, <3>2, SuspendedPushed
  <2>3. CASE EventReturn(i)
    BY <2>3, SuspendedPopped DEF EventReturn, Innermost
  <2>4. CASE MoveReturn(i)
    BY <2>4, SuspendedPopped DEF MoveReturn, Innermost
  <2> QED BY <2>1, <2>2, <2>3, <2>4 DEF DownloadStops, OnStopBinding, AxHostWinProc, Passes,
     NPP_HandleEvent, NPP_GetValue
<1> QED BY <1>1, <1>2 DEF RefsOf

\* What is left of the references of a detached and released site.
LEMMA DetachRefs ==
  ASSUME TypeOK, NEW i \in Instances, DetachAndRelease(i)
  PROVE  /\ siteRefs'[i] = siteRefs[i] \ {"control", "host"} /\ siteRefs'[i] \subseteq {"bind"}
         /\ ~object'[i] /\ ~attached'[i] /\ binding'[i] = binding[i]
BY DEF DetachAndRelease, TypeOK, SiteTypeOK

\* NPP_Destroy releases the sink, and the site or the thread to the control.
LEMMA DestroyRefs ==
  ASSUME TypeOK, Safe, NEW i \in Instances, RefsOf(i), NPP_Destroy(i)
  PROVE  RefsOf(i)'
<1> USE DEF TypeOK, HostTypeOK, SiteTypeOK, SinkTypeOK
<1>1. /\ host[i] = "live" /\ "host" \in siteRefs[i] /\ phase'[i] = "gone"
      /\ "control" \in sinkRefs[i] => subscribed[i]
  BY DEF NPP_Destroy, Safe, EntryPointsFind, AdviseBalanced
<1>2. sinkRefs'[i] = {}
  BY <1>1 DEF NPP_Destroy, ReleaseSink
<1>3. CASE attached[i]
  <2>1. Push(Call("Detach", i)) /\ UNCHANGED siteVars /\ UNCHANGED host
    BY <1>3 DEF NPP_Destroy
  <2>2. /\ \A k \in {"Create", "Activate"} : Suspended(k, i)' <=> Suspended(k, i)
        /\ Suspended("Detach", i)'
    <3>1. /\ Call("Detach", i) \in Frame
          /\ Call("Detach", i).kind = "Detach" /\ Call("Detach", i).inst = i
      BY CallFrames DEF Call
    <3> QED BY <2>1, <3>1, SuspendedPushed
  <2> QED BY <1>1, <1>2, <1>3, <2>1, <2>2 DEF siteVars, RefsOf
<1>4. CASE ~attached[i]
  <2>1. DetachAndRelease(i) /\ host'[i] = "freed" /\ UNCHANGED stack
    BY <1>4 DEF NPP_Destroy
  <2>2. \A k : Suspended(k, i)' <=> Suspended(k, i)
    BY <2>1 DEF Suspended
  <2> QED BY <1>1, <1>2, <2>1, <2>2, DetachRefs DEF RefsOf
<1> QED BY <1>3, <1>4

\* The delete at the end of a NPP_New that failed leaves nothing.
LEMMA DeleteHostRefs ==
  ASSUME TypeOK, Safe, NEW i \in Instances, RefsOf(i), DeleteHost(i)
  PROVE  RefsOf(i)'
<1> USE DEF TypeOK, HostTypeOK, SinkTypeOK
<1>1. /\ siteRefs[i] = {"host"} /\ sinkRefs[i] \subseteq {"host"} /\ ~Suspended("Create", i)
      /\ binding[i] # "inProgress"
  BY DEF DeleteHost, RefsOf
<1>2. phase'[i] = "failed" /\ host'[i] = "freed" /\ UNCHANGED stack /\ DetachAndRelease(i)
  BY DEF DeleteHost
<1>3. siteRefs'[i] = {} /\ ~object'[i] /\ ~attached'[i] /\ binding'[i] # "inProgress"
  BY <1>1, <1>2, DetachRefs
<1>4. sinkRefs'[i] = {}
  BY <1>1 DEF DeleteHost, ReleaseSink
<1>5. ~Suspended("Create", i)'
  BY <1>1, <1>2 DEF Suspended
<1> QED BY <1>2, <1>3, <1>4, <1>5 DEF RefsOf

\* The rest of NPP_Destroy, after the control's deactivation.
LEMMA DetachReturnRefs ==
  ASSUME TypeOK, Safe, NEW i \in Instances, RefsOf(i), DetachReturn(i)
  PROVE  RefsOf(i)'
<1> USE DEF TypeOK, HostTypeOK
<1>1. /\ Innermost("Detach", i) /\ Pop /\ DetachAndRelease(i) /\ host'[i] = "freed"
      /\ UNCHANGED phase /\ UNCHANGED sinkRefs
  BY DEF DetachReturn, sinkVars
<1>2. phase[i] = "gone"
  BY <1>1, InnermostFits DEF FrameFits
<1>3. Suspended("Create", i)' <=> Suspended("Create", i)
  BY <1>1, SuspendedPopped DEF Innermost
<1> QED BY <1>1, <1>2, <1>3, DetachRefs DEF RefsOf

\* Every step keeps the references of the instance that takes it.
LEMMA StepRefs ==
  ASSUME TypeOK, Safe, NEW i \in Instances, RefsOf(i), Acts(i)
  PROVE  RefsOf(i)'
<1>1. CASE NPP_New(i) \/ PumpExit(i) \/ PumpQuit(i)
  BY <1>1, NewRefs, PumpRefs
<1>2. CASE \E w \in Windows \cup {NoWindow} : NPP_SetWindow(i, w)
  BY <1>2, SetWindowRefs
<1>3. CASE AttachReturn(i) \/ NPP_Destroy(i) \/ DetachReturn(i) \/ DeleteHost(i)
  BY <1>3, AttachReturnRefs, DestroyRefs, DetachReturnRefs, DeleteHostRefs
<1>4. CASE \/ DownloadStops(i) \/ FireEvent(i) \/ EventReturn(i) \/ Passes(i)
           \/ \E w \in Windows : AxHostWinProc(i, w)
  BY <1>4, CallbackRefs
<1> QED BY <1>1, <1>2, <1>3, <1>4 DEF Acts, Step, Passes

LEMMA NextSteps == Next => \E i \in Instances : Acts(i)
BY DEF Next, Acts, Step, Passes

-----------------------------------------------------------------------------
(***************************************************************************)
(* The theorems on references.                                             *)
(***************************************************************************)

LEMMA InitRefs == Init => ReferenceInv
BY DEF Init, SiteInit, SinkInit, ReferenceInv, HeldInv, ClosingInv, DownloadHoldsSite, Suspended

LEMMA NextRefs == TypeOK /\ Safe /\ ReferenceInv /\ [Next]_vars => ReferenceInv'
<1> SUFFICES ASSUME TypeOK, Safe, ReferenceInv, [Next]_vars, NEW j \in Instances
             PROVE  RefsOf(j)'
  BY DEF ReferenceInv, HeldInv, ClosingInv, DownloadHoldsSite, RefsOf
<1>1. RefsOf(j)
  BY RefsOfAll
<1>2. CASE UNCHANGED vars
  BY <1>1, <1>2 DEF vars, siteVars, sinkVars, hostVars, RefsOf, Suspended
<1>3. ASSUME NEW i \in Instances, Acts(i) PROVE RefsOf(j)'
  <2>1. CASE j = i
    BY <1>1, <1>3, <2>1, StepRefs
  <2>2. CASE j # i
    BY <1>1, <1>3, <2>2, OthersSame, StepStack, OthersSuspended, RefsKept
  <2> QED BY <2>1, <2>2
<1> QED BY <1>2, <1>3, NextSteps

\* The references on sites and sinks are those of the suspended calls and of
\* the phase of the instance, on every path.
THEOREM References == Spec => []ReferenceInv
<1>1. HostInv /\ Safe => Safe
  OBVIOUS
<1> QED BY InitRefs, NextRefs, Typing, Safety, <1>1, PTL DEF Spec

\* A download that may still call OnStopBinding finds its site alive.
THEOREM DownloadSafety == Spec => []DownloadHoldsSite
<1>1. ReferenceInv => DownloadHoldsSite
  BY DEF ReferenceInv
<1> QED BY <1>1, References, PTL

\* An instance that has ended, and whose calls have returned, leaves no
\* reference, no host and no control behind.
THEOREM NoLeak == Spec => []NothingLeaks
<1>1. TypeOK /\ Safe /\ ReferenceInv => NothingLeaks
  <2> SUFFICES ASSUME TypeOK, Safe, ReferenceInv, NEW i \in Instances,
                      phase[i] \in {"failed", "gone"}, ~OnStack(i)
               PROVE  /\ host[i] # "live"
                      /\ siteRefs[i] = {} /\ sinkRefs[i] = {}
                      /\ ~object[i] /\ ~attached[i]
    BY DEF NothingLeaks
  <2>1. RefsOf(i)
    BY RefsOfAll
  <2>2. \A k : ~Suspended(k, i)
    BY DEF OnStack, Suspended
  <2>3. host[i] # "live"
    BY <2>1, <2>2 DEF RefsOf
  <2>4. ~object[i] /\ ~attached[i]
    BY <2>1, <2>3 DEF RefsOf, TypeOK, HostTypeOK, Safe, HostInv, PhaseInv
  <2>5. siteRefs[i] = {}
    BY <2>1, <2>2, <2>3 DEF RefsOf, TypeOK, HostTypeOK
  <2> QED BY <2>1, <2>3, <2>4, <2>5 DEF RefsOf
<1> QED BY <1>1, Typing, Safety, References, PTL

-----------------------------------------------------------------------------
(***************************************************************************)
(* The refinement of InstanceLifecycle: one lemma for each step that       *)
(* changes the stage of its instance or what is held for it.               *)
(***************************************************************************)

\* An instance whose fields stay is at the same stage.
LEMMA SameStage ==
  ASSUME NEW j \in Instances, Same(j)
  PROVE  Stage(j)' = Stage(j) /\ Held(j)' = Held(j)
BY DEF Same, Stage, Held

\* A change of stage and holdings of one instance is a move of the abstraction.
LEMMA MapMove ==
  ASSUME TypeOK, NEW i \in Instances, Acts(i), NEW from, NEW to, NEW held,
         Stage(i) \in from, Stage(i)' = to, Held(i)' = held
  PROVE  Lifecycle!Moves(i, from, to, held)
<1>1. \A j \in Instances : j # i => Stage(j)' = Stage(j) /\ Held(j)' = Held(j)
  BY OthersSame, SameStage
<1> QED BY <1>1 DEF Lifecycle!Moves

\* A step that changes neither is a stutter of the abstraction.
LEMMA MapStutter ==
  ASSUME TypeOK, NEW i \in Instances, Acts(i), Stage(i)' = Stage(i), Held(i)' = Held(i)
  PROVE  UNCHANGED Lifecycle!lifeVars
<1>1. \A j \in Instances : Stage(j)' = Stage(j) /\ Held(j)' = Held(j)
  BY OthersSame, SameStage
<1> QED BY <1>1 DEF Lifecycle!lifeVars

\* The steps of the abstraction, or none.
Maps == Lifecycle!Next \/ UNCHANGED Lifecycle!lifeVars

\* A failed start is Fail.
LEMMA MapFail ==
  ASSUME TypeOK, NEW i \in Instances, Acts(i), phase[i] \in {"idle", "failing"},
         phase'[i] = "failed", siteRefs'[i] = {}, sinkRefs'[i] = {}, window'[i] = NoWindow
  PROVE  Maps
<1>1. Stage(i) \in {"idle", "starting"} /\ Stage(i)' = "failed" /\ Held(i)' = {}
  BY DEF Stage, Held
<1>2. Lifecycle!Moves(i, {"idle", "starting"}, "failed", {})
  BY <1>1, MapMove
<1>3. Lifecycle!Fail(i)
  BY <1>2 DEF Lifecycle!Fail
<1> QED BY <1>3 DEF Maps, Lifecycle!Next

\* A finished start is Run.
LEMMA MapRun ==
  ASSUME TypeOK, NEW i \in Instances, Acts(i), phase[i] \in {"idle", "starting"},
         phase'[i] = "running", siteRefs'[i] # {}, sinkRefs'[i] # {}, window'[i] = window[i],
         sinkRefs[i] = {}
  PROVE  Maps
<1>1. Stage(i) \in {"idle", "starting"} /\ Stage(i)' = "running"
  BY DEF Stage
<1>2. Held(i)' = Held(i) \cup {"site", "sink"}
  BY DEF Held
<1>3. Lifecycle!Moves(i, {"idle", "starting"}, "running", Held(i) \cup {"site", "sink"})
  BY <1>1, <1>2, MapMove
<1>4. Lifecycle!Run(i)
  BY <1>3 DEF Lifecycle!Run
<1> QED BY <1>4 DEF Maps, Lifecycle!Next

\* A start that waits for a download is Start.
LEMMA MapStart ==
  ASSUME TypeOK, NEW i \in Instances, Acts(i), Stage(i) = "idle",
         Stage(i)' = "starting", Held(i)' = {"site"}
  PROVE  Maps
<1>1. Lifecycle!Moves(i, {"idle"}, "starting", {"site"})
  BY MapMove
<1>2. Lifecycle!Start(i)
  BY <1>1 DEF Lifecycle!Start
<1> QED BY <1>2 DEF Maps, Lifecycle!Next

\* The end of an instance is Release.
LEMMA MapRelease ==
  ASSUME TypeOK, NEW i \in Instances, Acts(i), Stage(i) \in {"starting", "running", "closing"},
         Stage(i)' = "released", Held(i)' = {}
  PROVE  Maps
<1>1. Lifecycle!Moves(i, {"starting", "running", "closing"}, "released", {})
  BY MapMove
<1>2. Lifecycle!Release(i)
  BY <1>1 DEF Lifecycle!Release
<1> QED BY <1>2 DEF Maps, Lifecycle!Next

\* What a NPP_New that has failed late holds is what one that waits for a
\* download holds.
LEMMA FailingHolds ==
  ASSUME NEW i \in Instances, RefsOf(i)', phase'[i] = "failing"
  PROVE  /\ Stage(i)' = "starting"
         /\ Held(i)' = {"site"} \cup (IF window'[i] # NoWindow THEN {"window"} ELSE {})
<1>1. siteRefs'[i] # {}
  BY DEF RefsOf
<1> QED BY <1>1 DEF Stage, Held

\* NPP_New is Fail, Run or Start; it is Start also when it fails late.
LEMMA NewMaps ==
  ASSUME TypeOK, Safe, NEW i \in Instances, RefsOf(i), RefsOf(i)', NPP_New(i)
  PROVE  Maps
<1> USE DEF TypeOK, HostTypeOK, SiteTypeOK, SinkTypeOK, WindowTypeOK
<1>1. /\ phase[i] = "idle" /\ siteRefs[i] = {} /\ sinkRefs[i] = {} /\ window[i] = NoWindow
  BY DEF NPP_New, RefsOf, Safe, HostInv, WindowInv
<1>2. CASE NotAuthorized(i) \/ NoValidClsID(i)
  <2>1. phase'[i] = "failed" /\ window'[i] = NoWindow
    BY <1>1, <1>2 DEF NotAuthorized, NoValidClsID, winVars
  <2> QED BY <1>1, <2>1, MapFail DEF Acts, Step, RefsOf
<1>5. CASE FailNew(i)
  <2>1. phase'[i] = "failing" /\ window'[i] = NoWindow
    BY <1>1, <1>5 DEF FailNew, winVars
  <2>2. Stage(i) = "idle" /\ Stage(i)' = "starting" /\ Held(i)' = {"site"}
    BY <1>1, <2>1, FailingHolds DEF Stage
  <2> QED BY <2>2, MapStart DEF Acts, Step
<1>3. CASE CreateAtOnce(i)
  <2>1. phase'[i] = "running" /\ siteRefs'[i] = {"host"} /\ window'[i] = window[i]
    BY <1>3 DEF CreateAtOnce, FinishNew, winVars
  <2>2. sinkRefs'[i] # {}
    BY <1>3 DEF CreateAtOnce, FinishNew, Subscribe
  <2> QED BY <1>1, <2>1, <2>2, MapRun DEF Acts, Step
<1>4. CASE StartDownload(i)
  <2>1. /\ phase'[i] = "starting" /\ siteRefs'[i] = {"host", "bind"}
        /\ sinkRefs'[i] = {} /\ window'[i] = NoWindow
    BY <1>1, <1>4 DEF StartDownload, StartBinding, winVars, sinkVars
  <2>2. Stage(i) = "idle" /\ Stage(i)' = "starting" /\ Held(i)' = {"site"}
    BY <1>1, <2>1 DEF Stage, Held
  <2> QED BY <2>2, MapStart DEF Acts, Step
<1> QED BY <1>2, <1>3, <1>4, <1>5 DEF NPP_New

\* The end of the message loop is Run, or nothing yet when NPP_New fails, or
\* Release when the instance was destroyed under it.
LEMMA PumpMaps ==
  ASSUME TypeOK, Safe, NEW i \in Instances, RefsOf(i), RefsOf(i)', PumpExit(i) \/ PumpQuit(i)
  PROVE  Maps
<1> USE DEF TypeOK, HostTypeOK, SiteTypeOK, SinkTypeOK, WindowTypeOK
<1>1. Innermost("Create", i) /\ Pop
  BY DEF PumpExit, PumpQuit, ResumeInFreedHost, CreateFails, CreateSucceeds, EndBinding
<1>2. CASE ResumeInFreedHost(i)
  <2>1. Suspended("Create", i) /\ FrameFits(Top) /\ Top.kind = "Create" /\ Top.inst = i
    BY <1>1, InnermostFits, InnermostSuspended
  <2>2. phase[i] = "gone"
    BY <1>2, <2>1 DEF ResumeInFreedHost, FrameFits, Safe, EntryPointsFind, HostInv, PhaseInv
  <2>3. siteRefs[i] # {} /\ siteRefs[i] \subseteq {"bind"} /\ sinkRefs[i] = {}
    BY <1>2, <2>1, <2>2 DEF ResumeInFreedHost, RefsOf
  <2>4. siteRefs'[i] = {} /\ phase'[i] = "gone" /\ sinkRefs'[i] = {} /\ window'[i] = NoWindow
    BY <1>2, <2>2, <2>3 DEF ResumeInFreedHost, EndBinding, winVars, sinkVars, hostVars, Safe,
       HostInv, WindowInv
  <2>5. Stage(i) = "closing" /\ Stage(i)' = "released" /\ Held(i)' = {}
    BY <2>2, <2>3, <2>4 DEF Stage, Held
  <2> QED BY <2>5, MapRelease DEF Acts, Step
<1>3. host[i] = "live" => phase[i] = "starting" /\ sinkRefs[i] = {}
  BY <1>1, PumpFrames DEF RefsOf
<1>4. CASE CreateFails(i)
  <2>1. /\ phase[i] = "starting" /\ sinkRefs[i] = {} /\ "host" \in siteRefs[i]
        /\ phase'[i] = "failing" /\ window'[i] = window[i]
    BY <1>3, <1>4 DEF CreateFails, FailNew, winVars, Safe, EntryPointsFind
  <2>2. /\ Stage(i) = "starting"
        /\ Held(i) = {"site"} \cup (IF window[i] # NoWindow THEN {"window"} ELSE {})
    BY <2>1 DEF Stage, Held
  <2> QED BY <2>1, <2>2, FailingHolds, MapStutter DEF Maps, Acts, Step
<1>5. CASE CreateSucceeds(i)
  <2>1. phase'[i] = "running" /\ siteRefs'[i] = siteRefs[i] \ {"bind"} /\ window'[i] = window[i]
    BY <1>5 DEF CreateSucceeds, FinishNew, EndBinding, winVars
  <2>2. sinkRefs'[i] # {}
    BY <1>5 DEF CreateSucceeds, FinishNew, Subscribe
  <2>3. "host" \in siteRefs'[i]
    BY <1>3, <1>5, <2>1 DEF CreateSucceeds, Safe, EntryPointsFind
  <2> QED BY <1>3, <1>5, <2>1, <2>2, <2>3, MapRun DEF CreateSucceeds, Acts, Step
<1> QED BY <1>2, <1>4, <1>5 DEF PumpExit, PumpQuit

\* The delete of the host is Fail.
LEMMA DeleteHostMaps ==
  ASSUME TypeOK, Safe, NEW i \in Instances, RefsOf(i)', DeleteHost(i)
  PROVE  Maps
<1>1. phase[i] = "failing" /\ phase'[i] = "failed" /\ window'[i] = NoWindow
  BY DEF DeleteHost, ReleaseWindow, TypeOK, HostTypeOK, WindowTypeOK
<1> QED BY <1>1, MapFail DEF Acts, RefsOf

\* A new window is SetWindow.
LEMMA SetWindowMaps ==
  ASSUME TypeOK, Safe, NEW i \in Instances, NEW w \in Windows \cup {NoWindow},
         NPP_SetWindow(i, w)
  PROVE  Maps
<1>1. /\ phase[i] \in {"starting", "running"} /\ "host" \in siteRefs[i] /\ "host" \in siteRefs'[i]
      /\ UNCHANGED phase /\ UNCHANGED sinkRefs
  <2>1. phase[i] \in {"starting", "running"} /\ "host" \in siteRefs[i]
    BY DEF NPP_SetWindow, Safe, EntryPointsFind
  <2>2. "host" \in siteRefs'[i]
    BY <2>1 DEF NPP_SetWindow, UpdateRect, Attach, SetPosition, siteVars, TypeOK, SiteTypeOK
  <2> QED BY <2>1, <2>2 DEF NPP_SetWindow, hostVars, sinkVars
<1>2. window'[i] = w
  BY DEF NPP_SetWindow, setWindow, winVars, TypeOK, WindowTypeOK
<1>3. Stage(i) = phase[i] /\ Stage(i)' = phase[i]
  BY <1>1 DEF Stage
<1>4. Held(i)' \in {Held(i) \cup {"window"}, Held(i) \ {"window"}}
  <2>1. CASE w = NoWindow
    <3>1. Held(i)' = Held(i) \ {"window"}
      BY <1>1, <1>2, <2>1 DEF Held
    <3> QED BY <3>1
  <2>2. CASE w # NoWindow
    <3>1. Held(i)' = Held(i) \cup {"window"}
      BY <1>1, <1>2, <2>2 DEF Held
    <3> QED BY <3>1
  <2> QED BY <2>1, <2>2
<1>5. Lifecycle!Moves(i, {phase[i]}, phase[i], Held(i)')
  BY <1>3, MapMove DEF Acts, Step
<1>6. Lifecycle!SetWindow(i)
  BY <1>1, <1>4, <1>5 DEF Lifecycle!SetWindow
<1> QED BY <1>6 DEF Maps, Lifecycle!Next

\* Returns into Attach and InternalInvoke, events, window messages and the end
\* of a download are no step of the abstraction.
LEMMA CallbackMaps ==
  ASSUME TypeOK, Safe, NEW i \in Instances, RefsOf(i),
         \/ DownloadStops(i) \/ AttachReturn(i) \/ FireEvent(i) \/ EventReturn(i) \/ Passes(i)
         \/ \E w \in Windows : AxHostWinProc(i, w)
  PROVE  Maps
<1>1. UNCHANGED phase /\ UNCHANGED window /\ UNCHANGED sinkRefs
  BY DEF DownloadStops, AttachReturn, FireEvent, EventReturn, AxHostWinProc, Passes,
     MoveReturn, NPP_HandleEvent, NPP_GetValue, winVars, sinkVars, hostVars
<1>2. siteRefs'[i] = {} <=> siteRefs[i] = {}
  <2>1. CASE UNCHANGED siteRefs
    BY <2>1
  <2>2. CASE AttachReturn(i) /\ host[i] = "live"
    <3>1. "host" \in siteRefs[i]
      BY <2>2 DEF RefsOf, Safe, EntryPointsFind, TypeOK, HostTypeOK
    <3>2. siteRefs'[i] = siteRefs[i] \cup {"control"}
      BY <2>2 DEF AttachReturn, SetClientSite, TypeOK, SiteTypeOK
    <3> QED BY <3>1, <3>2
  <2> QED BY <2>1, <2>2 DEF DownloadStops, OnStopBinding, AttachReturn, FireEvent, EventReturn,
     AxHostWinProc, Passes, MoveReturn, NPP_HandleEvent, NPP_GetValue, siteVars
<1>3. Stage(i)' = Stage(i) /\ Held(i)' = Held(i)
  BY <1>1, <1>2 DEF Stage, Held
<1> QED BY <1>3, MapStutter DEF Maps, Acts, Step, Passes

\* NPP_Destroy is Close, or Release when no call needs the site any more.
LEMMA DestroyMaps ==
  ASSUME TypeOK, Safe, NEW i \in Instances, RefsOf(i)', NPP_Destroy(i)
  PROVE  Maps
<1>1. phase[i] \in {"starting", "running"} /\ phase'[i] = "gone" /\ sinkRefs'[i] = {}
  BY DEF NPP_Destroy, RefsOf, TypeOK, HostTypeOK
<1>2. window'[i] = NoWindow
  BY DEF NPP_Destroy, ReleaseWindow, TypeOK, WindowTypeOK
<1>3. Stage(i) \in {"starting", "running"}
  BY <1>1 DEF Stage
<1>4. CASE siteRefs'[i] = {}
  <2>1. Stage(i)' = "released" /\ Held(i)' = {}
    BY <1>1, <1>2, <1>4 DEF Stage, Held
  <2> QED BY <1>3, <2>1, MapRelease DEF Acts, Step
<1>5. CASE siteRefs'[i] # {}
  <2>1. Stage(i)' = "closing" /\ Held(i)' = {"site"}
    BY <1>1, <1>2, <1>5 DEF Stage, Held
  <2>2. Lifecycle!Moves(i, {"starting", "running"}, "closing", {"site"})
    BY <1>3, <2>1, MapMove DEF Acts, Step
  <2>3. Lifecycle!Close(i)
    BY <2>2 DEF Lifecycle!Close
  <2> QED BY <2>3 DEF Maps, Lifecycle!Next
<1> QED BY <1>4, <1>5

\* The return of the detach is Release, unless a binding still holds the site.
LEMMA DetachReturnMaps ==
  ASSUME TypeOK, Safe, NEW i \in Instances, RefsOf(i), RefsOf(i)', DetachReturn(i)
  PROVE  Maps
<1>1. /\ phase[i] = "gone" /\ UNCHANGED phase /\ UNCHANGED window /\ UNCHANGED sinkRefs
      /\ siteRefs'[i] \subseteq siteRefs[i]
  <2>1. phase[i] = "gone"
    BY InnermostFits DEF DetachReturn, FrameFits
  <2>2. siteRefs'[i] \subseteq siteRefs[i]
    BY DetachRefs DEF DetachReturn
  <2> QED BY <2>1, <2>2 DEF DetachReturn, winVars, sinkVars
<1>2. sinkRefs[i] = {} /\ window[i] = NoWindow
  BY <1>1 DEF RefsOf, Safe, HostInv, WindowInv
<1>3. CASE siteRefs[i] # {} /\ siteRefs'[i] = {}
  <2>1. Stage(i) = "closing" /\ Stage(i)' = "released" /\ Held(i)' = {}
    BY <1>1, <1>2, <1>3 DEF Stage, Held
  <2> QED BY <2>1, MapRelease DEF Acts, Step
<1>4. CASE siteRefs[i] = {} \/ siteRefs'[i] # {}
  <2>1. Stage(i)' = Stage(i) /\ Held(i)' = Held(i)
    BY <1>1, <1>2, <1>4 DEF Stage, Held
  <2> QED BY <2>1, MapStutter DEF Maps, Acts, Step
<1> QED BY <1>3, <1>4

LEMMA InitMaps == Init => Lifecycle!Init
BY DEF Init, WindowInit, SiteInit, SinkInit, Lifecycle!Init, Stage, Held

LEMMA NextMaps ==
  TypeOK /\ Safe /\ ReferenceInv /\ ReferenceInv' /\ [Next]_vars => [Lifecycle!Next]_Lifecycle!lifeVars
<1> SUFFICES ASSUME TypeOK, Safe, ReferenceInv, ReferenceInv', [Next]_vars PROVE Maps
  BY DEF Maps
<1>1. CASE UNCHANGED vars
  BY <1>1 DEF Maps, Lifecycle!lifeVars, vars, winVars, siteVars, sinkVars, hostVars, Stage, Held
<1>2. ASSUME NEW i \in Instances, Acts(i) PROVE Maps
  <2>1. RefsOf(i) /\ RefsOf(i)'
    BY DEF ReferenceInv, HeldInv, ClosingInv, DownloadHoldsSite, RefsOf
  <2>2. CASE NPP_New(i) \/ PumpExit(i) \/ PumpQuit(i)
    BY <2>1, <2>2, NewMaps, PumpMaps
  <2>3. CASE \E w \in Windows \cup {NoWindow} : NPP_SetWindow(i, w)
    BY <2>3, SetWindowMaps
  <2>4. CASE \/ DownloadStops(i) \/ AttachReturn(i) \/ FireEvent(i) \/ EventReturn(i) \/ Passes(i)
             \/ \E w \in Windows : AxHostWinProc(i, w)
    BY <2>1, <2>4, CallbackMaps
  <2>5. CASE NPP_Destroy(i) \/ DetachReturn(i) \/ DeleteHost(i)
    BY <2>1, <2>5, DestroyMaps, DetachReturnMaps, DeleteHostMaps
  <2> QED BY <1>2, <2>2, <2>3, <2>4, <2>5 DEF Acts, Step, Passes
<1> QED BY <1>1, <1>2, NextSteps

\* The plugin implements the life cycle a browser relies on: every step of every
\* nesting is a step of InstanceLifecycle, or none.
THEOREM Refinement == Spec => ImplementsLifecycle
<1>1. HostInv /\ Safe => Safe
  OBVIOUS
<1> QED BY InitMaps, NextMaps, Typing, Safety, References, <1>1, PTL
        DEF Spec, ImplementsLifecycle, Lifecycle!Spec
=============================================================================
