---------------------------- MODULE PluginThread ----------------------------
(***************************************************************************)
(* The browser's plugin thread.  NP_Initialize enters a single-threaded    *)
(* COM apartment and every class of the plugin is CComSingleThreadModel,   *)
(* so browser entry points, window messages, COM callbacks and page        *)
(* scripts all run on one thread and interleave only by re-entrancy: a     *)
(* call of the plugin suspends inside foreign code, which may dispatch     *)
(* messages, run a script, or call any entry point of the plugin again.    *)
(* The suspended calls form a stack, and only the innermost can resume.    *)
(***************************************************************************)
EXTENDS Naturals, Sequences

CONSTANTS Instances,   \* the NPP plugin instances of the pages
          MaxDepth     \* bound: how many calls can be suspended at once

ASSUME DepthAssumption == MaxDepth \in Nat \ {0}

VARIABLE stack         \* the suspended plugin calls, innermost last

-----------------------------------------------------------------------------
(***************************************************************************)
(* Create   CControlSite::Create spins its message loop during a download  *)
(* Activate CControlSite::Attach is inside the control's DoVerb            *)
(* Move     CControlSite::SetPosition is inside its SetObjectRects         *)
(* Detach   CControlSite::Detach is inside the control's deactivation      *)
(* Event    CControlEventSink::InternalInvoke is inside the page's handler *)
(* wants: the control passed a pVarResult and keeps no reference of its    *)
(*        own on the sink while it makes the call                          *)
(***************************************************************************)
Frame == [kind : {"Create", "Activate", "Move", "Detach", "Event"},
          inst : Instances, wants : BOOLEAN]

Call(k, i) == [kind |-> k, inst |-> i, wants |-> FALSE]
EventCall(i, wants) == [kind |-> "Event", inst |-> i, wants |-> wants]

StackTypeOK == stack \in Seq(Frame)

Top == stack[Len(stack)]
Innermost(k, i) == stack # <<>> /\ Top.kind = k /\ Top.inst = i

\* Instance i has a suspended call somewhere on the thread.
OnStack(i) == \E n \in DOMAIN stack : stack[n].inst = i
Suspended(k, i) == \E n \in DOMAIN stack : stack[n].kind = k /\ stack[n].inst = i

\* A call suspends, unless the bound on nesting is reached.
Push(f) == Len(stack) < MaxDepth /\ stack' = Append(stack, f)
Pop == stack' = SubSeq(stack, 1, Len(stack) - 1)
=============================================================================
