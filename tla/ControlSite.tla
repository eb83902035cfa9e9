----------------------------- MODULE ControlSite ----------------------------
(***************************************************************************)
(* The lifetime of one CControlSite (common/ControlSite.cpp), the OLE site *)
(* that creates the ActiveX control, attaches it to a window and detaches  *)
(* it.  COM reference counts are kept as the set of holders; the site is   *)
(* destroyed when its last holder releases it.                             *)
(***************************************************************************)
EXTENDS PluginThread

CONSTANTS Windows,     \* the HWNDs of the browser
          NoWindow     \* a NULL HWND

ASSUME WindowAssumption == NoWindow \notin Windows

VARIABLES siteRefs,    \* who holds the site: CAxHost::Site, the bind status
                       \* callback of a download, the control's client site
          object,      \* m_spObject is set
          attached,    \* m_spIOleObject is set
          parent,      \* m_hWndParent
          binding      \* m_bBindingInProgress and m_hrBindResult

siteVars == <<siteRefs, object, attached, parent, binding>>

SiteTypeOK ==
  /\ siteRefs \in [Instances -> SUBSET {"host", "bind", "control"}]
  /\ object \in [Instances -> BOOLEAN]
  /\ attached \in [Instances -> BOOLEAN]
  /\ parent \in [Instances -> Windows \cup {NoWindow}]
  /\ binding \in [Instances -> {"none", "inProgress", "ok", "failed"}]

SiteInit ==
  /\ siteRefs = [i \in Instances |-> {}]
  /\ object = [i \in Instances |-> FALSE]
  /\ attached = [i \in Instances |-> FALSE]
  /\ parent = [i \in Instances |-> NoWindow]
  /\ binding = [i \in Instances |-> "none"]

-----------------------------------------------------------------------------
\* The bind status callback does not count as a reference.
MutantStartBinding(i) ==
  /\ siteRefs' = [siteRefs EXCEPT ![i] = {"host"}]
  /\ binding' = [binding EXCEPT ![i] = "inProgress"]
  /\ Push(Call("Create", i))
  /\ UNCHANGED <<object, attached, parent>>

\* Create returns MK_S_ASYNCHRONOUS inside and spins: the bind status
\* callback is a counted reference to the site itself.
StartBinding(i) ==
  /\ siteRefs' = [siteRefs EXCEPT ![i] = {"host", "bind"}]
  /\ binding' = [binding EXCEPT ![i] = "inProgress"]
  /\ Push(Call("Create", i))
  /\ UNCHANGED <<object, attached, parent>>

\* The end of the download is not recorded.
MutantOnStopBinding(i) ==
  /\ binding[i] = "inProgress"
  /\ UNCHANGED <<stack, siteVars>>

\* The moniker reports the end of the download through the registered bind
\* status callback.
OnStopBinding(i) ==
  /\ binding[i] = "inProgress"
  /\ \E result \in {"ok", "failed"} :
       binding' = [binding EXCEPT ![i] = result]
  /\ UNCHANGED <<stack, siteRefs, object, attached, parent>>

\* The loop is left and the bind status callback revoked; nothing reads the
\* binding variables any more.
EndBinding(i) ==
  /\ siteRefs' = [siteRefs EXCEPT ![i] = @ \ {"bind"}]
  /\ binding' = [binding EXCEPT ![i] = "none"]
  /\ Pop

\* Attach records its window first.  It then fails without a control or with
\* one that is no OLE object; otherwise the control gets the site before or
\* after its in-place activation, which only a visible control has.
Attach(i, w) ==
  /\ parent' = [parent EXCEPT ![i] = w]
  /\ \/ UNCHANGED <<attached, siteRefs, stack>>
     \/ /\ object[i]
        /\ attached' = [attached EXCEPT ![i] = TRUE]
        /\ \/ /\ siteRefs' \in {siteRefs, [siteRefs EXCEPT ![i] = @ \cup {"control"}]}
              /\ Push(Call("Activate", i))
           \/ /\ siteRefs' = [siteRefs EXCEPT ![i] = @ \cup {"control"}]
              /\ UNCHANGED stack
  /\ UNCHANGED <<object, binding>>

\* The rest of Attach, after DoVerb: the late SetClientSite.
SetClientSite(i) ==
  /\ siteRefs' = [siteRefs EXCEPT ![i] = @ \cup {"control"}]
  /\ UNCHANGED <<object, attached, parent, binding>>

\* An attached control is told its new rectangle, and may take its time.
SetPosition(i) ==
  /\ \/ UNCHANGED stack
     \/ attached[i] /\ Push(Call("Move", i))
  /\ UNCHANGED siteVars

\* Detach forgets the SetClientSite(NULL).
MutantDetachAndRelease(i) ==
  /\ siteRefs' = [siteRefs EXCEPT ![i] = @ \ {"host"}]
  /\ object' = [object EXCEPT ![i] = FALSE]
  /\ attached' = [attached EXCEPT ![i] = FALSE]
  /\ parent' = [parent EXCEPT ![i] = NoWindow]
  /\ UNCHANGED binding

\* Detach followed by CAxHost's Site->Release(); nothing reads m_hWndParent
\* any more.
DetachAndRelease(i) ==
  /\ siteRefs' = [siteRefs EXCEPT ![i] = @ \ {"control", "host"}]
  /\ object' = [object EXCEPT ![i] = FALSE]
  /\ attached' = [attached EXCEPT ![i] = FALSE]
  /\ parent' = [parent EXCEPT ![i] = NoWindow]
  /\ UNCHANGED binding
=============================================================================
