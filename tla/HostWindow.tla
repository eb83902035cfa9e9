----------------------------- MODULE HostWindow -----------------------------
(***************************************************************************)
(* The subclassing of browser windows by CAxHost (axhost.cpp).  The        *)
(* browser gives each plugin instance windows of its own; the host         *)
(* replaces a window's procedure by AxHostWinProc and stores its own       *)
(* address in the window's GWL_USERDATA.                                   *)
(***************************************************************************)
EXTENDS ControlSite

CONSTANT WindowsOf     \* the windows of each instance

ASSUME WindowsOfAssumption == WindowsOf \in [Instances -> SUBSET Windows]

VARIABLES window,      \* CAxHost::Window
          oldProc,     \* CAxHost::OldProc: none, browser or ax
          axProc,      \* the windows whose procedure is AxHostWinProc
          userData,    \* the windows whose GWL_USERDATA is the host
          abandoned    \* history: windows replaced without a NULL window first

winVars == <<window, oldProc, axProc, userData, abandoned>>

WindowTypeOK ==
  /\ window \in [Instances -> Windows \cup {NoWindow}]
  /\ oldProc \in [Instances -> {"none", "browser", "ax"}]
  /\ axProc \in [Instances -> SUBSET Windows]
  /\ userData \in [Instances -> SUBSET Windows]
  /\ abandoned \in [Instances -> SUBSET Windows]

WindowInit ==
  /\ window = [i \in Instances |-> NoWindow]
  /\ oldProc = [i \in Instances |-> "none"]
  /\ axProc = [i \in Instances |-> {}]
  /\ userData = [i \in Instances |-> {}]
  /\ abandoned = [i \in Instances |-> {}]

-----------------------------------------------------------------------------
\* The first SetWindowLong(GWL_WNDPROC) of setWindow: the window gets
\* AxHostWinProc and the procedure it had is remembered.
Subclass(i, w) ==
  /\ oldProc' = [oldProc EXCEPT ![i] = IF w \in axProc[i] THEN "ax" ELSE "browser"]
  /\ axProc' = [axProc EXCEPT ![i] = @ \cup {w}]
  /\ userData' = [userData EXCEPT ![i] = @ \cup {w}]

\* GWL_USERDATA is not cleared.
MutantUnsubclass(i) ==
  /\ axProc' = [axProc EXCEPT ![i] =
                  IF oldProc[i] = "browser" THEN @ \ {window[i]} ELSE @]
  /\ UNCHANGED <<userData, oldProc>>

\* The host lets go of its window: the remembered procedure is put back and
\* GWL_USERDATA cleared, in setWindow(NULL) and in ~CAxHost.
Unsubclass(i) ==
  /\ axProc' = [axProc EXCEPT ![i] =
                  IF oldProc[i] = "browser" THEN @ \ {window[i]} ELSE @]
  /\ userData' = [userData EXCEPT ![i] = @ \ {window[i]}]
  /\ UNCHANGED oldProc

\* A NULL window is subclassed like any other.
MutantSetWindow(i, w) ==
  IF w = window[i] THEN UNCHANGED winVars
  ELSE /\ window' = [window EXCEPT ![i] = w]
       /\ Subclass(i, w)
       /\ UNCHANGED abandoned

\* CAxHost::setWindow.  A window that is replaced by another one directly
\* keeps AxHostWinProc and its pointer to the host.
setWindow(i, w) ==
  IF w = window[i] THEN UNCHANGED winVars
  ELSE /\ window' = [window EXCEPT ![i] = w]
       /\ IF w # NoWindow THEN Subclass(i, w) ELSE Unsubclass(i)
       /\ abandoned' = [abandoned EXCEPT ![i] =
            IF w # NoWindow THEN (@ \cup ({window[i]} \ {NoWindow})) \ {w} ELSE @]

\* ~CAxHost leaves the window alone.
MutantReleaseWindow(i) ==
  /\ window' = [window EXCEPT ![i] = NoWindow]
  /\ oldProc' = [oldProc EXCEPT ![i] = "none"]
  /\ UNCHANGED <<axProc, userData, abandoned>>

\* The window part of ~CAxHost; Window and OldProc die with the host.
ReleaseWindow(i) ==
  /\ axProc' = [axProc EXCEPT ![i] = IF oldProc[i] = "browser" THEN @ \ {window[i]} ELSE @]
  /\ userData' = [userData EXCEPT ![i] = @ \ {window[i]}]
  /\ window' = [window EXCEPT ![i] = NoWindow]
  /\ oldProc' = [oldProc EXCEPT ![i] = "none"]
  /\ UNCHANGED abandoned

\* CAxHost::UpdateRect, called with the window just set: a site that never had
\* a window is attached, any other is moved to the rectangle, whatever its
\* window is.
UpdateRect(i, w) ==
  IF "host" \in siteRefs[i] /\ w # NoWindow
  THEN IF parent[i] = NoWindow THEN Attach(i, w) ELSE SetPosition(i)
  ELSE UNCHANGED <<stack, siteVars>>
=============================================================================
