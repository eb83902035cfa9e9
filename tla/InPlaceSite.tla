---------------------------- MODULE InPlaceSite ----------------------------
(***************************************************************************)
(* CControlSite as the in-place site of one control                        *)
(* (common/ControlSite.cpp): the flags of its activation, the position it  *)
(* shares with the control, the window messages it passes on, and the one  *)
(* buffer it lends for drawing, with the GDI objects behind it.  The names *)
(* of its definitions are none of SiteCreate's: ControlSiteProofs has the  *)
(* theorems about both.                                                    *)
(***************************************************************************)
EXTENDS FiniteSets

CONSTANTS Handles,       \* handles of GDI objects
          Null,          \* no handle
          Stock,         \* the bitmap of a fresh memory context
          Rects,         \* positions and areas
          SupportWindowless  \* m_bSupportWindowlessActivation

ASSUME SiteAssumption ==
  /\ IsFiniteSet(Handles)
  /\ Null \notin Handles /\ Stock \notin Handles /\ Null # Stock
  /\ SupportWindowless \in BOOLEAN

VARIABLES phase,         \* the life of the site as seen by the control
          control,       \* the control: "idle", or active "windowed" or "windowless"
          ui,            \* the control is active with its user interface
          controlRect,   \* the position the control was told last
          refused,       \* history: the last activation was refused
          m_bInPlaceActive, m_bUIActive, m_bWindowless, m_rcObjectPos,
          routed,        \* where the last message went
          m_hDCBuffer, m_hBMBuffer, m_hBMBufferOld, m_hRgnBuffer,
          m_rcBuffer, m_dwBufferFlags,
          gdi,           \* what each handle stands for
          selected,      \* the bitmap in each context
          asked,         \* history: the area of the last buffer lent
          shown          \* history: where the last off-screen buffer was shown

controlVars == <<control, ui, controlRect, refused>>
flagVars == <<m_bInPlaceActive, m_bUIActive, m_bWindowless>>
bufferVars == <<m_hDCBuffer, m_hBMBuffer, m_hBMBufferOld, m_hRgnBuffer, m_rcBuffer,
                m_dwBufferFlags, gdi, selected, asked, shown>>
inPlaceVars == <<phase, controlVars, flagVars, m_rcObjectPos, routed, bufferVars>>

Of(kinds) == {h \in Handles : gdi[h] \in kinds}
Free == Of({"free"})

\* Every handle the site holds stands for an object of its kind.
InPlaceTypeOK ==
  /\ phase \in {"created", "attached", "deactivating", "closing", "detached"}
  /\ control \in {"idle", "windowed", "windowless"}
  /\ ui \in BOOLEAN
  /\ refused \in BOOLEAN
  /\ m_bInPlaceActive \in BOOLEAN
  /\ m_bUIActive \in BOOLEAN
  /\ m_bWindowless \in BOOLEAN
  /\ {controlRect, m_rcObjectPos, m_rcBuffer, asked, shown} \subseteq Rects \cup {Null}
  /\ routed \in {"nowhere", "window", "windowless"}
  /\ gdi \in [Handles -> {"free", "memory", "window", "bitmap", "region"}]
  /\ selected \in [Handles -> Handles \cup {Stock, Null}]
  /\ m_dwBufferFlags \in [offscreen : BOOLEAN, nodraw : BOOLEAN]
  /\ m_hDCBuffer \in Of({IF m_dwBufferFlags.offscreen THEN "memory" ELSE "window"}) \cup {Null}
  /\ m_hBMBuffer \in Of({"bitmap"}) \cup {Null}
  /\ m_hBMBufferOld \in {Stock, Null}
  /\ m_hRgnBuffer \in Of({"region"}) \cup {Null}

InPlaceInit ==
  /\ phase = "created"
  /\ control = "idle" /\ controlRect = Null
  /\ ui = FALSE /\ refused = FALSE
  /\ m_bInPlaceActive = FALSE /\ m_bUIActive = FALSE /\ m_bWindowless = FALSE
  /\ m_rcObjectPos = Null
  /\ routed = "nowhere"
  /\ m_hDCBuffer = Null /\ m_hBMBuffer = Null /\ m_hBMBufferOld = Null /\ m_hRgnBuffer = Null
  /\ m_rcBuffer = Null
  /\ m_dwBufferFlags = [offscreen |-> FALSE, nodraw |-> FALSE]
  /\ gdi = [h \in Handles |-> "free"]
  /\ selected = [h \in Handles |-> Null]
  /\ asked = Null /\ shown = Null

\* The control can call the site.
HasSite == phase \in {"attached", "deactivating", "closing"}

\* The site holds m_spIOleInPlaceObject.
HasInPlaceObject == phase \in {"attached", "deactivating"}

\* IOleInPlaceObject::GetWindow succeeds while the control has a window.
HasWindow == control = "windowed"

-----------------------------------------------------------------------------
\* Attach stores the position and finds the interfaces of the control.
Attach(rc) ==
  /\ phase = "created"
  /\ phase' = "attached"
  /\ m_rcObjectPos' = rc
  /\ UNCHANGED <<controlVars, flagVars, routed, bufferVars>>

\* What the control knows after SetObjectRects, called if it has a window.
Told(rc) == IF HasInPlaceObject /\ HasWindow THEN rc ELSE controlRect

\* SetPosition.  A control without a window is told when it activates.
SetPosition(rc) ==
  /\ HasSite
  /\ m_rcObjectPos' = rc
  /\ controlRect' = Told(rc)
  /\ UNCHANGED <<phase, control, ui, refused, flagVars, routed, bufferVars>>

\* OnPosRectChange: the position the control asks for is not taken, it gets its
\* own back.
OnPosRectChange ==
  /\ HasSite
  /\ SetPosition(m_rcObjectPos)

\* GetWindowContext, asked by a control that activates.
GetWindowContext == controlRect' = m_rcObjectPos

\* OnInPlaceActivate: always with a window.
OnInPlaceActivate ==
  /\ phase = "attached"
  /\ control = "idle"
  /\ m_bInPlaceActive' = TRUE
  /\ control' = "windowed"
  /\ refused' = FALSE
  /\ GetWindowContext
  /\ UNCHANGED <<phase, ui, m_bUIActive, m_bWindowless, m_rcObjectPos, routed, bufferVars>>

Refuses(windowless) == windowless /\ ~SupportWindowless

\* OnInPlaceActivateEx.  The flag is set before a windowless activation is
\* refused, and m_bWindowless is never taken back.
OnInPlaceActivateEx(windowless) ==
  /\ phase = "attached"
  /\ control = "idle"
  /\ m_bInPlaceActive' = TRUE
  /\ refused' = Refuses(windowless)
  /\ IF refused'
       THEN UNCHANGED <<m_bWindowless, control, controlRect>>
       ELSE /\ m_bWindowless' = (m_bWindowless \/ windowless)
            /\ control' = IF windowless THEN "windowless" ELSE "windowed"
            /\ GetWindowContext
  /\ UNCHANGED <<phase, ui, m_bUIActive, m_rcObjectPos, routed, bufferVars>>

OnUIActivate ==
  /\ phase = "attached"
  /\ control # "idle" /\ ~ui
  /\ ui' = TRUE
  /\ m_bUIActive' = TRUE
  /\ UNCHANGED <<phase, control, controlRect, refused, m_bInPlaceActive, m_bWindowless,
                 m_rcObjectPos, routed, bufferVars>>

OnUIDeactivate ==
  /\ HasSite
  /\ ui
  /\ ui' = FALSE
  /\ m_bUIActive' = FALSE
  /\ UNCHANGED <<phase, control, controlRect, refused, m_bInPlaceActive, m_bWindowless,
                 m_rcObjectPos, routed, bufferVars>>

\* The flag of a deactivated control stays.
MutantOnInPlaceDeactivate ==
  /\ HasSite
  /\ control # "idle" /\ ~ui
  /\ control' = "idle"
  /\ UNCHANGED <<phase, ui, controlRect, refused, flagVars, m_rcObjectPos, routed, bufferVars>>

\* OnInPlaceDeactivate and OnInPlaceDeactivateEx.
OnInPlaceDeactivate ==
  /\ HasSite
  /\ control # "idle" /\ ~ui
  /\ control' = "idle"
  /\ m_bInPlaceActive' = FALSE
  /\ UNCHANGED <<phase, ui, controlRect, refused, m_bUIActive, m_bWindowless,
                 m_rcObjectPos, routed, bufferVars>>

-----------------------------------------------------------------------------
\* OnDefWindowMessage, from the window procedure of the host.  The interface of a
\* windowless control goes first when the site is detached.
OnDefWindowMessage ==
  /\ routed' = IF m_bWindowless /\ phase = "attached"
                 THEN "windowless"
               ELSE IF HasInPlaceObject /\ HasWindow
                 THEN "window"
               ELSE "nowhere"
  /\ UNCHANGED <<phase, controlVars, flagVars, m_rcObjectPos, bufferVars>>

-----------------------------------------------------------------------------
\* GetDC for an off-screen buffer: a memory context and a bitmap in it.
GetOffscreen ==
  \E dc \in Free \cup {Null} :
    /\ m_hDCBuffer' = dc
    /\ UNCHANGED m_hRgnBuffer
    /\ IF dc = Null
         THEN m_hBMBuffer' = Null /\ UNCHANGED <<m_hBMBufferOld, gdi, selected>>
         ELSE \E bm \in (Free \ {dc}) \cup {Null} :
                /\ m_hBMBuffer' = bm
                /\ m_hBMBufferOld' = IF bm = Null THEN Null ELSE Stock
                /\ selected' = [selected EXCEPT ![dc] = IF bm = Null THEN Stock ELSE bm]
                /\ gdi' = [h \in Handles |-> CASE h = dc -> "memory"
                                               [] h = bm -> "bitmap"
                                               [] OTHER -> gdi[h]]

\* GetDC for the window's own context, clipped if it will be drawn to.
GetOnscreen(nodraw) ==
  \E dc \in Free \cup {Null} :
    /\ m_hDCBuffer' = dc
    /\ m_hBMBuffer' = Null
    /\ UNCHANGED m_hBMBufferOld
    /\ IF dc = Null
         THEN UNCHANGED <<m_hRgnBuffer, gdi, selected>>
         ELSE \E rgn \in IF nodraw THEN {m_hRgnBuffer} ELSE (Free \ {dc}) \cup {Null} :
                /\ m_hRgnBuffer' = rgn
                /\ selected' = [selected EXCEPT ![dc] = Stock]
                /\ gdi' = [h \in Handles |-> CASE h = dc -> "window"
                                               [] h = rgn -> "region"
                                               [] OTHER -> gdi[h]]

\* A nested call changes the area before it is refused.
MutantGetDC(rc, offscreen, nodraw) ==
  /\ HasSite
  /\ m_rcBuffer' = rc
  /\ IF m_hDCBuffer # Null
       THEN UNCHANGED <<m_hDCBuffer, m_hBMBuffer, m_hBMBufferOld, m_hRgnBuffer,
                        m_dwBufferFlags, gdi, selected, asked>>
       ELSE /\ m_dwBufferFlags' = [offscreen |-> offscreen, nodraw |-> nodraw]
            /\ IF offscreen THEN GetOffscreen ELSE GetOnscreen(nodraw)
            /\ asked' = IF m_hDCBuffer' = Null THEN asked ELSE rc
  /\ UNCHANGED <<phase, controlVars, flagVars, m_rcObjectPos, routed, shown>>

\* GetDC: one buffer at a time.
GetDC(rc, offscreen, nodraw) ==
  /\ HasSite
  /\ m_hDCBuffer = Null
  /\ m_rcBuffer' = rc
  /\ m_dwBufferFlags' = [offscreen |-> offscreen, nodraw |-> nodraw]
  /\ IF offscreen THEN GetOffscreen ELSE GetOnscreen(nodraw)
  /\ asked' = IF m_hDCBuffer' = Null THEN asked ELSE rc
  /\ UNCHANGED <<phase, controlVars, flagVars, m_rcObjectPos, routed, shown>>

Shows == m_dwBufferFlags.offscreen /\ ~m_dwBufferFlags.nodraw

\* What is freed if the bitmap is deleted first: one in a context cannot be.
MutantReleased ==
  {m_hDCBuffer, m_hRgnBuffer} \cup ({m_hBMBuffer} \ {selected[m_hDCBuffer]})

\* What ReleaseDC frees.  The old bitmap goes back into a memory context first, so
\* that the buffer's can be deleted.
Released ==
  LET restored == IF m_dwBufferFlags.offscreen /\ m_hBMBufferOld # Null
                    THEN m_hBMBufferOld ELSE selected[m_hDCBuffer]
  IN  {m_hDCBuffer, m_hRgnBuffer} \cup ({m_hBMBuffer} \ {restored})

\* ReleaseDC of the context that was lent; any other is refused.
ReleaseDC ==
  /\ HasSite
  /\ m_hDCBuffer # Null
  /\ shown' = IF Shows THEN m_rcBuffer ELSE shown
  /\ gdi' = [h \in Handles |-> IF h \in Released THEN "free" ELSE gdi[h]]
  /\ selected' = [selected EXCEPT ![m_hDCBuffer] = Null]
  /\ m_hDCBuffer' = Null /\ m_hBMBuffer' = Null /\ m_hRgnBuffer' = Null
  /\ UNCHANGED <<phase, controlVars, flagVars, m_rcObjectPos, routed, m_hBMBufferOld,
                 m_rcBuffer, m_dwBufferFlags, asked>>

-----------------------------------------------------------------------------
\* Detach: the windowless interface is dropped, the control is deactivated, closed
\* and loses its site; a control may leave out its part in either.
Detach ==
  /\ \/ phase = "attached" /\ phase' = "deactivating"
     \/ phase = "deactivating" /\ phase' = "closing"
     \/ phase = "closing" /\ phase' = "detached"
  /\ UNCHANGED <<controlVars, flagVars, m_rcObjectPos, routed, bufferVars>>

InPlaceNext ==
  \/ \E rc \in Rects : Attach(rc) \/ SetPosition(rc)
  \/ OnPosRectChange
  \/ OnInPlaceActivate
  \/ \E windowless \in BOOLEAN : OnInPlaceActivateEx(windowless)
  \/ OnUIActivate \/ OnUIDeactivate \/ OnInPlaceDeactivate
  \/ OnDefWindowMessage
  \/ \E rc \in Rects, offscreen, nodraw \in BOOLEAN : GetDC(rc, offscreen, nodraw)
  \/ ReleaseDC
  \/ Detach

InPlaceSpec == InPlaceInit /\ [][InPlaceNext]_inPlaceVars

-----------------------------------------------------------------------------
\* Every GDI object the site made is one that ReleaseDC will free: none is lost through a
\* failed allocation, a change of kind between two buffers, or a bitmap that is
\* still selected when it is deleted (ControlSite.cpp:1139-1279).
OnlyBufferIsHeld ==
  Handles \ Free = {m_hDCBuffer, m_hBMBuffer, m_hRgnBuffer} \ {Null}

\* An off-screen buffer is shown in the area it was lent for, wherever the control
\* was moved, or asked for another, in between (ControlSite.cpp:1145-1157, 1234-1243).
ShownWhereAsked == [][shown' # shown => shown' = asked]_inPlaceVars

\* The site's flags say what the control is doing, but for the windowless
\* activation it refused: it then takes an idle control for an active one
\* (ControlSite.cpp:984-1036, 1066-1090).
FlagsFollowControl ==
  /\ control # "idle" => m_bInPlaceActive
  /\ m_bInPlaceActive => control # "idle" \/ refused
  /\ m_bUIActive <=> ui

\* A control with a window stands where the site says it does, whether the site
\* was moved before, during or after its activation (ControlSite.cpp:708-718,
\* 998-1001, 1051-1058).
PositionIsShared == HasWindow /\ HasInPlaceObject => controlRect = m_rcObjectPos

\* The host never treats a control as windowless that it did not allow to be
\* (axhost.cpp:387, ControlSite.cpp:1074-1081, 1328).
WindowlessOnlyIfAllowed ==
  m_bWindowless \/ control = "windowless" \/ routed = "windowless" => SupportWindowless

\* The site follows the control: its flags, its position and how it is treated.
ControlFollowed == FlagsFollowControl /\ PositionIsShared /\ WindowlessOnlyIfAllowed
=============================================================================
