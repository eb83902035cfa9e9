-------------------------- MODULE ControlSiteProofs --------------------------
(***************************************************************************)
(* Proofs about CControlSite: SiteCreate, for any versions and objects,    *)
(* and InPlaceSite, for any handles and positions.                         *)
(***************************************************************************)
EXTENDS SiteCreate, InPlaceSite, TLAPS

-----------------------------------------------------------------------------
(***************************************************************************)
(* SiteCreate.                                                             *)
(***************************************************************************)

\* What the policy decided stays what it decided.
Decision ==
  /\ pc = "safety" => world = first
  /\ pc # "safety" => checkForObjectSafety =
       (policy /\ (first.registered \/ codebase = NoCodebase) /\ ~first.marked)

\* Until an object is created there is none, and a good result has a safe object.
Result ==
  /\ pc \in {"safety", "version", "create", "bind", "wait", "revoke", "recreate"} =>
       spObject = NoObject
  /\ pc # "returned" => m_spObject = NoObject
  /\ pc \in {"safety", "version", "create", "bind"} => hr # "ok"
  /\ pc \in {"revoke", "return", "returned"} => hr \in {"ok", "failed"}
  /\ pc = "recreate" => hr = "ok"
  /\ pc = "return" /\ hr = "ok" => spObject # NoObject /\ ~Unsafe(spObject)
  /\ pc = "return" /\ hr = "failed" /\ spObject # NoObject =>
       moniker = "stopped" /\ Unsafe(spObject)
  /\ pc = "returned" /\ hr = "ok" => m_spObject # NoObject /\ ~Unsafe(m_spObject)
  /\ pc = "returned" /\ hr = "failed" /\ m_spObject # NoObject =>
       moniker = "stopped" /\ Unsafe(m_spObject)

\* The callback is registered while the download is waited for, and a download
\* that succeeded has stopped.
Binding ==
  /\ registeredBSC => pc \in {"wait", "revoke"}
  /\ m_hrBindResult = "ok" => moniker = "stopped"
  /\ pc \in {"revoke", "recreate"} /\ hr = "ok" => moniker = "stopped"
  /\ pc \in {"safety", "version", "create", "bind"} => moniker = "none"

CreateInv == TypeOK /\ Decision /\ Result /\ Binding

-----------------------------------------------------------------------------
LEMMA CreateInit == Init => CreateInv
BY CreateAssumption DEF Init, CreateInv, TypeOK, Decision, Result, Binding, PossibleWorlds

LEMMA CreateStep == CreateInv /\ [Next]_vars => CreateInv'
<1> SUFFICES ASSUME CreateInv, [Next]_vars PROVE CreateInv' OBVIOUS
<1> USE DEF CreateInv, siteVars, bindVars, inputVars, localVars
<1>1. CASE DecideSafety
  BY <1>1 DEF DecideSafety, TypeOK, Decision, Result, Binding, Unsafe
<1>2. CASE CompareVersion
  BY <1>2 DEF CompareVersion, TypeOK, Decision, Result, Binding, Unsafe
<1>3. CASE FirstCreate
  BY <1>3 DEF FirstCreate, TypeOK, Decision, Result, Binding, Unsafe, CoCreateInstance, Worlds
<1>4. CASE BindFails
  BY <1>4 DEF BindFails, TypeOK, Decision, Result, Binding, Unsafe
<1>5. CASE BindAtOnce
  BY <1>5 DEF BindAtOnce, TypeOK, Decision, Result, Binding, Unsafe, Install, PossibleWorlds
<1>6. CASE StartWaiting
  BY <1>6 DEF StartWaiting, TypeOK, Decision, Result, Binding, Unsafe, Install, PossibleWorlds
<1>7. CASE OnStopBinding
  BY <1>7 DEF OnStopBinding, TypeOK, Decision, Result, Binding, Unsafe, Install, PossibleWorlds
<1>8. CASE Quit
  BY <1>8 DEF Quit, TypeOK, Decision, Result, Binding, Unsafe
<1>9. CASE EndWaiting
  BY <1>9 DEF EndWaiting, TypeOK, Decision, Result, Binding, Unsafe
<1>10. CASE Revoke
  BY <1>10 DEF Revoke, TypeOK, Decision, Result, Binding, Unsafe
<1>11. CASE SecondCreate
  BY <1>11 DEF SecondCreate, TypeOK, Decision, Result, Binding, Unsafe, CoCreateInstance, Worlds
<1>12. CASE Return
  BY <1>12 DEF Return, TypeOK, Decision, Result, Binding, Unsafe
<1>13. CASE UNCHANGED vars
  BY <1>13 DEF vars, TypeOK, Decision, Result, Binding, Unsafe
<1>14. QED
  BY <1>1, <1>2, <1>3, <1>4, <1>5, <1>6, <1>7, <1>8, <1>9, <1>10, <1>11, <1>12, <1>13
  DEF Next, Step

-----------------------------------------------------------------------------
\* What Create decided, made and waits for belongs together at each of its steps.
THEOREM Creating == Spec => []CreateInv
BY CreateInit, CreateStep, PTL DEF Spec

\* The states of Create and of the download stay within the program's.
THEOREM CreateTyping == Spec => []TypeOK
<1>1. CreateInv => TypeOK BY DEF CreateInv
<1> QED BY <1>1, Creating, PTL

\* A class that was installed and not marked safe is hosted under the policy only
\* when its object says it is safe for scripting, downloaded or not, or is one of
\* those that the mask at ControlSite.cpp:161 lets pass.
THEOREM PolicyHolds == Spec => []UnmarkedIsAsked
<1>1. Spec => []CreateInv BY Creating
<1>2. CreateInv => UnmarkedIsAsked
  <2> SUFFICES ASSUME CreateInv, pc = "returned", hr = "ok", Asked
               PROVE  ScriptSafe(m_spObject) \/ OnlyDataSafe(m_spObject)
    BY DEF UnmarkedIsAsked
  <2>1. m_spObject \in Objects /\ IsObjectSafeForScripting(m_spObject)
    BY DEF CreateInv, TypeOK, Decision, Result, Unsafe, Asked
  <2>2. m_spObject.enabled \cap m_spObject.supported \subseteq {"caller", "data"}
    BY <2>1, CreateAssumption
  <2>3. QED
    BY <2>1, <2>2 DEF IsObjectSafeForScripting, ScriptSafe, OnlyDataSafe
<1>3. QED BY <1>1, <1>2, PTL

\* The result of Create says whether the site has a usable object, and nothing
\* can call back into the site afterwards.
THEOREM CreateContract == Spec => []ResultMatchesObject
<1>1. Spec => []CreateInv BY Creating
<1>2. CreateInv => ResultMatchesObject
  BY DEF CreateInv, Result, Binding, ResultMatchesObject
<1>3. QED BY <1>1, <1>2, PTL

-----------------------------------------------------------------------------
(***************************************************************************)
(* Versions: two DWORDs compare as the four numbers do.                    *)
(***************************************************************************)

LEMMA InWord ==
  ASSUME NEW n \in Nat, n < Word
  PROVE  n % Word = n
BY CreateAssumption

\* Two DWORDs compare as their halves do, the high one first.
LEMMA HalvesCompare ==
  ASSUME NEW a \in Nat, NEW b \in Nat, NEW c \in Nat, NEW d \in Nat, NEW W \in Nat, a < W, c < W
  PROVE  /\ a + (b * W) > c + (d * W) <=> b > d \/ (b = d /\ a > c)
         /\ a + (b * W) = c + (d * W) <=> b = d /\ a = c
<1>1. b * W \in Nat /\ d * W \in Nat
  OBVIOUS
<1>2. ASSUME NEW x \in Nat, NEW y \in Nat, x > y
      PROVE  x * W >= y * W + W
  <2>1. PICK e \in Nat : x = y + 1 + e
    <3>1. x - y - 1 \in Nat /\ x = y + 1 + (x - y - 1)
      BY <1>2
    <3> QED BY <3>1
  <2>2. x * W = y * W + W + e * W
    BY <2>1
  <2>3. e * W \in Nat /\ y * W \in Nat
    OBVIOUS
  <2> QED BY <2>2, <2>3
<1>3. CASE b = d
  BY <1>1, <1>3
<1>4. CASE b > d
  BY <1>1, <1>2, <1>4
<1>5. CASE d > b
  BY <1>1, <1>2, <1>5
<1> QED BY <1>3, <1>4, <1>5

\* The comparison of two packed words is the order of the four numbers of a
\* version, if they fit into their words (ControlSite.cpp, Create).
THEOREM NewerIsHigher ==
  ASSUME NEW v \in Versions, NEW w \in Versions, \A k \in 1 .. 4 : v[k] < Word /\ w[k] < Word
  PROVE  Newer(v, w) <=> \E k \in 1 .. 4 : v[k] > w[k] /\ \A l \in 1 .. k - 1 : v[l] = w[l]
<1>1. \A k \in {1, 2, 3, 4} : v[k] \in Nat /\ w[k] \in Nat /\ v[k] < Word /\ w[k] < Word
  BY CreateAssumption
<1>2. /\ MakeLong(v[2], v[1]) = v[2] + (v[1] * Word)
      /\ MakeLong(v[4], v[3]) = v[4] + (v[3] * Word)
      /\ MakeLong(w[2], w[1]) = w[2] + (w[1] * Word)
      /\ MakeLong(w[4], w[3]) = w[4] + (w[3] * Word)
  BY <1>1, InWord DEF MakeLong
<1>3. /\ MakeLong(v[2], v[1]) > MakeLong(w[2], w[1]) <=> v[1] > w[1] \/ (v[1] = w[1] /\ v[2] > w[2])
      /\ MakeLong(v[2], v[1]) = MakeLong(w[2], w[1]) <=> v[1] = w[1] /\ v[2] = w[2]
      /\ MakeLong(v[4], v[3]) > MakeLong(w[4], w[3]) <=> v[3] > w[3] \/ (v[3] = w[3] /\ v[4] > w[4])
  BY <1>1, <1>2, HalvesCompare, CreateAssumption
<1>4. Newer(v, w) <=> \/ v[1] > w[1]
                      \/ v[1] = w[1] /\ v[2] > w[2]
                      \/ v[1] = w[1] /\ v[2] = w[2] /\ v[3] > w[3]
                      \/ v[1] = w[1] /\ v[2] = w[2] /\ v[3] = w[3] /\ v[4] > w[4]
  BY <1>3 DEF Newer
<1>5. /\ 1 .. 4 = {1, 2, 3, 4} /\ 1 .. 1 - 1 = {} /\ 1 .. 2 - 1 = {1}
      /\ 1 .. 3 - 1 = {1, 2} /\ 1 .. 4 - 1 = {1, 2, 3}
  OBVIOUS
<1> QED BY <1>4, <1>5

\* The registry that was asked is the one of the class hosted, and the update was
\* decided with what it said.
UpdateInv ==
  /\ first \in PossibleWorlds
  /\ pc \in {"safety", "version"} => world = first
  /\ pc \notin {"safety", "version"} =>
       /\ bUpdateControlVersion => codebase \in Versions
       /\ ~Unread(first) => (bUpdateControlVersion <=>
            codebase \in Versions /\ first.version # NoVersion /\ Newer(codebase, first.version))

LEMMA UpdateStep == CreateInv /\ UpdateInv /\ [Next]_vars => UpdateInv'
<1> SUFFICES ASSUME CreateInv, UpdateInv, [Next]_vars PROVE UpdateInv' OBVIOUS
<1>1. CASE CompareVersion
  <2>1. /\ UNCHANGED <<world, first, codebase>> /\ pc' = "create" /\ world = first
        /\ first \in PossibleWorlds
    BY <1>1 DEF CompareVersion, UpdateInv, inputVars
  <2>2. bUpdateControlVersion' => codebase \in Versions
    BY <1>1 DEF CompareVersion
  <2>3. ASSUME ~Unread(first)
        PROVE  bUpdateControlVersion' <=>
                 codebase \in Versions /\ first.version # NoVersion /\ Newer(codebase, first.version)
    BY <1>1, <2>1, <2>3 DEF CompareVersion
  <2> QED BY <2>1, <2>2, <2>3 DEF UpdateInv, PossibleWorlds, Worlds, Newer, MakeLong, Unread
<1>2. CASE DecideSafety
  BY <1>2 DEF UpdateInv, DecideSafety, inputVars, PossibleWorlds, Worlds, Newer, MakeLong, Unread
<1>3. CASE UNCHANGED <<first, codebase, bUpdateControlVersion>>
           /\ pc \notin {"safety", "version"} /\ pc' \notin {"safety", "version"}
  BY <1>3 DEF UpdateInv, PossibleWorlds, Worlds, Newer, MakeLong, Unread
<1>4. CASE UNCHANGED vars
  BY <1>4 DEF UpdateInv, vars, inputVars, localVars, PossibleWorlds, Worlds, Newer, MakeLong, Unread
<1>5. ASSUME FirstCreate \/ BindFails \/ BindAtOnce \/ StartWaiting \/ OnStopBinding \/ Quit
             \/ EndWaiting \/ Revoke \/ SecondCreate \/ Return
      PROVE  /\ UNCHANGED <<first, codebase, bUpdateControlVersion>>
             /\ pc \notin {"safety", "version"} /\ pc' \notin {"safety", "version"}
  BY <1>5 DEF CreateInv, TypeOK, Binding, FirstCreate, BindFails, BindAtOnce, StartWaiting,
     OnStopBinding, Quit, EndWaiting, Revoke, SecondCreate, Return, siteVars, bindVars, inputVars, localVars
<1> QED BY <1>1, <1>2, <1>3, <1>4, <1>5 DEF Next, Step

\* The update is decided as the four numbers of the versions compare, where the
\* code does not read what nobody wrote; it needs a version in the code base
\* everywhere, and there is no object while it is fetched.
THEOREM UpdateDecided == Spec => []UpdateIffNewer
<1>1. Init => UpdateInv
  BY DEF Init, UpdateInv
<1>2. Spec => []CreateInv BY Creating
<1>3. Spec => []UpdateInv BY <1>1, <1>2, UpdateStep, PTL DEF Spec
<1>4. CreateInv /\ UpdateInv => UpdateIffNewer
  <2> DEFINE fits(v) == v \in Versions => \A k \in 1 .. 4 : v[k] < Word
             higher == \E k \in 1 .. 4 : /\ codebase[k] > first.version[k]
                                         /\ \A l \in 1 .. k - 1 : codebase[l] = first.version[l]
  <2> SUFFICES ASSUME CreateInv, UpdateInv, pc \notin {"safety", "version"}
               PROVE  /\ bUpdateControlVersion => codebase \in Versions
                      /\ (~Unread(first) /\ fits(codebase) /\ fits(first.version)) =>
                           (bUpdateControlVersion <=>
                              codebase \in Versions /\ first.version \in Versions /\ higher)
                      /\ bUpdateControlVersion /\ pc \in {"bind", "wait", "revoke"} => spObject = NoObject
    BY DEF UpdateIffNewer
  <2>1. first.version \in Versions \cup {NoVersion} /\ NoVersion \notin Versions
    BY CreateAssumption DEF UpdateInv, PossibleWorlds, Worlds
  <2>2. ASSUME ~Unread(first), fits(codebase), fits(first.version)
        PROVE  bUpdateControlVersion <=> codebase \in Versions /\ first.version \in Versions /\ higher
    <3>1. bUpdateControlVersion <=>
            codebase \in Versions /\ first.version # NoVersion /\ Newer(codebase, first.version)
      BY <2>2 DEF UpdateInv
    <3>2. ASSUME codebase \in Versions, first.version \in Versions
          PROVE  Newer(codebase, first.version) <=> higher
      <4>1. \A k \in 1 .. 4 : codebase[k] < Word /\ first.version[k] < Word
        BY <2>2, <3>2
      <4> QED BY <3>2, <4>1, NewerIsHigher
    <3> HIDE DEF higher
    <3> QED BY <2>1, <3>1, <3>2
  <2> QED BY <2>2 DEF UpdateInv, CreateInv, Result
<1> QED BY <1>2, <1>3, <1>4, PTL

-----------------------------------------------------------------------------
(***************************************************************************)
(* InPlaceSite.                                                            *)
(***************************************************************************)

\* What a buffer is while it is lent: a bitmap is only in a memory context, whose
\* own bitmap is remembered, and the area is the one that was asked for.
BufferInv ==
  /\ m_hDCBuffer = Null => m_hBMBuffer = Null /\ m_hRgnBuffer = Null
  /\ m_hDCBuffer # Null =>
       /\ m_rcBuffer = asked
       /\ m_hBMBuffer # Null => m_dwBufferFlags.offscreen /\ m_hBMBufferOld = Stock

BufferSafe == InPlaceTypeOK /\ OnlyBufferIsHeld /\ BufferInv

-----------------------------------------------------------------------------
\* A step that leaves the buffer alone keeps what is said of it.
LEMMA BufferUntouched ==
  ASSUME BufferSafe, UNCHANGED bufferVars,
         phase' \in {"created", "attached", "deactivating", "closing", "detached"},
         control' \in {"idle", "windowed", "windowless"},
         ui' \in BOOLEAN, refused' \in BOOLEAN,
         m_bInPlaceActive' \in BOOLEAN, m_bUIActive' \in BOOLEAN, m_bWindowless' \in BOOLEAN,
         {controlRect', m_rcObjectPos'} \subseteq Rects \cup {Null},
         routed' \in {"nowhere", "window", "windowless"}
  PROVE  BufferSafe'
BY DEF BufferSafe, InPlaceTypeOK, OnlyBufferIsHeld, BufferInv, bufferVars, Of, Free

LEMMA BufferInit == InPlaceInit => BufferSafe
<1> SUFFICES ASSUME InPlaceInit PROVE BufferSafe OBVIOUS
<1>1. gdi \in [Handles -> {"free", "memory", "window", "bitmap", "region"}]
      /\ selected \in [Handles -> Handles \cup {Stock, Null}]
  BY DEF InPlaceInit
<1>2. {controlRect, m_rcObjectPos, m_rcBuffer, asked, shown} \subseteq Rects \cup {Null}
  BY DEF InPlaceInit
<1>3. m_dwBufferFlags \in [offscreen : BOOLEAN, nodraw : BOOLEAN]
  BY DEF InPlaceInit
<1>4. InPlaceTypeOK
  BY <1>1, <1>2, <1>3 DEF InPlaceInit, InPlaceTypeOK
<1>5. OnlyBufferIsHeld /\ BufferInv
  BY DEF InPlaceInit, OnlyBufferIsHeld, BufferInv, Of, Free
<1>6. QED BY <1>4, <1>5 DEF BufferSafe

LEMMA GetDCKeeps ==
  ASSUME BufferSafe, NEW rc \in Rects, NEW offscreen \in BOOLEAN, NEW nodraw \in BOOLEAN,
         GetDC(rc, offscreen, nodraw)
  PROVE  BufferSafe'
<1> USE DEF BufferSafe, GetDC, controlVars, flagVars
<1>1. m_hBMBuffer = Null /\ m_hRgnBuffer = Null /\ Free = Handles
  BY DEF BufferInv, OnlyBufferIsHeld, Free, Of
<1>2. CASE m_hDCBuffer' = Null
  <2>1. UNCHANGED <<gdi, selected, m_hBMBufferOld>> /\ m_hBMBuffer' = Null /\ m_hRgnBuffer' = Null
    BY <1>1, <1>2, SiteAssumption DEF GetOffscreen, GetOnscreen, Free, Of
  <2>2. QED
    BY <1>1, <1>2, <2>1 DEF InPlaceTypeOK, OnlyBufferIsHeld, BufferInv, Free, Of
<1>3. CASE m_hDCBuffer' # Null /\ offscreen
  <2> PICK dc \in Handles : m_hDCBuffer' = dc /\ m_hRgnBuffer' = Null /\
        \E b \in (Handles \ {dc}) \cup {Null} :
          /\ m_hBMBuffer' = b
          /\ m_hBMBufferOld' = IF b = Null THEN Null ELSE Stock
          /\ selected' = [selected EXCEPT ![dc] = IF b = Null THEN Stock ELSE b]
          /\ gdi' = [h \in Handles |-> CASE h = dc -> "memory"
                                         [] h = b -> "bitmap"
                                         [] OTHER -> gdi[h]]
    BY <1>1, <1>3 DEF GetOffscreen
  <2> DEFINE bm == m_hBMBuffer'
  <2>1. /\ bm \in (Handles \ {dc}) \cup {Null}
        /\ m_hDCBuffer' = dc /\ m_hRgnBuffer' = Null
        /\ m_hBMBufferOld' = IF bm = Null THEN Null ELSE Stock
        /\ selected' = [selected EXCEPT ![dc] = IF bm = Null THEN Stock ELSE bm]
        /\ gdi' = [h \in Handles |-> CASE h = dc -> "memory"
                                       [] h = bm -> "bitmap"
                                       [] OTHER -> gdi[h]]
    OBVIOUS
  <2>2. /\ gdi' \in [Handles -> {"free", "memory", "window", "bitmap", "region"}]
        /\ selected' \in [Handles -> Handles \cup {Stock, Null}]
    BY <2>1, <1>1 DEF InPlaceTypeOK, Free, Of
  <2>3. gdi'[dc] = "memory" /\ (bm # Null => gdi'[bm] = "bitmap") /\ dc # Null
    BY <2>1, SiteAssumption
  <2>4. \A h \in Handles \ {dc, bm} : gdi'[h] = "free"
    BY <2>1, <1>1 DEF Free, Of
  <2>5. InPlaceTypeOK'
    BY <1>3, <2>1, <2>2, <2>3 DEF InPlaceTypeOK, Of
  <2>6. OnlyBufferIsHeld'
    BY <2>1, <2>3, <2>4, SiteAssumption DEF OnlyBufferIsHeld, Free, Of
  <2>7. BufferInv'
    BY <1>3, <2>1, <2>3, SiteAssumption DEF BufferInv
  <2>8. QED BY <2>5, <2>6, <2>7
<1>4. CASE m_hDCBuffer' # Null /\ ~offscreen
  <2> PICK dc \in Handles : m_hDCBuffer' = dc /\ m_hBMBuffer' = Null /\ UNCHANGED m_hBMBufferOld /\
        \E r \in (Handles \ {dc}) \cup {Null} :
          /\ m_hRgnBuffer' = r
          /\ selected' = [selected EXCEPT ![dc] = Stock]
          /\ gdi' = [h \in Handles |-> CASE h = dc -> "window"
                                         [] h = r -> "region"
                                         [] OTHER -> gdi[h]]
    BY <1>1, <1>4 DEF GetOnscreen
  <2> DEFINE rgn == m_hRgnBuffer'
  <2>1. /\ rgn \in (Handles \ {dc}) \cup {Null}
        /\ m_hDCBuffer' = dc /\ m_hBMBuffer' = Null /\ UNCHANGED m_hBMBufferOld
        /\ selected' = [selected EXCEPT ![dc] = Stock]
        /\ gdi' = [h \in Handles |-> CASE h = dc -> "window"
                                       [] h = rgn -> "region"
                                       [] OTHER -> gdi[h]]
    OBVIOUS
  <2>2. /\ gdi' \in [Handles -> {"free", "memory", "window", "bitmap", "region"}]
        /\ selected' \in [Handles -> Handles \cup {Stock, Null}]
    BY <2>1, <1>1 DEF InPlaceTypeOK, Free, Of
  <2>3. gdi'[dc] = "window" /\ (rgn # Null => gdi'[rgn] = "region") /\ dc # Null
    BY <2>1, SiteAssumption
  <2>4. \A h \in Handles \ {dc, rgn} : gdi'[h] = "free"
    BY <2>1, <1>1 DEF Free, Of
  <2>5. InPlaceTypeOK'
    BY <1>4, <2>1, <2>2, <2>3 DEF InPlaceTypeOK, Of
  <2>6. OnlyBufferIsHeld'
    BY <2>1, <2>3, <2>4, SiteAssumption DEF OnlyBufferIsHeld, Free, Of
  <2>7. BufferInv'
    BY <1>4, <2>1, <2>3, SiteAssumption DEF BufferInv
  <2>8. QED BY <2>5, <2>6, <2>7
<1>5. QED BY <1>2, <1>3, <1>4

\* The bitmap is never left in its context, so everything is freed.
LEMMA ReleaseDCKeeps ==
  ASSUME BufferSafe, ReleaseDC
  PROVE  BufferSafe'
<1> USE DEF BufferSafe, ReleaseDC, controlVars, flagVars
<1>1. {m_hDCBuffer, m_hBMBuffer, m_hRgnBuffer} \ {Null} \subseteq Released
  BY SiteAssumption DEF BufferInv, Released, InPlaceTypeOK, Of
<1>2. \A h \in Handles : gdi'[h] = "free"
  BY <1>1 DEF OnlyBufferIsHeld, Free, Of
<1>3. /\ gdi' \in [Handles -> {"free", "memory", "window", "bitmap", "region"}]
      /\ selected' \in [Handles -> Handles \cup {Stock, Null}]
  BY DEF InPlaceTypeOK
<1>4. InPlaceTypeOK'
  BY <1>3 DEF InPlaceTypeOK
<1>5. QED
  BY <1>2, <1>4 DEF OnlyBufferIsHeld, BufferInv, Free, Of

LEMMA BufferStep == BufferSafe /\ [InPlaceNext]_inPlaceVars => BufferSafe'
<1> SUFFICES ASSUME BufferSafe, [InPlaceNext]_inPlaceVars PROVE BufferSafe' OBVIOUS
<1> USE DEF BufferSafe
<1>1. ASSUME NEW rc \in Rects, Attach(rc) PROVE BufferSafe'
  BY <1>1, BufferUntouched DEF Attach, InPlaceTypeOK, controlVars, flagVars
<1>2. ASSUME NEW rc \in Rects \cup {Null}, SetPosition(rc) PROVE BufferSafe'
  BY <1>2, BufferUntouched DEF SetPosition, Told, InPlaceTypeOK, flagVars
<1>3. CASE OnPosRectChange
  BY <1>2, <1>3 DEF OnPosRectChange, InPlaceTypeOK
<1>4. CASE OnInPlaceActivate
  BY <1>4, BufferUntouched DEF OnInPlaceActivate, GetWindowContext, InPlaceTypeOK
<1>5. ASSUME NEW windowless \in BOOLEAN, OnInPlaceActivateEx(windowless) PROVE BufferSafe'
  <2>1. refused' \in BOOLEAN BY <1>5 DEF OnInPlaceActivateEx, Refuses
  <2>2. m_bWindowless' \in BOOLEAN /\ control' \in {"idle", "windowed", "windowless"}
    BY <1>5 DEF OnInPlaceActivateEx, InPlaceTypeOK
  <2>3. QED
    BY <1>5, <2>1, <2>2, BufferUntouched DEF OnInPlaceActivateEx, GetWindowContext, InPlaceTypeOK
<1>6. CASE OnUIActivate \/ OnUIDeactivate \/ OnInPlaceDeactivate
  <2>1. CASE OnUIActivate
    BY <2>1, BufferUntouched DEF OnUIActivate, InPlaceTypeOK
  <2>2. CASE OnUIDeactivate
    BY <2>2, BufferUntouched DEF OnUIDeactivate, InPlaceTypeOK
  <2>3. CASE OnInPlaceDeactivate
    BY <2>3, BufferUntouched DEF OnInPlaceDeactivate, InPlaceTypeOK
  <2>4. QED BY <1>6, <2>1, <2>2, <2>3
<1>7. CASE OnDefWindowMessage
  BY <1>7, BufferUntouched DEF OnDefWindowMessage, InPlaceTypeOK, controlVars, flagVars
<1>8. CASE Detach
  BY <1>8, BufferUntouched DEF Detach, InPlaceTypeOK, controlVars, flagVars
<1>9. CASE UNCHANGED inPlaceVars
  BY <1>9, BufferUntouched DEF inPlaceVars, InPlaceTypeOK, controlVars, flagVars
<1>10. QED
  BY <1>1, <1>2, <1>3, <1>4, <1>5, <1>6, <1>7, <1>8, <1>9, GetDCKeeps, ReleaseDCKeeps DEF InPlaceNext

-----------------------------------------------------------------------------
\* A control does not activate before the site is attached to it.
ControlSafe == ControlFollowed /\ (phase = "created" => control = "idle")

LEMMA ControlInit == InPlaceInit => ControlSafe
BY DEF InPlaceInit, ControlSafe, ControlFollowed, FlagsFollowControl, PositionIsShared,
       WindowlessOnlyIfAllowed, HasWindow

LEMMA ControlStep == InPlaceTypeOK /\ ControlSafe /\ [InPlaceNext]_inPlaceVars => ControlSafe'
<1> SUFFICES ASSUME InPlaceTypeOK, ControlSafe, [InPlaceNext]_inPlaceVars PROVE ControlSafe' OBVIOUS
<1> USE DEF ControlSafe, ControlFollowed, FlagsFollowControl, PositionIsShared, WindowlessOnlyIfAllowed,
            HasWindow, HasInPlaceObject
<1>1. ASSUME NEW rc \in Rects, Attach(rc) PROVE ControlSafe'
  BY <1>1 DEF Attach, controlVars, flagVars
<1>2. ASSUME NEW rc, SetPosition(rc) PROVE ControlSafe'
  BY <1>2 DEF SetPosition, Told, flagVars
<1>3. CASE OnPosRectChange
  BY <1>2, <1>3 DEF OnPosRectChange
<1>4. CASE OnInPlaceActivate
  BY <1>4 DEF OnInPlaceActivate, GetWindowContext, InPlaceTypeOK
<1>5. ASSUME NEW windowless \in BOOLEAN, OnInPlaceActivateEx(windowless) PROVE ControlSafe'
  BY <1>5, SiteAssumption DEF OnInPlaceActivateEx, Refuses, GetWindowContext, InPlaceTypeOK
<1>6. CASE OnUIActivate \/ OnUIDeactivate \/ OnInPlaceDeactivate
  BY <1>6 DEF OnUIActivate, OnUIDeactivate, OnInPlaceDeactivate
<1>7. CASE OnDefWindowMessage
  BY <1>7 DEF OnDefWindowMessage, controlVars, flagVars
<1>8. CASE Detach
  BY <1>8 DEF Detach, controlVars, flagVars
<1>9. CASE ReleaseDC
  BY <1>9 DEF ReleaseDC, controlVars, flagVars
<1>10. ASSUME NEW rc, NEW offscreen, NEW nodraw, GetDC(rc, offscreen, nodraw) PROVE ControlSafe'
  BY <1>10 DEF GetDC, controlVars, flagVars
<1>11. CASE UNCHANGED inPlaceVars
  BY <1>11 DEF inPlaceVars, controlVars, flagVars
<1>12. QED
  BY <1>1, <1>2, <1>3, <1>4, <1>5, <1>6, <1>7, <1>8, <1>9, <1>10, <1>11 DEF InPlaceNext

-----------------------------------------------------------------------------
\* The site's variables keep their types, and the handles it holds stand for
\* objects of their kinds: none dangles after a failed or repeated GetDC.
THEOREM SiteTyping == InPlaceSpec => []InPlaceTypeOK
<1>1. InPlaceSpec => []BufferSafe BY BufferInit, BufferStep, PTL DEF InPlaceSpec
<1>2. BufferSafe => InPlaceTypeOK BY DEF BufferSafe
<1>3. QED BY <1>1, <1>2, PTL

\* GetDC and ReleaseDC lose no GDI object, whichever allocations fail.
THEOREM BufferHeld == InPlaceSpec => []OnlyBufferIsHeld
<1>1. InPlaceSpec => []BufferSafe BY BufferInit, BufferStep, PTL DEF InPlaceSpec
<1>2. BufferSafe => OnlyBufferIsHeld BY DEF BufferSafe
<1>3. QED BY <1>1, <1>2, PTL

\* A buffer is shown where it was asked for.
THEOREM ShownInPlace == InPlaceSpec => ShownWhereAsked
<1>1. InPlaceSpec => []BufferSafe BY BufferInit, BufferStep, PTL DEF InPlaceSpec
<1>2. ASSUME BufferSafe, [InPlaceNext]_inPlaceVars PROVE [shown' # shown => shown' = asked]_inPlaceVars
  <2>1. CASE ReleaseDC
    BY <1>2, <2>1 DEF ReleaseDC, BufferSafe, BufferInv
  <2>2. CASE ~ReleaseDC
    BY <1>2, <2>2 DEF InPlaceNext, Attach, SetPosition, OnPosRectChange, OnInPlaceActivate,
      OnInPlaceActivateEx, OnUIActivate, OnUIDeactivate, OnInPlaceDeactivate,
      OnDefWindowMessage, Detach, GetDC, bufferVars, inPlaceVars
  <2>3. QED BY <2>1, <2>2
<1>3. QED BY <1>1, <1>2, PTL DEF InPlaceSpec, ShownWhereAsked

\* The flags, the position and the treatment of windowless controls follow the
\* control through every order of activation, movement, message and detach.
THEOREM Following == InPlaceSpec => []ControlFollowed
<1>1. InPlaceSpec => []BufferSafe BY BufferInit, BufferStep, PTL DEF InPlaceSpec
<1>2. BufferSafe => InPlaceTypeOK BY DEF BufferSafe
<1>3. InPlaceSpec => []ControlSafe BY <1>1, <1>2, ControlInit, ControlStep, PTL DEF InPlaceSpec
<1>4. ControlSafe => ControlFollowed BY DEF ControlSafe
<1>5. QED BY <1>3, <1>4, PTL
=============================================================================
