------------------------ MODULE ScriptableRefsProofs ------------------------
(***************************************************************************)
(* ScriptableRefs accounts for every COM reference, for any finite set of  *)
(* wrappers and any set of objects.                                        *)
(***************************************************************************)
EXTENDS ScriptableRefs, FiniteSetTheorems, TLAPS

\* A wrapper without a control comes from a NULL that was wrapped.
NullExplained ==
  \A s \in Wrappers : state[s] # "free" /\ control[s] = NoControl => wrappedNull

RefInv == TypeOK /\ ReferencesAccounted /\ FaultsExplained /\ NullExplained

Count(c) == Cardinality(WrappersOf(c))

-----------------------------------------------------------------------------
LEMMA WrappersFinite ==
  ASSUME NEW c
  PROVE  IsFiniteSet(WrappersOf(c)) /\ Count(c) \in Nat
BY FS_Subset, FS_CardinalityType, WrapperAssumption DEF WrappersOf, Count

\* A wrapper more on one object, and on no other.
LEMMA NewCounts ==
  ASSUME TypeOK, NEW s \in Wrappers, NEW c \in Controls \cup {NoControl}, NEW who, New(s, c, who)
  PROVE  /\ Count(c)' = Count(c) + 1
         /\ \A d \in Controls : d # c => Count(d)' = Count(d)
<1>1. s \notin WrappersOf(c) /\ WrappersOf(c)' = WrappersOf(c) \cup {s}
  BY DEF New, WrappersOf, TypeOK
<1>2. Count(c)' = Count(c) + 1
  BY <1>1, WrappersFinite, FS_AddElement DEF Count
<1>3. ASSUME NEW d \in Controls, d # c PROVE Count(d)' = Count(d)
  <2>1. WrappersOf(d)' = WrappersOf(d)
    BY <1>3 DEF New, WrappersOf, TypeOK
  <2>2. QED BY <2>1 DEF Count
<1>4. QED BY <1>2, <1>3

\* A wrapper less.
LEMMA FreeCounts ==
  ASSUME TypeOK, NEW s \in Wrappers, Deallocate(s)
  PROVE  \A d \in Controls :
           /\ d = control[s] => Count(d)' = Count(d) - 1 /\ Count(d) >= 1
           /\ d # control[s] => Count(d)' = Count(d)
<1> DEFINE c == control[s]
<1>1. ASSUME c \in Controls
      PROVE  Cardinality(WrappersOf(c) \ {s}) = Cardinality(WrappersOf(c)) - 1 /\ Count(c) >= 1
  <2>1. s \in WrappersOf(c)
    BY <1>1 DEF Deallocate, WrappersOf
  <2>2. Cardinality(WrappersOf(c) \ {s}) = Cardinality(WrappersOf(c)) - 1
    BY <2>1, WrappersFinite, FS_RemoveElement
  <2>3. Cardinality(WrappersOf(c) \ {s}) \in Nat
    BY WrappersFinite, FS_RemoveElement, FS_CardinalityType
  <2>4. QED
    BY <2>2, <2>3, WrappersFinite DEF Count
<1>2. ASSUME NEW d \in Controls
      PROVE  WrappersOf(d)' = IF d = c THEN WrappersOf(d) \ {s} ELSE WrappersOf(d)
  BY <1>2, WrapperAssumption DEF Deallocate, WrappersOf, TypeOK
<1>3. ASSUME NEW d \in Controls, d = c PROVE Count(d)' = Count(d) - 1 /\ Count(d) >= 1
  BY <1>1, <1>2, <1>3 DEF Count
<1>4. ASSUME NEW d \in Controls, d # c PROVE Count(d)' = Count(d)
  BY <1>2, <1>4 DEF Count
<1>5. QED
  BY <1>3, <1>4

LEMMA SameCounts ==
  ASSUME NEW c, \A s \in Wrappers : (state'[s] = "free" <=> state[s] = "free"), UNCHANGED control
  PROVE  Count(c)' = Count(c)
<1>1. WrappersOf(c)' = WrappersOf(c) BY DEF WrappersOf
<1>2. QED BY <1>1 DEF Count

\* The references on an object that are no wrapper's.
Own(c) == One(c = Main /\ site = "attached") + One(others[c]) + kept[c]

LEMMA Accounts ==
  ASSUME TypeOK
  PROVE  ReferencesAccounted <=> \A c \in Controls \ borrowed : refs[c] = Own(c) + 2 * Count(c)
<1>1. ASSUME NEW c \in Controls
      PROVE  One(c = Main /\ site = "attached") + One(others[c]) + 2 * Count(c) + kept[c]
               = Own(c) + 2 * Count(c)
  <2>1. Count(c) \in Nat /\ kept[c] \in Nat
    BY WrappersFinite, WrapperAssumption DEF TypeOK
  <2>2. QED BY <2>1 DEF Own, One
<1>2. QED BY <1>1 DEF ReferencesAccounted, Count

\* Whoever holds an object may use it.
LEMMA HeldIsThere ==
  ASSUME RefInv, NEW c \in Controls, c \notin borrowed
  PROVE  /\ c = Main /\ site = "attached" => refs[c] >= 1
         /\ others[c] => refs[c] >= 1
         /\ refs[c] >= 2 * Count(c)
<1>1. TypeOK /\ refs[c] = Own(c) + 2 * Count(c)
  BY Accounts DEF RefInv
<1>2. Count(c) \in Nat /\ kept[c] \in Nat
  BY <1>1, WrappersFinite, WrapperAssumption DEF TypeOK
<1>3. QED BY <1>1, <1>2 DEF Own, One

\* A use with too few references is that of an object that was borrowed.
LEMMA UseExplained ==
  ASSUME RefInv, NEW c \in Controls, NEW n \in Nat, c \notin borrowed => refs[c] >= n,
         Use(c, n), UNCHANGED historyVars
  PROVE  FaultsExplained' /\ misused' \subseteq Controls \cup {NoControl}
<1>1. refs[c] \in Int /\ FaultsExplained /\ misused \subseteq Controls \cup {NoControl}
  BY DEF RefInv, TypeOK
<1>2. CASE refs[c] < n
  <2>1. c \in borrowed BY <1>1, <1>2
  <2>2. misused' = misused \cup {c} BY <1>2 DEF Use
  <2>3. QED BY <1>1, <2>1, <2>2 DEF FaultsExplained, historyVars
<1>3. CASE ~(refs[c] < n)
  <2>1. misused' = misused BY <1>3 DEF Use
  <2>2. QED BY <1>1, <2>1 DEF FaultsExplained, historyVars
<1>4. QED BY <1>2, <1>3

LEMMA RefInit == Init => RefInv
<1> SUFFICES ASSUME Init PROVE RefInv OBVIOUS
<1>1. TypeOK
  <2>1. others \in [Controls -> BOOLEAN]
    BY Zenon DEF Init
  <2>2. refs \in [Controls -> Int]
    BY DEF Init
  <2>3. kept \in [Controls -> 0 .. MaxKept]
    BY WrapperAssumption DEF Init
  <2>4. QED
    BY <2>1, <2>2, <2>3 DEF Init, TypeOK
<1>2. ASSUME NEW c \in Controls PROVE Count(c) = 0
  <2>1. WrappersOf(c) = {} BY DEF Init, WrappersOf
  <2>2. QED BY <2>1, FS_EmptySet DEF Count
<1>3. ReferencesAccounted
  <2>1. ASSUME NEW c \in Controls PROVE refs[c] = Own(c)
    <3>1. CASE c = Main
      <4>1. ~others[c] BY <3>1, <2>1, Zenon DEF Init
      <4>2. QED BY <2>1, <3>1, <4>1 DEF Init, Own, One
    <3>2. CASE c # Main
      <4>1. others[c] BY <3>2, <2>1, Zenon DEF Init
      <4>2. QED BY <2>1, <3>2, <4>1 DEF Init, Own, One
    <3>3. QED BY <3>1, <3>2
  <2>2. \A c \in Controls : refs[c] \in Int
    BY DEF Init
  <2>3. QED
    BY <1>1, <1>2, <2>1, <2>2, Accounts
<1>4. QED
  BY <1>1, <1>3 DEF Init, RefInv, FaultsExplained, NullExplained

LEMMA RefStep == RefInv /\ [Next]_vars => RefInv'
<1> SUFFICES ASSUME RefInv, [Next]_vars PROVE RefInv' OBVIOUS
<1>0. TypeOK /\ ReferencesAccounted /\ FaultsExplained /\ NullExplained BY DEF RefInv
<1>a. /\ refs \in [Controls -> Int] /\ kept \in [Controls -> 0 .. MaxKept] /\ MaxKept \in Nat
      /\ \A c \in Controls : Count(c) \in Nat /\ kept[c] \in Nat
      /\ \A c \in Controls \ borrowed : refs[c] = Own(c) + 2 * Count(c)
  BY <1>0, WrappersFinite, Accounts, WrapperAssumption DEF TypeOK
<1>b. (/\ TypeOK' /\ FaultsExplained' /\ NullExplained'
       /\ \A c \in Controls \ borrowed' : refs'[c] = Own(c)' + 2 * Count(c)') => RefInv'
  <2>1. ASSUME TypeOK', NEW c \in Controls
        PROVE  One(c = Main /\ site' = "attached") + One(others'[c]) + 2 * Count(c)' + kept'[c]
                 = Own(c)' + 2 * Count(c)'
    <3>1. IsFiniteSet(WrappersOf(c)')
      <4>1. WrappersOf(c)' \subseteq Wrappers BY DEF WrappersOf
      <4>2. QED BY <4>1, FS_Subset, WrapperAssumption
    <3>2. Count(c)' \in Nat /\ kept'[c] \in Nat
      BY <2>1, <3>1, FS_CardinalityType, WrapperAssumption DEF TypeOK, Count
    <3>3. QED BY <3>2 DEF Own, One
  <2>2. QED BY <2>1 DEF RefInv, ReferencesAccounted, Count
<1> USE DEF Own, One
<1>1. CASE CreateControl
  <2>1. \A c \in Controls : Count(c)' = Count(c)
    BY <1>1, SameCounts DEF CreateControl, wrapperVars
  <2>2. QED
    BY <1>0, <1>a, <1>b, <1>1, <2>1, WrapperAssumption DEF CreateControl, AddRef, TypeOK, FaultsExplained,
      NullExplained, wrapperVars, historyVars
<1>2. CASE Detach
  <2>1. \A c \in Controls : Count(c)' = Count(c)
    BY <1>2, SameCounts DEF Detach, wrapperVars
  <2>2. FaultsExplained' /\ misused' \subseteq Controls \cup {NoControl}
    BY <1>2, HeldIsThere, UseExplained, WrapperAssumption DEF Detach
  <2>3. QED
    BY <1>0, <1>a, <1>b, <1>2, <2>1, <2>2, WrapperAssumption DEF Detach, AddRef, TypeOK,
      NullExplained, wrapperVars, historyVars
<1>3. CASE End
  <2>1. \A c \in Controls : Count(c)' = Count(c)
    BY <1>3, <1>0, SameCounts DEF End, TypeOK
  <2>2. QED
    BY <1>0, <1>a, <1>b, <1>3, <2>1 DEF End, TypeOK, FaultsExplained,
      NullExplained, historyVars
<1>4. ASSUME NEW c \in Controls, ReleaseOther(c) PROVE RefInv'
  <2>1. \A d \in Controls : Count(d)' = Count(d)
    BY <1>4, SameCounts DEF ReleaseOther, wrapperVars
  <2>2. FaultsExplained' /\ misused' \subseteq Controls \cup {NoControl}
    BY <1>4, HeldIsThere, UseExplained DEF ReleaseOther
  <2>3. QED
    BY <1>0, <1>a, <1>4, <2>1, <2>2, <1>b DEF ReleaseOther, AddRef, TypeOK,
      NullExplained, wrapperVars, historyVars
<1>5. ASSUME NEW s \in Wrappers, CallControl(s) PROVE RefInv'
  <2>1. \A d \in Controls : Count(d)' = Count(d)
    BY <1>5, SameCounts DEF CallControl, wrapperVars
  <2>2. control[s] \in Controls /\ (control[s] \notin borrowed => refs[control[s]] >= 1)
    <3>1. control[s] \in Controls /\ s \in WrappersOf(control[s])
      BY <1>5 DEF CallControl, Callable, WrappersOf
    <3>2. Count(control[s]) >= 1
      <4>1. Count(control[s]) # 0
        BY <3>1, WrappersFinite, FS_EmptySet DEF Count
      <4>2. QED BY <4>1, WrappersFinite
    <3>3. QED BY <1>a, <3>1, <3>2, HeldIsThere
  <2>3. FaultsExplained' /\ misused' \subseteq Controls \cup {NoControl}
    BY <1>5, <2>2, UseExplained DEF CallControl
  <2>4. QED
    BY <1>0, <1>a, <1>5, <2>1, <2>3, <1>b DEF CallControl, TypeOK,
      NullExplained, wrapperVars, historyVars
<1>6. ASSUME NEW s \in Wrappers, GetScriptableObject(s) PROVE RefInv'
  <2>1. CASE New(s, Main, "page") /\ AddRef(Main, 2) /\ UNCHANGED wrappedNull
    <3>1. Main \in Controls BY WrapperAssumption
    <3>2. Count(Main)' = Count(Main) + 1 /\ \A d \in Controls : d # Main => Count(d)' = Count(d)
      BY <1>0, <2>1, <3>1, NewCounts
    <3>3. QED
      BY <1>0, <1>a, <1>6, <2>1, <3>1, <3>2, <1>b, WrapperAssumption
      DEF GetScriptableObject, New, AddRef, TypeOK, FaultsExplained, NullExplained
  <2>2. CASE New(s, NoControl, "page") /\ wrappedNull' = TRUE /\ UNCHANGED refs
    <3>1. \A d \in Controls : Count(d)' = Count(d)
      BY <1>0, <2>2, NewCounts, WrapperAssumption
    <3>2. QED
      BY <1>0, <1>a, <1>6, <2>2, <3>1, <1>b
      DEF GetScriptableObject, New, TypeOK, FaultsExplained, NullExplained
  <2>3. QED BY <1>6, <2>1, <2>2 DEF GetScriptableObject
<1>7. ASSUME NEW s \in Wrappers, NEW c \in Controls, WrapResult(s, c) PROVE RefInv'
  <2>1. PICK who \in {"page", "plugin"} : New(s, c, who)
    BY <1>7 DEF WrapResult
  <2>2. Count(c)' = Count(c) + 1 /\ \A d \in Controls : d # c => Count(d)' = Count(d)
    BY <1>0, <2>1, NewCounts
  <2>3. QED
    BY <1>0, <1>a, <1>7, <2>1, <2>2, <1>b, WrapperAssumption
    DEF WrapResult, New, AddRef, TypeOK, FaultsExplained, NullExplained, historyVars
<1>8. ASSUME NEW s \in Wrappers, NEW c \in Controls, WrapElement(s, c) PROVE RefInv'
  <2>1. PICK who \in {"page", "plugin"} : New(s, c, who)
    BY <1>8 DEF WrapElement
  <2>2. Count(c)' = Count(c) + 1 /\ \A d \in Controls : d # c => Count(d)' = Count(d)
    BY <1>0, <2>1, NewCounts
  <2>3. kept' \in [Controls -> 0 .. MaxKept]
    BY <1>a, <1>8 DEF WrapElement
  <2>4. QED
    BY <1>0, <1>a, <1>8, <2>1, <2>2, <2>3, <1>b, WrapperAssumption
    DEF WrapElement, New, AddRef, TypeOK, FaultsExplained, NullExplained, historyVars
<1>9. ASSUME NEW c \in Controls, LeaveElement(c) PROVE RefInv'
  <2>1. \A d \in Controls : Count(d)' = Count(d)
    BY <1>9, SameCounts DEF LeaveElement, wrapperVars
  <2>2. kept' \in [Controls -> 0 .. MaxKept]
    BY <1>a, <1>9 DEF LeaveElement
  <2>3. QED
    BY <1>0, <1>a, <1>9, <2>1, <2>2, <1>b DEF LeaveElement, AddRef, TypeOK, FaultsExplained,
      NullExplained, wrapperVars, historyVars
<1>10. ASSUME NEW s \in Wrappers, NEW c \in Controls, WrapArgument(s, c) PROVE RefInv'
  <2>1. New(s, c, "plugin")
    BY <1>10 DEF WrapArgument
  <2>2. Count(c)' = Count(c) + 1 /\ \A d \in Controls : d # c => Count(d)' = Count(d)
    BY <1>0, <2>1, NewCounts
  <2>3. CASE AddRef(c, 2) /\ UNCHANGED borrowed
    <3>1. TypeOK' /\ FaultsExplained' /\ NullExplained'
      BY <1>0, <1>a, <1>10, <2>1, <2>3, WrapperAssumption
      DEF WrapArgument, New, AddRef, TypeOK, FaultsExplained, NullExplained
    <3>2. \A d \in Controls \ borrowed' : refs'[d] = Own(d)' + 2 * Count(d)'
      BY <1>a, <1>10, <2>2, <2>3 DEF WrapArgument, AddRef
    <3>3. QED BY <3>1, <3>2, <1>b
  <2>4. CASE AddRef(c, 1) /\ borrowed' = borrowed \cup {c}
    BY <1>0, <1>a, <1>10, <2>1, <2>2, <2>4, <1>b, WrapperAssumption
    DEF WrapArgument, New, AddRef, TypeOK, FaultsExplained, NullExplained
  <2>5. QED BY <1>10, <2>3, <2>4 DEF WrapArgument
<1>11. ASSUME NEW s \in Wrappers, WrapNull(s) PROVE RefInv'
  <2>1. CASE New(s, NoControl, "page") /\ UNCHANGED misused
    <3>1. \A d \in Controls : Count(d)' = Count(d)
      BY <1>0, <2>1, NewCounts, WrapperAssumption
    <3>2. QED
      BY <1>0, <1>a, <1>11, <2>1, <3>1, <1>b
      DEF WrapNull, New, TypeOK, FaultsExplained, NullExplained
  <2>2. CASE misused' = misused \cup {NoControl} /\ UNCHANGED wrapperVars
    <3>1. \A d \in Controls : Count(d)' = Count(d)
      BY <2>2, SameCounts DEF wrapperVars
    <3>2. QED
      BY <1>0, <1>a, <1>11, <2>2, <3>1, <1>b
      DEF WrapNull, TypeOK, FaultsExplained, NullExplained, wrapperVars
  <2>3. QED BY <1>11, <2>1, <2>2 DEF WrapNull
<1>12. ASSUME NEW s \in Wrappers, Deallocate(s) PROVE RefInv'
  <2>1. \A d \in Controls :
          /\ d = control[s] => Count(d)' = Count(d) - 1 /\ Count(d) >= 1
          /\ d # control[s] => Count(d)' = Count(d)
    BY <1>0, <1>12, FreeCounts
  <2>2. FaultsExplained' /\ misused' \subseteq Controls \cup {NoControl}
    <3>1. CASE control[s] = NoControl
      BY <1>0, <1>12, <3>1 DEF Deallocate, FaultsExplained, NullExplained, TypeOK, historyVars
    <3>2. CASE control[s] \in Controls
      <4>1. control[s] \notin borrowed => refs[control[s]] >= 2
        BY <1>a, <2>1, <3>2, HeldIsThere
      <4>2. Use(control[s], 2) /\ UNCHANGED historyVars
        BY <1>12, <3>2, WrapperAssumption DEF Deallocate
      <4>3. QED
        BY <3>2, <4>1, <4>2, UseExplained
    <3>3. QED BY <1>0, <3>1, <3>2 DEF TypeOK
  <2>3. TypeOK'
    <3>1. refs' \in [Controls -> Int]
      BY <1>0, <1>12 DEF Deallocate, AddRef, TypeOK
    <3>2. /\ state' \in [Wrappers -> {"free", "live", "invalid"}]
          /\ control' \in [Wrappers -> Controls \cup {NoControl}]
          /\ \A w \in Wrappers : state'[w] = "free" => control'[w] = NoControl
      BY <1>0, <1>12 DEF Deallocate, TypeOK
    <3>3. QED
      BY <1>0, <1>12, <2>2, <3>1, <3>2 DEF Deallocate, TypeOK, historyVars
  <2>4. \A d \in Controls \ borrowed' : refs'[d] = Own(d)' + 2 * Count(d)'
    <3>1. ASSUME NEW d \in Controls \ borrowed, d = control[s] PROVE refs'[d] = refs[d] - 2
      BY <1>a, <1>12, <3>1, WrapperAssumption DEF Deallocate, AddRef
    <3>2. ASSUME NEW d \in Controls \ borrowed, d # control[s] PROVE refs'[d] = refs[d]
      BY <1>a, <1>12, <3>2 DEF Deallocate, AddRef
    <3>3. UNCHANGED <<site, others, kept, borrowed>>
      BY <1>12 DEF Deallocate, historyVars
    <3>4. QED
      BY <1>a, <2>1, <3>1, <3>2, <3>3
  <2>5. NullExplained'
    BY <1>0, <1>12 DEF Deallocate, NullExplained, TypeOK, historyVars
  <2>6. QED BY <2>2, <2>3, <2>4, <2>5, <1>b
<1>13. CASE UNCHANGED vars
  <2>1. \A d \in Controls : Count(d)' = Count(d)
    BY <1>13, SameCounts DEF vars, wrapperVars
  <2>2. QED
    BY <1>0, <1>a, <1>13, <2>1, <1>b DEF vars, wrapperVars, historyVars, TypeOK,
      FaultsExplained, NullExplained
<1>14. QED
  BY <1>1, <1>2, <1>3, <1>4, <1>5, <1>6, <1>7, <1>8, <1>9, <1>10, <1>11, <1>12, <1>13 DEF Next

-----------------------------------------------------------------------------
\* The references on each object are those of its holders, and a fault or a NULL
\* that is wrapped has a cause, on every path.
THEOREM RefSafety == Spec => []RefInv
BY RefInit, RefStep, PTL DEF Spec

\* A wrapper that is free wraps nothing, and the others wrap an object or NULL.
THEOREM RefTyping == Spec => []TypeOK
<1>1. RefInv => TypeOK BY DEF RefInv
<1>2. QED BY <1>1, RefSafety, PTL

\* The references on an object that was never wrapped with one reference are
\* those of its holders and of the arrays that nobody clears, on every path of
\* creation, return, conversion, detach and deletion.
THEOREM Accounting == Spec => []ReferencesAccounted
<1>1. RefInv => ReferencesAccounted BY DEF RefInv
<1>2. QED BY <1>1, RefSafety, PTL

\* An object that is used after it was freed is one that was itself borrowed, and
\* NULL is used only when it was wrapped, for any number of wrappers and objects.
THEOREM WrapperFaults == Spec => []FaultsExplained
<1>1. RefInv => FaultsExplained BY DEF RefInv
<1>2. QED BY <1>1, RefSafety, PTL
=============================================================================
