------------------------ MODULE GenericNPObjectProofs ------------------------
(***************************************************************************)
(* Proofs about GenericNPObject, for any elements, names, indices and      *)
(* bounds, and any number of steps.                                        *)
(***************************************************************************)
EXTENDS GenericNPObject, FiniteSetTheorems, TLAPS

-----------------------------------------------------------------------------
(***************************************************************************)
(* How many elements of a sequence are in a set.                           *)
(***************************************************************************)

Where(s, V) == {j \in 1 .. Len(s) : s[j] \in V}
Count(s, V) == Cardinality(Where(s, V))
One(b) == IF b THEN 1 ELSE 0

LEMMA WhereFinite ==
  ASSUME NEW s \in Seq(Values), NEW V
  PROVE  IsFiniteSet(Where(s, V)) /\ Count(s, V) \in Nat
<1>1. Len(s) \in Nat /\ Where(s, V) \in SUBSET (1 .. Len(s))
  BY DEF Where
<1>2. IsFiniteSet(1 .. Len(s))
  BY <1>1, FS_Interval
<1>3. IsFiniteSet(Where(s, V))
  BY <1>1, <1>2, FS_Subset
<1> QED BY <1>3, FS_CardinalityType DEF Count

\* An element is replaced.
LEMMA CountSet ==
  ASSUME NEW s \in Seq(Values), NEW V, NEW i \in 1 .. Len(s), NEW v \in Values
  PROVE  /\ [s EXCEPT ![i] = v] \in Seq(Values)
         /\ Count([s EXCEPT ![i] = v], V) = Count(s, V) + One(v \in V) - One(s[i] \in V)
<1> DEFINE t == [s EXCEPT ![i] = v]
<1>1. /\ t \in Seq(Values) /\ Len(t) = Len(s)
      /\ \A j \in 1 .. Len(s) : t[j] = IF j = i THEN v ELSE s[j]
  OBVIOUS
<1>2. IsFiniteSet(Where(s, V)) /\ Count(s, V) \in Nat
  BY WhereFinite
<1> HIDE DEF t
<1>3. CASE v \in V
  <2>1. Where(t, V) = Where(s, V) \cup {i}
    BY <1>1, <1>3 DEF Where
  <2>2. i \in Where(s, V) <=> s[i] \in V
    BY DEF Where
  <2>3. Cardinality(Where(s, V) \cup {i}) = IF i \in Where(s, V) THEN Count(s, V) ELSE Count(s, V) + 1
    BY <1>2, FS_AddElement DEF Count
  <2>4. Count(t, V) = IF s[i] \in V THEN Count(s, V) ELSE Count(s, V) + 1
    BY <2>1, <2>2, <2>3 DEF Count
  <2>5. One(v \in V) = 1 /\ One(s[i] \in V) = IF s[i] \in V THEN 1 ELSE 0
    BY <1>3 DEF One
  <2> QED BY <1>1, <1>2, <2>4, <2>5 DEF t
<1>4. CASE v \notin V
  <2>1. Where(t, V) = Where(s, V) \ {i}
    BY <1>1, <1>4 DEF Where
  <2>2. i \in Where(s, V) <=> s[i] \in V
    BY DEF Where
  <2>3. Cardinality(Where(s, V) \ {i}) = IF i \in Where(s, V) THEN Count(s, V) - 1 ELSE Count(s, V)
    BY <1>2, FS_RemoveElement DEF Count
  <2>4. Count(t, V) = IF s[i] \in V THEN Count(s, V) - 1 ELSE Count(s, V)
    BY <2>1, <2>2, <2>3 DEF Count
  <2>5. One(v \in V) = 0 /\ One(s[i] \in V) = IF s[i] \in V THEN 1 ELSE 0
    BY <1>4 DEF One
  <2> QED BY <1>1, <1>2, <2>4, <2>5 DEF t
<1> QED BY <1>3, <1>4

\* The padding of a gap is not counted, and reaches the index that was asked for.
LEMMA CountPadded ==
  ASSUME NEW s \in Seq(Values), NEW k \in Nat, NEW V, "void" \notin V
  PROVE  LET t == s \o [j \in 1 .. k + 1 - Len(s) |-> "void"]
         IN  /\ t \in Seq(Values) /\ k + 1 \in 1 .. Len(t)
             /\ t[k + 1] = IF k < Len(s) THEN s[k + 1] ELSE "void"
             /\ Count(t, V) = Count(s, V)
<1> DEFINE pad == [j \in 1 .. k + 1 - Len(s) |-> "void"]
           n == IF k < Len(s) THEN 0 ELSE k + 1 - Len(s)
           t == s \o pad
<1>1. n \in Nat /\ 1 .. k + 1 - Len(s) = 1 .. n
  OBVIOUS
<1>2. pad = [j \in 1 .. n |-> "void"]
  BY <1>1
<1>3. pad \in Seq(Values) /\ Len(pad) = n /\ \A j \in 1 .. n : pad[j] = "void"
  <2>1. "void" \in Values
    BY DEF Values, Plain
  <2> HIDE DEF n
  <2>2. [j \in 1 .. n |-> "void"] \in Seq(Values) /\ Len([j \in 1 .. n |-> "void"]) = n
    BY <1>1, <2>1
  <2> QED BY <1>2, <2>2
<1> HIDE DEF pad
<1>4. /\ t \in Seq(Values) /\ Len(t) = Len(s) + n
      /\ \A j \in 1 .. Len(s) + n : t[j] = IF j <= Len(s) THEN s[j] ELSE pad[j - Len(s)]
  BY <1>1, <1>3
<1> HIDE DEF t
<1>5. \A j \in 1 .. Len(s) + n : t[j] = IF j <= Len(s) THEN s[j] ELSE "void"
  BY <1>1, <1>3, <1>4
<1>6. Where(t, V) = Where(s, V)
  BY <1>1, <1>4, <1>5 DEF Where
<1>7. k + 1 \in 1 .. Len(t) /\ t[k + 1] = IF k < Len(s) THEN s[k + 1] ELSE "void"
  BY <1>4, <1>5
<1> QED BY <1>4, <1>6, <1>7 DEF Count, t, pad

LEMMA JoinFact ==
  ASSUME NEW s \in Seq(Values), NEW t \in Seq(Values)
  PROVE  /\ s \o t \in Seq(Values) /\ Len(s \o t) = Len(s) + Len(t)
         /\ \A j \in 1 .. Len(s) + Len(t) : (s \o t)[j] = IF j <= Len(s) THEN s[j] ELSE t[j - Len(s)]
OBVIOUS

\* An element is removed and those behind it move down.
LEMMA CountRemoved ==
  ASSUME NEW s \in Seq(Values), NEW V, NEW i \in 1 .. Len(s)
  PROVE  /\ RemoveAt(s, i) \in Seq(Values)
         /\ Count(RemoveAt(s, i), V) = Count(s, V) - One(s[i] \in V)
<1> DEFINE front == SubSeq(s, 1, i - 1)
           back == SubSeq(s, i + 1, Len(s))
           t == RemoveAt(s, i)
           Up(j) == IF j < i THEN j ELSE j + 1
<1>1. /\ front \in Seq(Values) /\ Len(front) = i - 1
      /\ \A j \in 1 .. i - 1 : front[j] = s[j]
  OBVIOUS
<1>2. /\ back \in Seq(Values) /\ Len(back) = Len(s) - i
      /\ \A j \in 1 .. Len(s) - i : back[j] = s[i + j]
  OBVIOUS
<1> HIDE DEF front, back
<1>3. t = front \o back
  BY DEF RemoveAt, front, back
<1>4. /\ t \in Seq(Values) /\ Len(t) = Len(s) - 1
      /\ \A j \in 1 .. Len(s) - 1 : t[j] = IF j <= i - 1 THEN front[j] ELSE back[j - (i - 1)]
  <2>1. Len(s) \in Nat /\ i - 1 \in Nat /\ Len(s) - i \in Nat
    OBVIOUS
  <2>2. /\ front \o back \in Seq(Values) /\ Len(front \o back) = Len(front) + Len(back)
        /\ \A j \in 1 .. Len(front) + Len(back) :
             (front \o back)[j] = IF j <= Len(front) THEN front[j] ELSE back[j - Len(front)]
    BY <1>1, <1>2, JoinFact
  <2> QED BY <1>1, <1>2, <1>3, <2>1, <2>2
<1> HIDE DEF t
<1>5. \A j \in 1 .. Len(s) - 1 : t[j] = s[Up(j)] /\ Up(j) \in 1 .. Len(s)
  <2> SUFFICES ASSUME NEW j \in 1 .. Len(s) - 1 PROVE t[j] = s[Up(j)] /\ Up(j) \in 1 .. Len(s)
    OBVIOUS
  <2>1. CASE j < i
    BY <1>1, <1>4, <2>1
  <2>2. CASE ~(j < i)
    <3>1. j - (i - 1) \in 1 .. Len(s) - i /\ i + (j - (i - 1)) = j + 1
      BY <2>2
    <3>2. back[j - (i - 1)] = s[i + (j - (i - 1))]
      BY <1>2, <3>1
    <3> QED BY <1>4, <2>2, <3>1, <3>2
  <2> QED BY <2>1, <2>2
<1>6. ExistsBijection(Where(t, V), Where(s, V) \ {i})
  <2> DEFINE f == [j \in Where(t, V) |-> Up(j)]
  <2>1. f \in [Where(t, V) -> Where(s, V) \ {i}]
    <3>1. ASSUME NEW j \in Where(t, V) PROVE Up(j) \in Where(s, V) \ {i}
      <4>1. j \in 1 .. Len(s) - 1 /\ t[j] \in V
        BY <1>4 DEF Where
      <4>2. Up(j) # i
        BY <4>1
      <4> QED BY <1>5, <4>1, <4>2 DEF Where
    <3> QED BY <3>1
  <2>2. \A x, y \in Where(t, V) : f[x] = f[y] => x = y
    BY <1>4 DEF Where
  <2>3. ASSUME NEW y \in Where(s, V) \ {i} PROVE \E x \in Where(t, V) : f[x] = y
    <3>1. CASE y < i
      BY <1>4, <1>5, <2>3, <3>1 DEF Where
    <3>2. CASE i < y
      <4>1. y - 1 \in 1 .. Len(s) - 1 /\ Up(y - 1) = y
        BY <2>3, <3>2 DEF Where
      <4>2. y - 1 \in Where(t, V)
        BY <1>4, <1>5, <2>3, <4>1 DEF Where
      <4> QED BY <4>1, <4>2
    <3> QED BY <2>3, <3>1, <3>2 DEF Where
  <2> HIDE DEF f
  <2> QED BY <2>1, <2>2, <2>3 DEF ExistsBijection, Bijection, Injection, Surjection, IsInjective
<1>7. IsFiniteSet(Where(s, V)) /\ IsFiniteSet(Where(t, V)) /\ Count(s, V) \in Nat
  BY <1>4, WhereFinite
<1>8. Cardinality(Where(t, V)) = Cardinality(Where(s, V) \ {i})
  BY <1>6, <1>7, FS_Bijection
<1>9. i \in Where(s, V) <=> s[i] \in V
  BY DEF Where
<1>10. Cardinality(Where(s, V) \ {i}) = IF i \in Where(s, V) THEN Count(s, V) - 1 ELSE Count(s, V)
  BY <1>7, FS_RemoveElement DEF Count
<1>11. Count(t, V) = IF s[i] \in V THEN Count(s, V) - 1 ELSE Count(s, V)
  BY <1>8, <1>9, <1>10 DEF Count
<1>12. One(s[i] \in V) = IF s[i] \in V THEN 1 ELSE 0
  BY DEF One
<1> QED BY <1>4, <1>7, <1>11, <1>12 DEF t

-----------------------------------------------------------------------------
(***************************************************************************)
(* The inductive invariant.                                                *)
(***************************************************************************)

\* The names an object is stored under.
NamesOf(o) == {k \in Names : alpha[k] = o}

\* Only finitely many, however many names there are.
NamesFinite == \A o \in Stored : IsFiniteSet(NamesOf(o))

\* A method that still works has its array.
LiveMethod == status = "live" => ~methodInvalid

TornKnown == (\E k \in Names : alpha[k] = "torn") => tornOnce

ArrayInv ==
  /\ TypeOK
  /\ NamesFinite
  /\ ObjectsRetained
  /\ LengthCountsElements
  /\ LiveMethod
  /\ TornKnown

Counted == Values \ {"void"}

\* The elements that "length" should count.
LEMMA LengthFact ==
  ASSUME TypeOK
  PROVE  /\ Len(numeric) \in Nat /\ DOMAIN numeric = 1 .. Len(numeric)
         /\ Cardinality({j \in DOMAIN numeric : numeric[j] # "void"}) = Count(numeric, Counted)
<1>1. numeric \in Seq(Values) /\ Len(numeric) \in Nat /\ DOMAIN numeric = 1 .. Len(numeric)
  BY DEF TypeOK
<1>2. {j \in DOMAIN numeric : numeric[j] # "void"} = Where(numeric, Counted)
  BY <1>1 DEF Where, Counted
<1> QED BY <1>1, <1>2 DEF Count

\* What is held of an object, place by place.
HeldIsCounted ==
  \A o \in Stored :
    \E e, n \in Nat, t \in {0, 1} :
      /\ e = Count(numeric, {o}) /\ n = Cardinality(NamesOf(o)) /\ t = One(toStringValue = o)
      /\ Holds(o) = e + n + t

LEMMA HoldsFact == TypeOK /\ NamesFinite => HeldIsCounted
<1> SUFFICES ASSUME TypeOK, NamesFinite, NEW o \in Stored
             PROVE  /\ Count(numeric, {o}) \in Nat /\ Cardinality(NamesOf(o)) \in Nat
                    /\ One(toStringValue = o) \in {0, 1}
                    /\ Holds(o) = Count(numeric, {o}) + Cardinality(NamesOf(o)) + One(toStringValue = o)
  BY DEF HeldIsCounted
<1>1. numeric \in Seq(Values) /\ DOMAIN numeric = 1 .. Len(numeric)
  BY DEF TypeOK
<1>2. {j \in DOMAIN numeric : numeric[j] = o} = Where(numeric, {o})
  BY <1>1 DEF Where
<1>3. Cardinality(NamesOf(o)) \in Nat
  BY FS_CardinalityType DEF NamesFinite
<1>4. Holds(o) = Count(numeric, {o}) + Cardinality(NamesOf(o)) + One(toStringValue = o)
  BY <1>2 DEF Holds, NamesOf, Count, One
<1> QED BY <1>1, <1>3, <1>4, WhereFinite DEF One

\* A value that is an object has one reference more, any other changes nothing.
LEMMA RetainedFact ==
  ASSUME TypeOK, NEW v
  PROVE  /\ Retained(v) \in [Stored -> Nat]
         /\ \A o \in Stored : Retained(v)[o] = refs[o] + One(o = v)
BY DEF TypeOK, Retained, One

\* What is stored is counted, so it can be released.
LEMMA ReleasedFact ==
  ASSUME TypeOK, NEW v, v \in Stored => refs[v] >= 1
  PROVE  /\ Released(v) \in [Stored -> Nat]
         /\ \A o \in Stored : Released(v)[o] = refs[o] - One(o = v)
BY DEF TypeOK, Released, One

\* A name gets another value.
LEMMA NameSet ==
  ASSUME TypeOK, NamesFinite, NEW k \in Names, NEW v \in Values \cup {"torn", "absent"},
         alpha' = [alpha EXCEPT ![k] = v]
  PROVE  /\ NamesFinite'
         /\ alpha' \in [Names -> Values \cup {"torn", "absent"}]
         /\ \A o \in Stored : Cardinality(NamesOf(o)') = Cardinality(NamesOf(o)) + One(o = v) - One(o = alpha[k])
<1>1. /\ alpha' \in [Names -> Values \cup {"torn", "absent"}]
      /\ \A m \in Names : alpha'[m] = IF m = k THEN v ELSE alpha[m]
  BY DEF TypeOK
<1>2. ASSUME NEW o \in Stored
      PROVE  /\ IsFiniteSet(NamesOf(o)')
             /\ Cardinality(NamesOf(o)') = Cardinality(NamesOf(o)) + One(o = v) - One(o = alpha[k])
  <2>1. IsFiniteSet(NamesOf(o)) /\ Cardinality(NamesOf(o)) \in Nat
    BY FS_CardinalityType DEF NamesFinite
  <2>2. k \in NamesOf(o) <=> o = alpha[k]
    BY DEF NamesOf
  <2>3. CASE o = v
    <3>1. NamesOf(o)' = NamesOf(o) \cup {k}
      BY <1>1, <2>3 DEF NamesOf
    <3>2. /\ IsFiniteSet(NamesOf(o) \cup {k})
          /\ Cardinality(NamesOf(o) \cup {k}) =
               IF k \in NamesOf(o) THEN Cardinality(NamesOf(o)) ELSE Cardinality(NamesOf(o)) + 1
      BY <2>1, FS_AddElement
    <3> QED BY <2>1, <2>2, <2>3, <3>1, <3>2 DEF One
  <2>4. CASE o # v
    <3>1. NamesOf(o)' = NamesOf(o) \ {k}
      BY <1>1, <2>4 DEF NamesOf
    <3>2. /\ IsFiniteSet(NamesOf(o) \ {k})
          /\ Cardinality(NamesOf(o) \ {k}) =
               IF k \in NamesOf(o) THEN Cardinality(NamesOf(o)) - 1 ELSE Cardinality(NamesOf(o))
      BY <2>1, FS_RemoveElement
    <3> QED BY <2>1, <2>2, <2>4, <3>1, <3>2 DEF One
  <2> QED BY <2>3, <2>4
<1> QED BY <1>1, <1>2 DEF NamesFinite

\* What an action has to show of the references: that they grew with what is held,
\* or that what is no longer held was dropped.
LEMMA Balance ==
  ASSUME ArrayInv, TypeOK', NamesFinite', status = "live", status' = "live", dropped \subseteq dropped',
         \A o \in Stored :
           LET more == Count(numeric, {o})' - Count(numeric, {o})
                       + Cardinality(NamesOf(o)') - Cardinality(NamesOf(o))
                       + One(toStringValue' = o) - One(toStringValue = o)
           IN  IF o \in dropped' THEN refs'[o] - refs[o] >= more ELSE refs'[o] - refs[o] = more
  PROVE  ObjectsRetained'
<1> SUFFICES ASSUME NEW o \in Stored
             PROVE  IF o \in dropped' THEN refs'[o] >= Holds(o)' ELSE refs'[o] = Holds(o)'
  BY DEF ObjectsRetained
<1>0. HeldIsCounted /\ HeldIsCounted'
  <2>1. (TypeOK /\ NamesFinite => HeldIsCounted) /\ (TypeOK /\ NamesFinite => HeldIsCounted)'
    BY HoldsFact, PTL
  <2> QED BY <2>1 DEF ArrayInv
<1>1. PICK e, n \in Nat, t \in {0, 1} :
        /\ e = Count(numeric, {o}) /\ n = Cardinality(NamesOf(o)) /\ t = One(toStringValue = o)
        /\ Holds(o) = e + n + t
  BY <1>0 DEF HeldIsCounted
<1>2. PICK f, m \in Nat, u \in {0, 1} :
        /\ f = Count(numeric, {o})' /\ m = Cardinality(NamesOf(o)') /\ u = One(toStringValue' = o)
        /\ Holds(o)' = f + m + u
  BY <1>0 DEF HeldIsCounted
<1>3. IF o \in dropped THEN refs[o] >= Holds(o) ELSE refs[o] = Holds(o)
  BY DEF ArrayInv, ObjectsRetained
<1>4. refs[o] \in Nat /\ refs'[o] \in Nat
  BY DEF TypeOK, ArrayInv
<1>5. IF o \in dropped' THEN refs'[o] - refs[o] >= f - e + m - n + u - t
      ELSE refs'[o] - refs[o] = f - e + m - n + u - t
  BY <1>1, <1>2
<1>6. CASE o \in dropped'
  <2>1. refs[o] >= e + n + t /\ refs'[o] - refs[o] >= f - e + m - n + u - t
    BY <1>1, <1>3, <1>5, <1>6
  <2>2. refs'[o] >= f + m + u
    BY <1>4, <2>1
  <2> QED BY <1>2, <1>6, <2>2
<1>7. CASE o \notin dropped'
  <2>1. refs[o] = e + n + t /\ refs'[o] - refs[o] = f - e + m - n + u - t
    BY <1>1, <1>3, <1>5, <1>7
  <2>2. refs'[o] = f + m + u
    BY <1>4, <2>1
  <2> QED BY <1>2, <1>7, <2>2
<1> QED BY <1>6, <1>7

LEMMA InitArray == Init => ArrayInv
<1> SUFFICES ASSUME Init PROVE ArrayInv
  OBVIOUS
<1>1. TypeOK
  <2>1. numeric \in Seq(Values) /\ toStringValue \in Stored /\ refs \in [Stored -> Nat]
    BY DEF Init, Stored
  <2>2. alpha \in [Names -> Values \cup {"torn", "absent"}]
    BY DEF Init
  <2>3. /\ length \in Int /\ status \in {"live", "invalid", "freed"}
        /\ fault \subseteq {"freed", "torn", "underrun"} /\ dropped \subseteq Stored
    BY DEF Init
  <2>4. methodKept \in BOOLEAN /\ methodInvalid \in BOOLEAN /\ tornOnce \in BOOLEAN /\ uncounted \in BOOLEAN
    BY DEF Init
  <2> QED BY <2>1, <2>2, <2>3, <2>4 DEF TypeOK
<1>2. \A o \in Stored : NamesOf(o) = {}
  BY ArrayAssumption DEF Init, NamesOf
<1>3. NamesFinite
  BY <1>2, FS_EmptySet DEF NamesFinite
<1>4. \A V : Where(numeric, V) = {} /\ Count(numeric, V) = 0
  <2>1. \A V : Where(numeric, V) = {}
    BY DEF Init, Where
  <2> QED BY <2>1, FS_EmptySet DEF Count
<1>5. ObjectsRetained
  <2> SUFFICES ASSUME NEW o \in Stored PROVE refs[o] = Holds(o)
    BY DEF ObjectsRetained, Init
  <2>1. HeldIsCounted
    BY <1>1, <1>3, HoldsFact
  <2>2. Holds(o) = One(toStringValue = o)
    <3>1. PICK e, n \in Nat, t \in {0, 1} :
            /\ e = Count(numeric, {o}) /\ n = Cardinality(NamesOf(o)) /\ t = One(toStringValue = o)
            /\ Holds(o) = e + n + t
      BY <2>1 DEF HeldIsCounted
    <3>2. e = 0 /\ n = 0
      BY <1>2, <1>4, <3>1, FS_EmptySet
    <3> QED BY <3>1, <3>2
  <2> QED BY <2>2 DEF Init, One
<1>6. LengthCountsElements
  BY <1>1, <1>4, LengthFact DEF LengthCountsElements, Init
<1>7. LiveMethod /\ TornKnown
  BY DEF Init, LiveMethod, TornKnown
<1> QED BY <1>1, <1>3, <1>5, <1>6, <1>7 DEF ArrayInv

-----------------------------------------------------------------------------
(***************************************************************************)
(* One lemma for each action that stores or removes something, and one for *)
(* those that do not.                                                      *)
(***************************************************************************)

\* What is held is referenced.
LEMMA HeldIsReferenced ==
  ASSUME ArrayInv, status = "live", NEW o \in Stored
  PROVE  /\ refs[o] \in Nat
         /\ (\E k \in Names : alpha[k] = o) => refs[o] >= 1
         /\ (\E j \in 1 .. Len(numeric) : numeric[j] = o) => refs[o] >= 1
<1>1. HeldIsCounted
  BY HoldsFact DEF ArrayInv
<1>2. PICK e, n \in Nat, t \in {0, 1} :
        /\ e = Count(numeric, {o}) /\ n = Cardinality(NamesOf(o)) /\ t = One(toStringValue = o)
        /\ Holds(o) = e + n + t
  BY <1>1 DEF HeldIsCounted
<1>3. refs[o] \in Nat /\ refs[o] >= e + n + t
  BY <1>2 DEF ArrayInv, TypeOK, ObjectsRetained
<1>4. ASSUME NEW k \in Names, alpha[k] = o PROVE n # 0
  <2>1. IsFiniteSet(NamesOf(o)) /\ NamesOf(o) # {}
    BY <1>4 DEF NamesOf, ArrayInv, NamesFinite
  <2> QED BY <1>2, <2>1, FS_EmptySet
<1>5. ASSUME NEW j \in 1 .. Len(numeric), numeric[j] = o PROVE e # 0
  <2>1. numeric \in Seq(Values)
    BY DEF ArrayInv, TypeOK
  <2>2. IsFiniteSet(Where(numeric, {o})) /\ Where(numeric, {o}) # {}
    BY <1>5, <2>1, WhereFinite DEF Where
  <2> QED BY <1>2, <2>2, FS_EmptySet DEF Count
<1> QED BY <1>3, <1>4, <1>5

LEMMA QuietKeeps ==
  ASSUME ArrayInv, UNCHANGED <<objectVars, historyVars>>, TypeOK', LiveMethod',
         status' = "freed" <=> status = "freed"
  PROVE  ArrayInv'
<1>1. NamesFinite' /\ TornKnown'
  BY DEF ArrayInv, objectVars, historyVars, NamesFinite, TornKnown, NamesOf
<1>2. \A o : Holds(o)' = Holds(o)
  BY DEF objectVars, Holds
<1>3. ObjectsRetained'
  BY <1>2 DEF ArrayInv, objectVars, historyVars, ObjectsRetained
<1>4. LengthCountsElements'
  BY DEF ArrayInv, objectVars, historyVars, LengthCountsElements
<1> QED BY <1>1, <1>3, <1>4 DEF ArrayInv

LEMMA SetLengthKeeps ==
  ASSUME ArrayInv, SetLength
  PROVE  ArrayInv'
<1>1. /\ length' \in Int /\ uncounted' = TRUE
      /\ UNCHANGED <<numeric, alpha, toStringValue, refs, lifeVars, fault, dropped, tornOnce>>
  BY ArrayAssumption DEF SetLength
<1>2. TypeOK'
  BY <1>1 DEF ArrayInv, TypeOK, lifeVars
<1>3. NamesFinite' /\ TornKnown' /\ LiveMethod'
  BY <1>1 DEF ArrayInv, NamesFinite, TornKnown, LiveMethod, NamesOf, lifeVars
<1>4. ObjectsRetained'
  BY <1>1 DEF ArrayInv, ObjectsRetained, Holds, lifeVars
<1> QED BY <1>1, <1>2, <1>3, <1>4 DEF ArrayInv, LengthCountsElements

LEMMA SetToStringKeeps ==
  ASSUME ArrayInv, SetToString
  PROVE  ArrayInv'
<1>1. PICK v \in Stored : toStringValue' = v /\ refs' = Retained(v)
  BY DEF SetToString
<1>2. /\ status = "live" /\ dropped' = dropped \cup {toStringValue} /\ toStringValue \in Stored
      /\ UNCHANGED <<numeric, alpha, length, lifeVars, fault, tornOnce, uncounted>>
  BY DEF SetToString, Lost, ArrayInv, TypeOK
<1>3. TypeOK /\ refs' \in [Stored -> Nat] /\ \A o \in Stored : refs'[o] = refs[o] + One(o = v)
  BY <1>1, RetainedFact DEF ArrayInv
<1>4. TypeOK'
  BY <1>1, <1>2, <1>3 DEF TypeOK, lifeVars
<1>5. NamesFinite' /\ TornKnown' /\ LiveMethod' /\ LengthCountsElements'
  BY <1>2 DEF ArrayInv, NamesFinite, TornKnown, LiveMethod, LengthCountsElements, NamesOf, lifeVars
<1>6. ObjectsRetained'
  <2>1. \A o \in Stored : Count(numeric, {o})' = Count(numeric, {o})
                          /\ Cardinality(NamesOf(o)') = Cardinality(NamesOf(o))
    BY <1>2 DEF Count, Where, NamesOf
  <2>2. HeldIsCounted
    BY <1>3, HoldsFact DEF ArrayInv
  <2>3. status' = "live" /\ dropped \subseteq dropped'
    BY <1>2 DEF lifeVars
  <2>4. ASSUME NEW o \in Stored
        PROVE  LET more == Count(numeric, {o})' - Count(numeric, {o})
                           + Cardinality(NamesOf(o)') - Cardinality(NamesOf(o))
                           + One(toStringValue' = o) - One(toStringValue = o)
               IN  IF o \in dropped' THEN refs'[o] - refs[o] >= more ELSE refs'[o] - refs[o] = more
    <3>1. PICK e, n \in Nat : e = Count(numeric, {o}) /\ n = Cardinality(NamesOf(o))
      BY <2>2 DEF HeldIsCounted
    <3>2. refs[o] \in Nat /\ refs'[o] = refs[o] + One(o = v)
      BY <1>3 DEF TypeOK
    <3>3. o \notin dropped' => toStringValue # o
      BY <1>2
    <3>4. toStringValue' = v
      BY <1>1
    <3> QED BY <2>1, <3>1, <3>2, <3>3, <3>4 DEF One
  <2> QED BY <1>2, <1>4, <1>5, <2>3, <2>4, Balance
<1> QED BY <1>4, <1>5, <1>6 DEF ArrayInv

\* What changes when a name gets a value, or loses the one it has.
LEMMA NamedKeeps ==
  ASSUME ArrayInv, status = "live", NEW k \in Names, NEW v \in Values \cup {"torn", "absent"},
         alpha' = [alpha EXCEPT ![k] = v],
         refs' \in [Stored -> Nat],
         dropped' \subseteq Stored, dropped \subseteq dropped',
         \A o \in Stored :
           IF o \in dropped' THEN refs'[o] - refs[o] >= One(o = v) - One(o = alpha[k])
           ELSE refs'[o] - refs[o] = One(o = v) - One(o = alpha[k]),
         fault' \subseteq {"freed", "torn", "underrun"},
         tornOnce' \in BOOLEAN, tornOnce \/ v = "torn" => tornOnce',
         UNCHANGED <<numeric, length, toStringValue, lifeVars, uncounted>>
  PROVE  ArrayInv'
<1>1. /\ TypeOK /\ NamesFinite' /\ alpha' \in [Names -> Values \cup {"torn", "absent"}]
      /\ \A o \in Stored : Cardinality(NamesOf(o)') = Cardinality(NamesOf(o)) + One(o = v) - One(o = alpha[k])
  BY NameSet DEF ArrayInv
<1>2. TypeOK'
  BY <1>1 DEF TypeOK, lifeVars
<1>3. LiveMethod' /\ LengthCountsElements'
  BY DEF ArrayInv, LiveMethod, LengthCountsElements, lifeVars
<1>4. TornKnown'
  <2>1. \A m \in Names : alpha'[m] = IF m = k THEN v ELSE alpha[m]
    BY <1>1 DEF TypeOK
  <2> QED BY <2>1 DEF ArrayInv, TornKnown
<1>5. ObjectsRetained'
  <2>1. \A o \in Stored : Count(numeric, {o})' = Count(numeric, {o})
    BY DEF Count, Where
  <2>2. HeldIsCounted
    BY <1>1, HoldsFact DEF ArrayInv
  <2>3. status' = "live"
    BY DEF lifeVars
  <2>4. ASSUME NEW o \in Stored
        PROVE  LET more == Count(numeric, {o})' - Count(numeric, {o})
                           + Cardinality(NamesOf(o)') - Cardinality(NamesOf(o))
                           + One(toStringValue' = o) - One(toStringValue = o)
               IN  IF o \in dropped' THEN refs'[o] - refs[o] >= more ELSE refs'[o] - refs[o] = more
    <3>1. PICK e, n \in Nat, t \in {0, 1} : /\ e = Count(numeric, {o}) /\ n = Cardinality(NamesOf(o))
                                            /\ t = One(toStringValue = o)
      BY <2>2 DEF HeldIsCounted
    <3>2. refs[o] \in Nat /\ refs'[o] \in Nat
      BY <1>1 DEF TypeOK
    <3>3. One(toStringValue' = o) = t
      BY <3>1
    <3>4. PICK c, d \in {0, 1} : c = One(o = v) /\ d = One(o = alpha[k])
      BY DEF One
    <3> QED BY <1>1, <2>1, <3>1, <3>2, <3>3, <3>4
  <2> QED BY <1>1, <1>2, <2>3, <2>4, Balance
<1> QED BY <1>1, <1>2, <1>3, <1>4, <1>5 DEF ArrayInv

LEMMA SetNamedKeeps ==
  ASSUME ArrayInv, NEW k \in Names, SetNamed(k)
  PROVE  ArrayInv'
<1>1. /\ status = "live" /\ dropped' = Lost(alpha[k])
      /\ UNCHANGED <<numeric, length, toStringValue, lifeVars, fault, uncounted>>
  BY DEF SetNamed
<1>2. PICK v \in Values \cup {"torn"} :
        /\ alpha' = [alpha EXCEPT ![k] = v]
        /\ refs' = Retained(v)
        /\ IF v = "torn" THEN tornOnce' = TRUE ELSE tornOnce' = tornOnce
  <2>1. CASE \E v \in Values : /\ alpha' = [alpha EXCEPT ![k] = v] /\ refs' = Retained(v)
                               /\ UNCHANGED tornOnce
    <3>1. "torn" \notin Values
      BY ArrayAssumption DEF Values, Plain
    <3> QED BY <2>1, <3>1
  <2>2. CASE alpha' = [alpha EXCEPT ![k] = "torn"] /\ tornOnce' = TRUE /\ UNCHANGED refs
    <3>1. Retained("torn") = refs
      BY ArrayAssumption DEF Retained
    <3> QED BY <2>2, <3>1
  <2> QED BY <2>1, <2>2 DEF SetNamed
<1>3. TypeOK /\ refs' \in [Stored -> Nat] /\ \A o \in Stored : refs'[o] = refs[o] + One(o = v) /\ refs[o] \in Nat
  BY <1>2, RetainedFact DEF ArrayInv, TypeOK
<1>4. /\ dropped' \subseteq Stored /\ dropped \subseteq dropped'
      /\ \A o \in Stored : o = alpha[k] => o \in dropped'
      /\ fault' \subseteq {"freed", "torn", "underrun"}
      /\ tornOnce' \in BOOLEAN /\ (tornOnce \/ v = "torn" => tornOnce')
  BY <1>1, <1>2, <1>3 DEF Lost, TypeOK
<1>5. \A o \in Stored :
        IF o \in dropped' THEN refs'[o] - refs[o] >= One(o = v) - One(o = alpha[k])
        ELSE refs'[o] - refs[o] = One(o = v) - One(o = alpha[k])
  BY <1>3, <1>4 DEF One
<1>6. UNCHANGED <<numeric, length, toStringValue, lifeVars, uncounted>>
  BY <1>1
<1>7. status = "live" /\ alpha' = [alpha EXCEPT ![k] = v] /\ v \in Values \cup {"torn", "absent"}
  BY <1>1, <1>2
<1> QED BY <1>3, <1>4, <1>5, <1>6, <1>7, NamedKeeps

LEMMA RemoveNamedKeeps ==
  ASSUME ArrayInv, NEW k \in Names, RemoveNamed(k)
  PROVE  ArrayInv'
<1>1. /\ status = "live" /\ refs' = Released(alpha[k]) /\ alpha' = [alpha EXCEPT ![k] = "absent"]
      /\ fault' = fault \cup ({alpha[k]} \cap {"torn"})
      /\ UNCHANGED <<numeric, length, toStringValue, lifeVars, historyVars>>
  BY DEF RemoveNamed
<1>2. TypeOK
  BY DEF ArrayInv
<1>3. alpha[k] \in Stored => refs[alpha[k]] >= 1
  BY <1>1, HeldIsReferenced
<1>4. refs' \in [Stored -> Nat] /\ \A o \in Stored : refs'[o] = refs[o] - One(o = alpha[k]) /\ refs[o] \in Nat
  BY <1>1, <1>2, <1>3, ReleasedFact DEF TypeOK
<1>5. /\ dropped' \subseteq Stored /\ dropped \subseteq dropped'
      /\ fault' \subseteq {"freed", "torn", "underrun"}
      /\ tornOnce' \in BOOLEAN /\ (tornOnce => tornOnce') /\ uncounted' = uncounted
  BY <1>1, <1>2 DEF historyVars, TypeOK
<1>6. PICK v : v = "absent"
  OBVIOUS
<1>7. v \in Values \cup {"torn", "absent"} /\ (tornOnce \/ v = "torn" => tornOnce')
  BY <1>5, <1>6
<1>8. \A o \in Stored :
        IF o \in dropped' THEN refs'[o] - refs[o] >= One(o = v) - One(o = alpha[k])
        ELSE refs'[o] - refs[o] = One(o = v) - One(o = alpha[k])
  <2>1. \A o \in Stored : o # v
    BY <1>6, ArrayAssumption
  <2> QED BY <1>4, <2>1 DEF One
<1>9. status = "live" /\ alpha' = [alpha EXCEPT ![k] = v]
  BY <1>1, <1>6
<1>10. UNCHANGED <<numeric, length, toStringValue, lifeVars, uncounted>>
  BY <1>1, <1>5
<1> QED BY <1>4, <1>5, <1>7, <1>8, <1>9, <1>10, NamedKeeps

\* What changes when the element b makes room for a, or for none.
Exchange(a, b) ==
  /\ numeric' \in Seq(Values)
  /\ \A o \in Stored : Count(numeric', {o}) = Count(numeric, {o}) + One(o = a) - One(o = b)
  /\ refs' \in [Stored -> Nat]
  /\ dropped' \subseteq Stored /\ dropped \subseteq dropped'
  /\ \A o \in Stored : IF o \in dropped' THEN refs'[o] - refs[o] >= One(o = a) - One(o = b)
                       ELSE refs'[o] - refs[o] = One(o = a) - One(o = b)
  /\ length' \in Int /\ uncounted' \in BOOLEAN
  /\ ~uncounted' => length' = Count(numeric', Counted)
  /\ UNCHANGED <<alpha, toStringValue, lifeVars, fault, tornOnce>>

LEMMA ExchangeKeeps ==
  ASSUME ArrayInv, status = "live", NEW a, NEW b, Exchange(a, b)
  PROVE  ArrayInv'
<1> USE DEF Exchange
<1>1. TypeOK'
  BY DEF ArrayInv, TypeOK, lifeVars
<1>2. NamesFinite' /\ LiveMethod' /\ TornKnown'
  BY DEF ArrayInv, NamesFinite, LiveMethod, TornKnown, NamesOf, lifeVars
<1>3. LengthCountsElements'
  <2>1. (TypeOK => Cardinality({j \in DOMAIN numeric : numeric[j] # "void"}) = Count(numeric, Counted))'
    BY LengthFact, PTL
  <2> QED BY <1>1, <2>1 DEF LengthCountsElements
<1>4. ObjectsRetained'
  <2>1. HeldIsCounted
    BY HoldsFact DEF ArrayInv
  <2>2. status' = "live"
    BY DEF lifeVars
  <2>3. ASSUME NEW o \in Stored
        PROVE  LET more == Count(numeric, {o})' - Count(numeric, {o})
                           + Cardinality(NamesOf(o)') - Cardinality(NamesOf(o))
                           + One(toStringValue' = o) - One(toStringValue = o)
               IN  IF o \in dropped' THEN refs'[o] - refs[o] >= more ELSE refs'[o] - refs[o] = more
    <3>1. PICK e, n \in Nat, t \in {0, 1} : /\ e = Count(numeric, {o}) /\ n = Cardinality(NamesOf(o))
                                            /\ t = One(toStringValue = o)
      BY <2>1 DEF HeldIsCounted
    <3>2. refs[o] \in Nat /\ refs'[o] \in Nat
      BY DEF ArrayInv, TypeOK
    <3>3. One(toStringValue' = o) = t /\ Cardinality(NamesOf(o)') = n
      BY <3>1 DEF NamesOf
    <3>4. PICK c, d \in {0, 1} : c = One(o = a) /\ d = One(o = b)
      BY DEF One
    <3>5. Count(numeric, {o})' = e + c - d
      BY <3>1, <3>4
    <3> QED BY <3>1, <3>2, <3>3, <3>4, <3>5
  <2> QED BY <1>1, <1>2, <2>2, <2>3, Balance
<1> QED BY <1>1, <1>2, <1>3, <1>4 DEF ArrayInv

\* The references on a copy, and what it is written over.
LEMMA SetIndexedKeeps ==
  ASSUME ArrayInv, NEW k \in Indices, SetIndexed(k)
  PROVE  ArrayInv'
<1>1. status = "live" /\ UNCHANGED <<alpha, toStringValue, lifeVars, fault, tornOnce>>
  BY DEF SetIndexed
<1>2. PICK v \in Values :
        /\ refs' = Retained(v)
        /\ IF k < 0
             THEN /\ dropped' = Lost(v)
                  /\ UNCHANGED <<numeric, length, uncounted>>
             ELSE /\ numeric' = [Padded(k) EXCEPT ![k + 1] = v]
                  /\ length' = length + 1
                  /\ dropped' = IF InRange(k) THEN Lost(numeric[k + 1]) ELSE dropped
                  /\ uncounted' = (uncounted \/ v = "void" \/ (InRange(k) /\ numeric[k + 1] # "void"))
  BY DEF SetIndexed
<1>3. TypeOK /\ refs' \in [Stored -> Nat] /\ \A o \in Stored : refs'[o] = refs[o] + One(o = v) /\ refs[o] \in Nat
  BY <1>2, RetainedFact DEF ArrayInv, TypeOK
<1>4. k \in Int
  BY ArrayAssumption
<1>5. CASE k < 0
  <2>1. dropped' = dropped \cup ({v} \cap Stored) /\ UNCHANGED <<numeric, length, uncounted>>
    BY <1>2, <1>5 DEF Lost
  <2>2. TypeOK'
    BY <1>1, <1>3, <2>1 DEF TypeOK, lifeVars
  <2>3. NamesFinite' /\ LiveMethod' /\ TornKnown' /\ LengthCountsElements'
    BY <1>1, <2>1 DEF ArrayInv, NamesFinite, LiveMethod, TornKnown, LengthCountsElements, NamesOf, lifeVars
  <2>4. ObjectsRetained'
    <3>1. \A o : Holds(o)' = Holds(o)
      BY <1>1, <2>1 DEF Holds
    <3>2. ASSUME NEW o \in Stored
          PROVE  IF o \in dropped' THEN refs'[o] >= Holds(o) ELSE refs'[o] = Holds(o)
      <4>1. IF o \in dropped THEN refs[o] >= Holds(o) ELSE refs[o] = Holds(o)
        BY <1>1 DEF ArrayInv, ObjectsRetained
      <4>2. Holds(o) \in Nat
        <5>1. HeldIsCounted
          BY HoldsFact DEF ArrayInv
        <5>2. PICK e, n \in Nat, t \in {0, 1} :
                /\ e = Count(numeric, {o}) /\ n = Cardinality(NamesOf(o)) /\ t = One(toStringValue = o)
                /\ Holds(o) = e + n + t
          BY <5>1 DEF HeldIsCounted
        <5> QED BY <5>2
      <4> QED BY <1>3, <2>1, <4>1, <4>2 DEF One
    <3> QED BY <1>1, <3>1, <3>2 DEF ObjectsRetained, lifeVars
  <2> QED BY <2>2, <2>3, <2>4 DEF ArrayInv
<1>6. CASE k >= 0
  <2>1. PICK t : t = Padded(k)
    OBVIOUS
  <2>2. PICK b : b = t[k + 1]
    OBVIOUS
  <2>3. /\ numeric' = [t EXCEPT ![k + 1] = v] /\ length' = length + 1
        /\ dropped' = IF InRange(k) THEN Lost(numeric[k + 1]) ELSE dropped
        /\ uncounted' = (uncounted \/ v = "void" \/ (InRange(k) /\ numeric[k + 1] # "void"))
    BY <1>2, <1>4, <1>6, <2>1
  <2>4. numeric \in Seq(Values) /\ length \in Int /\ Len(numeric) \in Nat /\ k \in Nat
    BY <1>3, <1>4, <1>6 DEF TypeOK
  <2>5. /\ t \in Seq(Values) /\ k + 1 \in 1 .. Len(t)
        /\ b = IF k < Len(numeric) THEN numeric[k + 1] ELSE "void"
    <3>1. PICK V : V = {}
      OBVIOUS
    <3>2. "void" \notin V
      BY <3>1
    <3> QED BY <2>1, <2>2, <2>4, <3>2, CountPadded DEF Padded
  <2>6. \A V : "void" \notin V => Count(t, V) = Count(numeric, V)
    BY <2>1, <2>4, CountPadded DEF Padded
  <2>7. b = IF InRange(k) THEN numeric[k + 1] ELSE "void"
    BY <2>4, <2>5 DEF InRange
  <2>8. numeric' \in Seq(Values) /\ \A V : Count(numeric', V) = Count(t, V) + One(v \in V) - One(b \in V)
    BY <2>2, <2>3, <2>5, CountSet
  <2>9. \A o \in Stored : Count(numeric', {o}) = Count(numeric, {o}) + One(o = v) - One(o = b)
    <3>1. \A o \in Stored : o # "void"
      BY ArrayAssumption DEF Plain
    <3>2. \A o : One(v \in {o}) = One(o = v) /\ One(b \in {o}) = One(o = b)
      BY DEF One
    <3> QED BY <2>6, <2>8, <3>1, <3>2
  <2>10. dropped' \subseteq Stored /\ dropped \subseteq dropped' /\ \A o \in Stored : o = b => o \in dropped'
    <3>1. "void" \notin Stored
      BY ArrayAssumption DEF Plain
    <3> QED BY <1>3, <2>3, <2>7, <3>1 DEF Lost, TypeOK
  <2>11. \A o \in Stored : IF o \in dropped' THEN refs'[o] - refs[o] >= One(o = v) - One(o = b)
                           ELSE refs'[o] - refs[o] = One(o = v) - One(o = b)
    BY <1>3, <2>10 DEF One
  <2>12. uncounted' \in BOOLEAN
    BY <2>3
  <2>13. ASSUME ~uncounted' PROVE length' = Count(numeric', Counted)
    <3>1. ~uncounted /\ v # "void" /\ b = "void"
      BY <2>3, <2>7, <2>13
    <3>2. length = Count(numeric, Counted)
      BY <1>1, <1>3, <3>1, LengthFact DEF ArrayInv, LengthCountsElements
    <3>3. Count(t, Counted) = Count(numeric, Counted)
      BY <2>6 DEF Counted
    <3>4. Count(numeric', Counted) = Count(t, Counted) + One(v \in Counted) - One(b \in Counted)
      BY <2>8
    <3>5. One(v \in Counted) = 1 /\ One(b \in Counted) = 0
      BY <3>1 DEF One, Counted
    <3> QED BY <2>3, <2>4, <3>2, <3>3, <3>4, <3>5
  <2>14. length' \in Int
    BY <2>3, <2>4
  <2>15. status = "live" /\ numeric' \in Seq(Values) /\ refs' \in [Stored -> Nat]
    BY <1>1, <1>3, <2>8
  <2>16. dropped' \subseteq Stored /\ dropped \subseteq dropped'
    BY <2>10
  <2>17. UNCHANGED <<alpha, toStringValue, lifeVars, fault, tornOnce>>
    BY <1>1
  <2>18. Exchange(v, b)
    BY <2>9, <2>11, <2>12, <2>13, <2>14, <2>15, <2>16, <2>17, Zenon DEF Exchange
  <2> QED BY <1>1, <2>18, ExchangeKeeps
<1> QED BY <1>4, <1>5, <1>6

LEMMA RemoveIndexedKeeps ==
  ASSUME ArrayInv, NEW k \in Indices, RemoveIndexed(k)
  PROVE  ArrayInv'
<1>1. status = "live" /\ length' = length - 1 /\ UNCHANGED <<alpha, toStringValue, lifeVars, fault, dropped, tornOnce>>
  BY DEF RemoveIndexed
<1>2. TypeOK /\ numeric \in Seq(Values) /\ length \in Int /\ Len(numeric) \in Nat /\ k \in Int
  BY ArrayAssumption DEF ArrayInv, TypeOK
<1>3. CASE ~InRange(k)
  <2>1. uncounted' = TRUE /\ UNCHANGED <<refs, numeric>>
    BY <1>3 DEF RemoveIndexed
  <2>2. TypeOK'
    BY <1>1, <1>2, <2>1 DEF TypeOK, lifeVars
  <2>3. NamesFinite' /\ LiveMethod' /\ TornKnown' /\ LengthCountsElements'
    BY <1>1, <2>1 DEF ArrayInv, NamesFinite, LiveMethod, TornKnown, LengthCountsElements, NamesOf, lifeVars
  <2>4. ObjectsRetained'
    BY <1>1, <2>1 DEF ArrayInv, ObjectsRetained, Holds, lifeVars
  <2> QED BY <2>2, <2>3, <2>4 DEF ArrayInv
<1>4. CASE InRange(k)
  <2>1. PICK b : b = numeric[k + 1]
    OBVIOUS
  <2>2. refs' = Released(b) /\ numeric' = RemoveAt(numeric, k + 1) /\ uncounted' = (uncounted \/ b = "void")
    BY <1>4, <2>1 DEF RemoveIndexed
  <2>3. k + 1 \in 1 .. Len(numeric)
    BY <1>2, <1>4 DEF InRange
  <2>4. b \in Stored => refs[b] >= 1
    BY <1>1, <2>1, <2>3, HeldIsReferenced
  <2>5. refs' \in [Stored -> Nat] /\ \A o \in Stored : refs'[o] = refs[o] - One(o = b) /\ refs[o] \in Nat
    BY <1>2, <2>2, <2>4, ReleasedFact DEF TypeOK
  <2>6. numeric' \in Seq(Values) /\ \A V : Count(numeric', V) = Count(numeric, V) - One(b \in V) /\ Count(numeric, V) \in Nat
    BY <1>2, <2>1, <2>2, <2>3, CountRemoved, WhereFinite
  <2>7. PICK a : a = "absent"
    OBVIOUS
  <2>8. \A o \in Stored : One(o = a) = 0
    BY <2>7, ArrayAssumption DEF One
  <2>9. \A o \in Stored : Count(numeric', {o}) = Count(numeric, {o}) + One(o = a) - One(o = b)
    <3>1. \A o : One(b \in {o}) = One(o = b) /\ One(o = b) \in {0, 1}
      BY DEF One
    <3>2. ASSUME NEW o \in Stored
          PROVE  Count(numeric', {o}) = Count(numeric, {o}) + One(o = a) - One(o = b)
      <4>1. Count(numeric', {o}) = Count(numeric, {o}) - One(o = b) /\ Count(numeric, {o}) \in Nat
        BY <2>6, <3>1
      <4>2. PICK d \in {0, 1} : d = One(o = b)
        BY <3>1
      <4> QED BY <2>8, <4>1, <4>2
    <3> QED BY <3>2
  <2>10. \A o \in Stored : IF o \in dropped' THEN refs'[o] - refs[o] >= One(o = a) - One(o = b)
                           ELSE refs'[o] - refs[o] = One(o = a) - One(o = b)
    BY <2>5, <2>8 DEF One
  <2>11. uncounted' \in BOOLEAN /\ length' \in Int /\ dropped' \subseteq Stored /\ dropped \subseteq dropped'
    BY <1>1, <1>2, <2>2 DEF TypeOK
  <2>12. ASSUME ~uncounted' PROVE length' = Count(numeric', Counted)
    <3>1. ~uncounted /\ b # "void"
      BY <2>2, <2>12
    <3>4. b \in Values
      BY <1>2, <2>1, <2>3
    <3>2. length = Count(numeric, Counted)
      BY <1>1, <1>2, <3>1, LengthFact DEF ArrayInv, LengthCountsElements
    <3>3. One(b \in Counted) = 1
      BY <3>1, <3>4 DEF One, Counted
    <3> QED BY <1>1, <1>2, <2>6, <3>2, <3>3
  <2>13. UNCHANGED <<alpha, toStringValue, lifeVars, fault, tornOnce>>
    BY <1>1
  <2>14. status = "live" /\ numeric' \in Seq(Values) /\ refs' \in [Stored -> Nat]
    BY <1>1, <2>5, <2>6
  <2>15. Exchange(a, b)
    BY <2>9, <2>10, <2>11, <2>12, <2>13, <2>14, Zenon DEF Exchange
  <2> QED BY <1>1, <2>15, ExchangeKeeps
<1> QED BY <1>3, <1>4

LEMMA FreeKeeps ==
  ASSUME ArrayInv, Free
  PROVE  ArrayInv'
<1>1. /\ status # "freed" /\ status' = "freed" /\ numeric' = <<>> /\ alpha' = [k \in Names |-> "absent"]
      /\ refs' = [o \in Stored |-> refs[o] - Holds(o)]
      /\ fault' = fault \cup ({alpha[k] : k \in Names} \cap {"torn"})
      /\ UNCHANGED <<length, toStringValue, methodKept, methodInvalid, historyVars>>
  BY DEF Free
<1>2. ASSUME NEW o \in Stored
      PROVE  refs'[o] \in Nat /\ (o \notin dropped => refs'[o] = 0)
  <2>1. HeldIsCounted
    BY HoldsFact DEF ArrayInv
  <2>2. PICK e, n \in Nat, t \in {0, 1} :
          /\ e = Count(numeric, {o}) /\ n = Cardinality(NamesOf(o)) /\ t = One(toStringValue = o)
          /\ Holds(o) = e + n + t
    BY <2>1 DEF HeldIsCounted
  <2>3. IF o \in dropped THEN refs[o] >= Holds(o) ELSE refs[o] = Holds(o)
    BY <1>1 DEF ArrayInv, ObjectsRetained
  <2>4. refs[o] \in Nat /\ refs'[o] = refs[o] - Holds(o)
    BY <1>1 DEF ArrayInv, TypeOK
  <2> QED BY <2>2, <2>3, <2>4
<1>3. TypeOK'
  <2>1. refs' \in [Stored -> Nat]
    BY <1>1, <1>2
  <2>2. numeric' \in Seq(Values) /\ alpha' \in [Names -> Values \cup {"torn", "absent"}]
    BY <1>1
  <2> QED BY <1>1, <2>1, <2>2 DEF ArrayInv, TypeOK, historyVars
<1>4. \A k \in Names : alpha'[k] = "absent"
  BY <1>1
<1>5. NamesFinite'
  <2>1. \A o \in Stored : NamesOf(o)' = {}
    BY <1>4, ArrayAssumption DEF NamesOf
  <2> QED BY <2>1, FS_EmptySet DEF NamesFinite
<1>6. ObjectsRetained'
  BY <1>1, <1>2 DEF ObjectsRetained, historyVars
<1>7. LengthCountsElements' /\ LiveMethod' /\ TornKnown'
  BY <1>1, <1>4 DEF LengthCountsElements, LiveMethod, TornKnown
<1> QED BY <1>3, <1>5, <1>6, <1>7 DEF ArrayInv

-----------------------------------------------------------------------------
(***************************************************************************)
(* The theorems.                                                           *)
(***************************************************************************)

\* The actions that store and remove nothing: toString, the method that is kept
\* or given back, a value that is read, the end of the plugin instance.
Quiet ==
  \/ \E k \in Names \cup {"length", "toString"} : Invoke(k)
  \/ \E k \in Names : ReadNamed(k)
  \/ FetchMethod \/ DropMethod \/ CallMethod
  \/ InvalidateAll
  \/ UNCHANGED vars

LEMMA QuietSteps ==
  ASSUME ArrayInv, Quiet
  PROVE  ArrayInv'
<1>1. UNCHANGED <<objectVars, historyVars>> /\ (status' = "freed" <=> status = "freed")
  BY DEF Quiet, Invoke, ReadNamed, FetchMethod, DropMethod, CallMethod, InvalidateAll, CallToString,
         vars, lifeVars
<1>2. LiveMethod'
  BY DEF ArrayInv, Quiet, Invoke, ReadNamed, FetchMethod, DropMethod, CallMethod, InvalidateAll, CallToString,
         vars, lifeVars, LiveMethod
<1>3. TypeOK'
  <2>1. status' \in {"live", "invalid", "freed"} /\ methodKept' \in BOOLEAN /\ methodInvalid' \in BOOLEAN
    BY DEF ArrayInv, TypeOK, Quiet, Invoke, ReadNamed, FetchMethod, DropMethod, CallMethod, InvalidateAll,
           CallToString, vars, lifeVars
  <2>2. fault' \subseteq {"freed", "torn", "underrun"}
    BY DEF ArrayInv, TypeOK, Quiet, Invoke, ReadNamed, FetchMethod, DropMethod, CallMethod, InvalidateAll,
           CallToString, vars
  <2> QED BY <1>1, <2>1, <2>2 DEF ArrayInv, TypeOK, objectVars, historyVars
<1> QED BY <1>1, <1>2, <1>3, QuietKeeps

\* What the invariant says of the array, its members, its kept toString and the
\* references holds for any values, names and calls.
THEOREM ArrayIsKept == Spec => []ArrayInv
<1>1. ArrayInv /\ [Next]_vars => ArrayInv'
  <2> SUFFICES ASSUME ArrayInv, [Next]_vars PROVE ArrayInv'
    OBVIOUS
  <2>1. \/ SetLength \/ SetToString \/ Free \/ Quiet
        \/ \E k \in Names : SetNamed(k) \/ RemoveNamed(k)
        \/ \E k \in Indices : SetIndexed(k) \/ RemoveIndexed(k)
    BY DEF Next, Quiet
  <2> QED BY <2>1, SetLengthKeeps, SetToStringKeeps, FreeKeeps, QuietSteps, SetNamedKeeps, RemoveNamedKeeps,
             SetIndexedKeeps, RemoveIndexedKeeps
<1> QED BY <1>1, InitArray, PTL DEF Spec

\* Whatever is stored and freed, the elements stay values, a member is a value,
\* torn or absent, and no count of references gets negative.
THEOREM ArrayTyping == Spec => []TypeOK
<1>1. ArrayInv => TypeOK
  BY DEF ArrayInv
<1> QED BY <1>1, ArrayIsKept, PTL

\* Every reference in a container is a counted one, whatever is stored, removed,
\* overwritten or torn: the destructor releases nothing twice (SetProperty,
\* RemoveProperty, ~GenericNPObject).
THEOREM Retaining == Spec => []ObjectsRetained
<1>1. ArrayInv => ObjectsRetained
  BY DEF ArrayInv
<1> QED BY <1>1, ArrayIsKept, PTL

\* "length" agrees with the elements until somebody assigns it, sets an element
\* twice or removes one that is not there (SetProperty, RemoveProperty).
THEOREM LengthCounts == Spec => []LengthCountsElements
<1>1. ArrayInv => LengthCountsElements
  BY DEF ArrayInv
<1> QED BY <1>1, ArrayIsKept, PTL

\* After the end of its plugin instance no kept toString reads the array
\* (InvokeDefault, Invalidate).
THEOREM EndedMethod == Spec => EndedMethodIsQuiet
<1>1. ArrayInv /\ [Next]_vars => [methodInvalid /\ fault' # fault => tornOnce]_vars
  <2> SUFFICES ASSUME ArrayInv, Next, methodInvalid, fault' # fault PROVE tornOnce
    OBVIOUS
  <2>1. status # "live"
    BY DEF ArrayInv, LiveMethod
  <2>2. Free
    BY <2>1 DEF Next, SetLength, SetToString, SetNamed, RemoveNamed, ReadNamed, SetIndexed, RemoveIndexed, Invoke,
                FetchMethod, DropMethod, CallMethod, InvalidateAll, CallToString
  <2>3. fault' = fault \cup ({alpha[k] : k \in Names} \cap {"torn"})
    BY <2>2 DEF Free
  <2>4. \E k \in Names : alpha[k] = "torn"
    BY <2>3
  <2> QED BY <2>4 DEF ArrayInv, TornKnown
<1> QED BY <1>1, ArrayIsKept, PTL DEF Spec, EndedMethodIsQuiet
=============================================================================
