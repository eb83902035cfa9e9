-------------------------- MODULE ConversionProofs --------------------------
(***************************************************************************)
(* Proofs about the two modules of variants.cpp.  SafeArrayConversion, for *)
(* arrays of any number of dimensions and elements: what its recursion     *)
(* owns, gives back and puts where.  VariantConversion, for words, texts   *)
(* and arrays of any size: what returns from a trip to a control.          *)
(***************************************************************************)
EXTENDS SafeArrayConversion, VariantConversion, SequenceTheorems, NaturalsInduction,
        WellFoundedInduction, TLAPS

\* A set of natural numbers has a least one; this stands for induction.
LEMMA LeastNumber ==
  ASSUME NEW S \in SUBSET Nat, S # {}
  PROVE  \E m \in S : \A n \in S : m <= n
<1>1. \E R : /\ \A m, n \in Nat : m < n => <<m, n>> \in R
             /\ \E m \in S : \A n \in S : <<n, m>> \notin R
  <2>1. IsWellFoundedOn(OpToRel(<, Nat), Nat)
    BY NatLessThanWellFounded
  <2>2. \A m, n \in Nat : m < n => <<m, n>> \in OpToRel(<, Nat)
    BY DEF OpToRel
  <2>3. \E m \in S : \A n \in S : ~(<<n, m>> \in OpToRel(<, Nat))
    BY <2>1, WFMin
  <2> QED BY <2>2, <2>3, Zenon
<1>2. PICK R : /\ \A m, n \in Nat : m < n => <<m, n>> \in R
               /\ \E m \in S : \A n \in S : <<n, m>> \notin R
  BY <1>1
<1>3. PICK m \in S : \A n \in S : <<n, m>> \notin R
  BY <1>2
<1>4. \A n \in S : n \in Nat /\ m \in Nat /\ ~(n < m)
  BY <1>2, <1>3
<1> QED BY <1>4

-----------------------------------------------------------------------------
(***************************************************************************)
(* SafeArrayConversion: who owns the objects.                              *)
(***************************************************************************)

Calls(S) == [object : Nat \ {0}, elements : S]

\* Each active call fills an object of its own; inner calls have later ones, and
\* the outermost one has the first.
CallsInv ==
  /\ \E S : frames \in Seq(Calls(S))
  /\ refs \in Seq({0, 1})
  /\ lost \subseteq 1 .. Len(refs)
  /\ \A d \in 1 .. Dim : frames[d].object \in 1 .. Len(refs)
  /\ \A d, e \in 1 .. Dim : d < e => frames[d].object < frames[e].object
  /\ Dim > 0 => frames[1].object = 1

\* While the calls are left, the objects from some number on are released, but for
\* the lost ones; the object of the innermost call comes before them.
Released(cut) == \A m \in 1 .. Len(refs) : refs[m] = IF m >= cut /\ m \notin lost THEN 0 ELSE 1

OwnInv ==
  /\ phase \in {"start", "run", "failing", "null", "object"}
  /\ array \in Arrays
  /\ Dim > 0 <=> phase \in {"run", "failing"}
  /\ phase = "start" => refs = <<>> /\ lost = {}
  /\ phase \in {"run", "object"} => \A m \in 1 .. Len(refs) : refs[m] = 1
  /\ phase = "failing" => \E cut \in Nat : frames[Dim].object < cut /\ Released(cut)
  /\ phase = "null" => \A m \in 1 .. Len(refs) : m \in lost \/ refs[m] = 0

\* The array is locked and the vector there from the start to the end, unless
\* there was no memory for the vector.
LockInv ==
  /\ phase = "start" => locks = 0 /\ indices = <<>>
  /\ phase = "run" => locks = 1 /\ DOMAIN indices # {}
  /\ phase = "failing" => outOfMemory \/ (locks = 1 /\ DOMAIN indices # {})
  /\ phase = "null" => outOfMemory \/ (locks = 0 /\ indices = <<>>)

ConversionInv == CallsInv /\ OwnInv /\ LockInv

LEMMA ConversionInit == Init => ConversionInv
<1> SUFFICES ASSUME Init PROVE ConversionInv
  OBVIOUS
<1>1. frames \in Seq(Calls({})) /\ refs \in Seq({0, 1}) /\ Dim = 0
  BY DEF Init, Dim
<1>2. CallsInv
  <2>1. \E S : frames \in Seq(Calls(S))
    BY <1>1
  <2>2. lost \subseteq 1 .. Len(refs)
    BY DEF Init
  <2> QED BY <1>1, <2>1, <2>2 DEF CallsInv
<1>3. OwnInv /\ LockInv
  BY <1>1 DEF Init, OwnInv, LockInv
<1> QED BY <1>2, <1>3 DEF ConversionInv

-----------------------------------------------------------------------------
(***************************************************************************)
(* How the calls change.                                                   *)
(***************************************************************************)

LEMMA SeqGrows ==
  ASSUME NEW S, NEW T, S \subseteq T, NEW s \in Seq(S)
  PROVE  s \in Seq(T)
OBVIOUS

LEMMA FrontOf ==
  ASSUME NEW S, NEW s \in Seq(S), Len(s) > 0
  PROVE  /\ Front(s) \in Seq(S) /\ Len(Front(s)) = Len(s) - 1
         /\ \A d \in 1 .. Len(s) - 1 : Front(s)[d] = s[d]
<1> DEFINE n == Len(s) - 1
<1>1. n \in Nat /\ n - 1 + 1 = n /\ \A d \in 1 .. n : s[d] \in S /\ 1 + d - 1 = d
  OBVIOUS
<1>2. /\ SubSeq(s, 1, n) \in Seq(S)
      /\ Len(SubSeq(s, 1, n)) = IF 1 <= n THEN n - 1 + 1 ELSE 0
      /\ \A d \in 1 .. n - 1 + 1 : SubSeq(s, 1, n)[d] = s[1 + d - 1]
  <2> HIDE DEF n
  <2> QED BY <1>1, SubSeqProperties
<1>3. Len(Front(s)) = n /\ \A d \in 1 .. n : Front(s)[d] = s[d]
  BY <1>1, <1>2 DEF Front
<1> QED BY <1>2, <1>3 DEF Front

\* A new call gets a new object.
LEMMA CreateKeeps ==
  ASSUME CallsInv, Create, lost' = lost, frames = <<>> => refs = <<>>
  PROVE  /\ CallsInv' /\ Dim' = Dim + 1 /\ Dim \in Nat
         /\ Len(refs') = Len(refs) + 1
         /\ refs'[Len(refs')] = 1
         /\ \A m \in 1 .. Len(refs) : refs'[m] = refs[m]
         /\ frames'[Dim'].object = Len(refs')
<1>1. PICK S : frames \in Seq(Calls(S))
  BY DEF CallsInv
<1> DEFINE T == S \cup {<<>>}
           call == [object |-> Len(refs) + 1, elements |-> <<>>]
<1>2. refs \in Seq({0, 1}) /\ Len(refs) \in Nat /\ Dim \in Nat
  BY <1>1 DEF CallsInv, Dim
<1>3. call \in Calls(T) /\ call.object = Len(refs) + 1
  BY <1>2 DEF Calls
<1>4. frames \in Seq(Calls(T))
  <2>1. Calls(S) \subseteq Calls(T)
    BY DEF Calls
  <2> QED BY <1>1, <2>1, SeqGrows
<1>5. /\ frames' \in Seq(Calls(T)) /\ Len(frames') = Len(frames) + 1
      /\ \A d \in 1 .. Len(frames) : frames'[d] = frames[d]
      /\ frames'[Len(frames) + 1] = call
  BY <1>3, <1>4 DEF Create
<1>6. /\ refs' \in Seq({0, 1}) /\ Len(refs') = Len(refs) + 1
      /\ \A m \in 1 .. Len(refs) : refs'[m] = refs[m]
      /\ refs'[Len(refs) + 1] = 1
  BY <1>2 DEF Create
<1> HIDE DEF T, call
<1>7. Dim' = Dim + 1
  BY <1>5 DEF Dim
<1>8. \A d \in 1 .. Dim + 1 : d \in 1 .. Dim \/ d = Dim + 1
  BY <1>2
<1>9. \A d \in 1 .. Dim' : frames'[d].object \in 1 .. Len(refs')
  BY <1>2, <1>3, <1>5, <1>6, <1>7, <1>8 DEF CallsInv, Dim
<1>10. ASSUME NEW d \in 1 .. Dim', NEW e \in 1 .. Dim', d < e
       PROVE  frames'[d].object < frames'[e].object
  <2>1. d \in 1 .. Dim /\ frames'[d] = frames[d] /\ frames[d].object \in 1 .. Len(refs)
    BY <1>2, <1>5, <1>7, <1>10 DEF CallsInv, Dim
  <2>2. CASE e = Dim + 1
    BY <1>2, <1>3, <1>5, <2>1, <2>2 DEF Dim
  <2>3. CASE e \in 1 .. Dim
    BY <1>5, <1>10, <2>1, <2>3 DEF CallsInv, Dim
  <2> QED BY <1>7, <1>8, <2>2, <2>3
<1>11. frames'[1].object = 1
  <2>1. CASE Dim = 0
    <3>1. refs = <<>>
      BY <1>1, <2>1 DEF Dim
    <3> QED BY <1>3, <1>5, <2>1, <3>1 DEF Dim
  <2>2. CASE Dim > 0
    BY <1>2, <1>5, <2>2 DEF CallsInv, Dim
  <2> QED BY <1>2, <2>1, <2>2
<1>12. lost' \subseteq 1 .. Len(refs')
  <2>1. 1 .. Len(refs) \subseteq 1 .. Len(refs')
    BY <1>2, <1>6
  <2> QED BY <2>1 DEF CallsInv
<1>13. CallsInv'
  BY <1>5, <1>6, <1>9, <1>10, <1>11, <1>12 DEF CallsInv
<1> QED BY <1>2, <1>3, <1>5, <1>6, <1>7, <1>13 DEF Dim

\* A call sets an element: no object changes hands.
LEMMA SetKeeps ==
  ASSUME NEW S, NEW calls \in Seq(Calls(S)), NEW d \in 1 .. Len(calls), NEW val,
         SetElement(calls, d, val)
  PROVE  /\ \E T : frames' \in Seq(Calls(T))
         /\ Len(frames') = Len(calls)
         /\ \A e \in 1 .. Len(calls) : frames'[e].object = calls[e].object
         /\ DOMAIN indices' = DOMAIN indices
<1> DEFINE new == With(calls[d].elements, d, val)
           T == S \cup {new}
           call == [calls[d] EXCEPT !.elements = new]
<1>1. calls[d] \in Calls(S) /\ Len(calls) \in Nat
  OBVIOUS
<1>2. call \in Calls(T) /\ call.object = calls[d].object
  BY <1>1 DEF Calls
<1>3. Calls(S) \subseteq Calls(T)
  BY DEF Calls
<1>4. calls \in Seq(Calls(T))
  BY <1>3, SeqGrows
<1>5. frames' = [calls EXCEPT ![d] = call] \/ frames' = calls
  BY DEF SetElement
<1> HIDE DEF new, call, T
<1>6. /\ frames' \in Seq(Calls(T)) /\ Len(frames') = Len(calls)
      /\ \A e \in 1 .. Len(calls) : frames'[e] = calls[e] \/ (e = d /\ frames'[e] = call)
  <2>1. CASE frames' = [calls EXCEPT ![d] = call]
    BY <1>2, <1>4, <2>1
  <2>2. CASE frames' = calls
    BY <1>4, <2>2
  <2> QED BY <1>5, <2>1, <2>2
<1>7. DOMAIN indices' = DOMAIN indices
  BY DEF SetElement
<1> QED BY <1>2, <1>6, <1>7

\* The innermost call is left.
LEMMA FrontKeeps ==
  ASSUME CallsInv, Dim > 0
  PROVE  /\ \E S : Front(frames) \in Seq(Calls(S))
         /\ Dim \in Nat \ {0} /\ Dim - 1 \in Nat
         /\ Len(Front(frames)) = Dim - 1
         /\ \A d \in 1 .. Dim - 1 : Front(frames)[d] = frames[d] /\ d \in 1 .. Dim
         /\ Last(frames) = frames[Dim]
<1>1. PICK S : frames \in Seq(Calls(S))
  BY DEF CallsInv
<1>2. Dim \in Nat \ {0} /\ Dim - 1 \in Nat
  BY <1>1 DEF CallsInv, Dim
<1>3. /\ Front(frames) \in Seq(Calls(S)) /\ Len(Front(frames)) = Dim - 1
      /\ \A d \in 1 .. Dim - 1 : Front(frames)[d] = frames[d]
  BY <1>1, <1>2, FrontOf DEF Dim
<1>4. \A d \in 1 .. Dim - 1 : d \in 1 .. Dim
  BY <1>2
<1> QED BY <1>2, <1>3, <1>4 DEF Last, Dim

\* Calls of which some are left, or none.
LEMMA FewerCalls ==
  ASSUME CallsInv, \E S : frames' \in Seq(Calls(S)), refs' \in Seq({0, 1}), Len(refs') = Len(refs),
         lost' \subseteq 1 .. Len(refs'),
         Dim' <= Dim, \A d \in 1 .. Dim' : frames'[d].object = frames[d].object
  PROVE  CallsInv'
<1>1. PICK S : frames \in Seq(Calls(S))
  BY DEF CallsInv
<1>2. PICK T : frames' \in Seq(Calls(T))
  OBVIOUS
<1>3. Dim \in Nat /\ Dim' \in Nat
  BY <1>1, <1>2 DEF Dim
<1>4. \A d \in 1 .. Dim' : d \in 1 .. Dim
  BY <1>3
<1>5. Dim' > 0 => 1 \in 1 .. Dim' /\ Dim > 0
  BY <1>3
<1> QED BY <1>2, <1>4, <1>5 DEF CallsInv

-----------------------------------------------------------------------------
LEMMA ConversionStep == ConversionInv /\ [Next]_vars => ConversionInv'
<1> SUFFICES ASSUME ConversionInv, [Next]_vars PROVE ConversionInv'
  OBVIOUS
<1> USE DEF ConversionInv
<1>0. PICK S : frames \in Seq(Calls(S))
  BY DEF CallsInv
<1>a. /\ Dim \in Nat /\ refs \in Seq({0, 1}) /\ Len(refs) \in Nat /\ cDims > 0
      /\ DOMAIN refs = 1 .. Len(refs)
  BY <1>0, ArraysAssumption DEF CallsInv, OwnInv, Dim, cDims
<1>1. CASE UNCHANGED vars
  BY <1>1 DEF vars, CallsInv, OwnInv, LockInv, Dim, cDims, Released
<1>b. array' = array /\ cDims' = cDims /\ lost \subseteq 1 .. Len(refs)
  BY DEF Next, vars, Start, GetElement, Recurse, Break, Return, Finish, Unwind, cDims, CallsInv
<1>2. CASE Start
  <2>1. refs = <<>> /\ Len(refs) = 0 /\ Dim = 0 /\ frames = <<>> /\ locks = 0 /\ indices = <<>>
        /\ lost = {} /\ lost' = {}
    BY <1>0, <1>a, <1>2 DEF Start, OwnInv, LockInv, Dim
  <2>2. CASE phase' = "null"
    <3>1. UNCHANGED <<frames, refs, indices, locks, outOfMemory, array>>
      BY <1>2, <2>2 DEF Start
    <3>2. CallsInv'
      BY <2>1, <3>1 DEF CallsInv, Dim
    <3> QED BY <2>1, <2>2, <3>1, <3>2 DEF OwnInv, LockInv, Dim
  <2>3. CASE phase' # "null"
    <3>1. /\ Create /\ locks' = 1 /\ array' = array
          /\ \/ phase' = "run" /\ indices' = [d \in 1 .. cDims |-> 0]
             \/ phase' = "failing" /\ outOfMemory'
      BY <1>2, <2>1, <2>3 DEF Start
    <3>2. CallsInv' /\ Dim' = 1 /\ Len(refs') = 1 /\ refs'[1] = 1 /\ frames'[1].object = 1
      <4>1. /\ CallsInv' /\ Dim' = Dim + 1 /\ Len(refs') = Len(refs) + 1 /\ refs'[Len(refs')] = 1
            /\ frames'[Dim'].object = Len(refs')
        BY <2>1, <3>1, CreateKeeps
      <4> QED BY <2>1, <4>1
    <3>3. \A m \in 1 .. Len(refs') : refs'[m] = 1
      BY <3>2
    <3>4. frames'[Dim'].object < 2 /\ Released(2)'
      BY <3>2, <3>3 DEF Released
    <3>5. 1 \in 1 .. cDims
      BY <1>a, ArraysAssumption DEF OwnInv, cDims
    <3>6. phase' = "run" => DOMAIN indices' # {}
      BY <3>1, <3>5
    <3>7. OwnInv'
      BY <3>1, <3>2, <3>3, <3>4 DEF OwnInv
    <3> QED BY <2>1, <3>1, <3>2, <3>6, <3>7 DEF LockInv
  <2> QED BY <2>2, <2>3
<1>3. CASE GetElement
  <2>1. phase = "run" /\ Dim > 0 /\ UNCHANGED <<array, locks, refs, phase, outOfMemory>>
    BY <1>3 DEF GetElement, InLoop, OwnInv
  <2>2. PICK val : SetElement(frames, Dim, val)
    BY <1>3 DEF GetElement
  <2>3. Dim \in 1 .. Len(frames)
    BY <1>a, <2>1 DEF Dim
  <2>4. /\ \E T : frames' \in Seq(Calls(T))
        /\ Dim' = Dim /\ DOMAIN indices' = DOMAIN indices
        /\ \A e \in 1 .. Dim : frames'[e].object = frames[e].object
    BY <1>0, <2>2, <2>3, SetKeeps DEF Dim
  <2>5. lost' = lost
    BY <1>3 DEF GetElement
  <2>6. CallsInv'
    BY <1>a, <1>b, <2>1, <2>4, <2>5, FewerCalls
  <2> QED BY <1>b, <2>1, <2>4, <2>5, <2>6 DEF OwnInv, LockInv
<1>4. CASE Recurse
  <2>1. phase = "run" /\ Dim > 0 /\ UNCHANGED <<array, locks, lost, phase, outOfMemory>>
    BY <1>4 DEF Recurse, InLoop, OwnInv
  <2>2. frames # <<>>
    BY <1>0, <2>1 DEF Dim
  <2>3. /\ CallsInv' /\ Dim' = Dim + 1 /\ Len(refs') = Len(refs) + 1 /\ refs'[Len(refs')] = 1
        /\ \A m \in 1 .. Len(refs) : refs'[m] = refs[m]
    BY <1>4, <2>1, <2>2, CreateKeeps DEF Recurse
  <2>4. \A m \in 1 .. Len(refs') : m \in 1 .. Len(refs) \/ m = Len(refs')
    BY <1>a, <2>3
  <2>5. \A m \in 1 .. Len(refs') : refs'[m] = 1
    BY <2>1, <2>3, <2>4 DEF OwnInv
  <2>6. DOMAIN indices' = DOMAIN indices
    BY <1>4 DEF Recurse
  <2>7. Dim' > 0
    BY <1>a, <2>3
  <2> QED BY <1>b, <2>1, <2>3, <2>5, <2>6, <2>7 DEF OwnInv, LockInv
<1>5. CASE Break
  <2>1. phase = "run" /\ Dim > 0 /\ phase' = "failing" /\ UNCHANGED <<array, frames, indices, locks, refs, lost, outOfMemory>>
    BY <1>5 DEF Break, InLoop, OwnInv
  <2>2. CallsInv' /\ Dim' = Dim
    BY <2>1 DEF CallsInv, Dim
  <2>3. Len(refs) + 1 \in Nat /\ frames[Dim].object < Len(refs) + 1 /\ Released(Len(refs) + 1)
    <3>1. Dim \in 1 .. Dim
      BY <1>a, <2>1
    <3>2. frames[Dim].object \in 1 .. Len(refs)
      BY <3>1 DEF CallsInv
    <3>3. \A m \in 1 .. Len(refs) : refs[m] = 1 /\ ~(m >= Len(refs) + 1)
      BY <1>a, <2>1 DEF OwnInv
    <3> QED BY <1>a, <3>2, <3>3 DEF Released
  <2>4. \E cut \in Nat : frames'[Dim'].object < cut /\ Released(cut)'
    BY <2>1, <2>2, <2>3 DEF Released
  <2> QED BY <1>b, <2>1, <2>2, <2>4 DEF OwnInv, LockInv
<1>6. CASE Return
  <2>1. phase = "run" /\ Dim > 1 /\ UNCHANGED <<array, locks, refs, phase, outOfMemory>>
    BY <1>6 DEF Return
  <2>2. PICK T : Front(frames) \in Seq(Calls(T))
    BY <1>a, <2>1, FrontKeeps
  <2>3. PICK val : SetElement(Front(frames), Dim - 1, val)
    BY <1>6 DEF Return
  <2>4. Dim > 0 /\ Len(Front(frames)) = Dim - 1 /\ Dim - 1 \in 1 .. Dim - 1
        /\ \A d \in 1 .. Dim - 1 : Front(frames)[d] = frames[d] /\ d \in 1 .. Dim
    BY <1>a, <2>1, FrontKeeps
  <2>5. /\ \E U : frames' \in Seq(Calls(U))
        /\ Dim' = Dim - 1 /\ DOMAIN indices' = DOMAIN indices
        /\ \A e \in 1 .. Dim - 1 : frames'[e].object = frames[e].object
    <3>1. PICK calls \in Seq(Calls(T)), d \in 1 .. Dim - 1 : calls = Front(frames) /\ d = Dim - 1
      BY <2>2, <2>4
    <3>2. Len(calls) = Dim - 1 /\ d \in 1 .. Len(calls) /\ SetElement(calls, d, val)
      BY <2>3, <2>4, <3>1
    <3>3. /\ \E U : frames' \in Seq(Calls(U))
          /\ Len(frames') = Len(calls) /\ DOMAIN indices' = DOMAIN indices
          /\ \A e \in 1 .. Len(calls) : frames'[e].object = calls[e].object
      BY <3>2, SetKeeps
    <3>4. \A e \in 1 .. Dim - 1 : frames'[e].object = frames[e].object
      BY <2>4, <3>1, <3>2, <3>3
    <3>5. Dim' = Dim - 1
      BY <3>2, <3>3 DEF Dim
    <3> QED BY <3>3, <3>4, <3>5
  <2>6. lost' \subseteq 1 .. Len(refs)
    <3>1. Last(frames).object \in 1 .. Len(refs)
      BY <1>a, <2>1, FrontKeeps DEF CallsInv
    <3>2. Last(frames).object .. Len(refs) \subseteq 1 .. Len(refs)
      BY <1>a, <3>1
    <3> QED BY <1>6, <1>b, <3>2 DEF Return
  <2>7. CallsInv'
    BY <1>a, <2>1, <2>5, <2>6, FewerCalls
  <2>8. Dim' > 0
    BY <1>a, <2>1, <2>5
  <2> QED BY <1>b, <2>1, <2>5, <2>7, <2>8 DEF OwnInv, LockInv
<1>7. CASE Finish
  <2>1. /\ phase = "run" /\ phase' = "object" /\ frames' = <<>>
        /\ UNCHANGED <<array, indices, locks, refs, lost, outOfMemory>>
    BY <1>7 DEF Finish
  <2>2. Dim' = 0 /\ frames' \in Seq(Calls({}))
    BY <2>1 DEF Dim
  <2>3. CallsInv'
    <3>1. \E U : frames' \in Seq(Calls(U))
      BY <2>2
    <3> QED BY <1>a, <1>b, <2>1, <2>2, <3>1, FewerCalls
  <2> QED BY <1>b, <2>1, <2>2, <2>3 DEF OwnInv, LockInv
<1>8. CASE Unwind
  <2>1. /\ phase = "failing" /\ Dim > 0 /\ frames' = Front(frames) /\ UNCHANGED <<array, lost, outOfMemory>>
        /\ refs' = ReleaseObject(Last(frames).object)
    BY <1>8 DEF Unwind, OwnInv
  <2>2. /\ \E U : Front(frames) \in Seq(Calls(U))
        /\ Dim \in Nat \ {0} /\ Dim - 1 \in Nat
        /\ Len(Front(frames)) = Dim - 1
        /\ \A d \in 1 .. Dim - 1 : Front(frames)[d] = frames[d] /\ d \in 1 .. Dim
        /\ Last(frames) = frames[Dim]
    BY <2>1, FrontKeeps
  <2>3. PICK cut \in Nat : frames[Dim].object < cut /\ Released(cut)
    BY <2>1 DEF OwnInv
  <2>n. PICK n \in Nat : n = frames[Dim].object
    <3>1. Dim \in 1 .. Dim
      BY <2>2
    <3>2. frames[Dim].object \in 1 .. Len(refs)
      BY <3>1 DEF CallsInv
    <3> QED BY <1>a, <3>2
  <2>4. n \in 1 .. Len(refs) /\ Dim \in 1 .. Dim
    BY <2>2, <2>n DEF CallsInv
  <2>5. refs' \in Seq({0, 1}) /\ Len(refs') = Len(refs)
        /\ \A m \in 1 .. Len(refs) : refs'[m] = IF m >= n /\ m \notin lost THEN 0 ELSE 1
    <3>1. refs' = [m \in 1 .. Len(refs) |->
                     IF m >= n /\ m \notin lost /\ refs[m] > 0 THEN refs[m] - 1 ELSE refs[m]]
      BY <1>a, <2>1, <2>2, <2>n DEF ReleaseObject
    <3>2. \A m \in 1 .. Len(refs) :
            (IF m >= n /\ m \notin lost /\ refs[m] > 0 THEN refs[m] - 1 ELSE refs[m])
              = IF m >= n /\ m \notin lost THEN 0 ELSE 1
      BY <1>a, <2>n, <2>3, <2>4 DEF Released
    <3>3. refs' = [m \in 1 .. Len(refs) |-> IF m >= n /\ m \notin lost THEN 0 ELSE 1]
      BY <3>1, <3>2
    <3> QED BY <1>a, <3>3
  <2>6. Dim' = Dim - 1
    BY <2>1, <2>2 DEF Dim
  <2>7. CallsInv'
    BY <1>b, <2>1, <2>2, <2>5, <2>6, FewerCalls
  <2>8. CASE Dim > 1
    <3>1. phase' = "failing" /\ UNCHANGED <<indices, locks>>
      BY <1>8, <2>1, <2>8 DEF Unwind
    <3>2. Dim' > 0 /\ Dim' \in 1 .. Dim /\ Dim' < Dim /\ frames'[Dim'] = frames[Dim']
      BY <2>1, <2>2, <2>6, <2>8
    <3>3. frames'[Dim'].object < n
      BY <2>n, <2>4, <3>2 DEF CallsInv
    <3>4. n \in Nat /\ Released(n)'
      BY <2>1, <2>4, <2>5, <1>a DEF Released
    <3>5. \E c \in Nat : frames'[Dim'].object < c /\ Released(c)'
      BY <3>3, <3>4
    <3>6. OwnInv'
      BY <2>1, <3>1, <3>2, <3>5 DEF OwnInv
    <3> QED BY <1>b, <2>1, <2>7, <3>1, <3>6 DEF LockInv
  <2>9. CASE Dim = 1
    <3>1. /\ phase' = "null" /\ indices' = <<>>
          /\ locks' = IF indices = <<>> THEN locks ELSE locks - 1
      BY <1>8, <2>9 DEF Unwind
    <3>2. n = 1
      BY <2>n, <2>9 DEF CallsInv
    <3>3. \A m \in 1 .. Len(refs') : m \in lost' \/ refs'[m] = 0
      BY <2>1, <2>5, <3>2
    <3>4. OwnInv'
      BY <2>1, <2>6, <2>9, <3>1, <3>3 DEF OwnInv
    <3>5. outOfMemory \/ (locks = 1 /\ indices # <<>>)
      <4>1. indices = <<>> => DOMAIN indices = {}
        OBVIOUS
      <4> QED BY <2>1, <4>1 DEF LockInv
    <3> QED BY <1>b, <2>1, <2>7, <3>1, <3>4, <3>5 DEF LockInv
  <2> QED BY <2>2, <2>8, <2>9
<1> QED BY <1>1, <1>2, <1>3, <1>4, <1>5, <1>6, <1>7, <1>8 DEF Next

-----------------------------------------------------------------------------
\* The invariant holds for all arrays.
THEOREM Converting == Spec => []ConversionInv
BY ConversionInit, ConversionStep, PTL DEF Spec

-----------------------------------------------------------------------------
(***************************************************************************)
(* SafeArrayConversion: what a converted array holds.                      *)
(***************************************************************************)

Dims(a) == Len(a.cElements)
\* The objects for arrays of m dimensions, made of those for one dimension less.
Layer(a, m, inner) ==
  [v \in [1 .. Dims(a) - m -> Nat] |->
     IF m = 0 THEN IF a.supported THEN v ELSE <<>>
     ELSE [key \in Keys(a, v, Dims(a) - m + 1) |-> inner[Append(v, key - a.lLbound[Dims(a) - m + 1])]]]

Layers(a, n, layers) ==
  /\ layers = [m \in 0 .. n |-> layers[m]]
  /\ \A m \in 0 .. n : layers[m] = Layer(a, m, layers[m - 1])

\* What stands in a converted array at the indices v.
Object(a, v) == (CHOOSE layers : Layers(a, Dims(a), layers))[Dims(a) - Len(v)][v]

\* The assumption on arrays, for each dimension.
LEMMA ArrayFact ==
  ASSUME NEW a \in Arrays
  PROVE  /\ Dims(a) \in Nat \ {0}
         /\ \A d \in 1 .. Dims(a) : a.lLbound[d] \in Int /\ a.cElements[d] \in Nat
         /\ a.supported \in BOOLEAN
BY ArraysAssumption DEF Dims

\* The objects for every number of dimensions exist; this stands for recursion.
LEMMA LayersExist ==
  ASSUME NEW a \in Arrays, NEW n \in 0 .. Dims(a)
  PROVE  \E layers : Layers(a, n, layers)
<1> DEFINE Exists(m) == \E layers : Layers(a, m, layers)
           Left == {m \in 0 .. Dims(a) : ~Exists(m)}
<1>0. Dims(a) \in Nat
  BY ArrayFact
<1>1. Exists(0)
  <2> DEFINE layers == [m \in 0 .. 0 |-> Layer(a, 0, 0)]
  <2>1. layers = [m \in 0 .. 0 |-> layers[m]]
    OBVIOUS
  <2>2. \A inner : Layer(a, 0, inner) = Layer(a, 0, 0)
    BY DEF Layer
  <2>3. \A m \in 0 .. 0 : m = 0 /\ layers[m] = Layer(a, 0, 0)
    OBVIOUS
  <2> HIDE DEF layers
  <2>4. Layers(a, 0, layers)
    BY <2>1, <2>2, <2>3 DEF Layers
  <2> QED BY <2>4
<1>2. ASSUME NEW m \in 1 .. Dims(a), Exists(m - 1)
      PROVE  Exists(m)
  <2>1. PICK layers : Layers(a, m - 1, layers)
    BY <1>2
  <2> DEFINE next == [k \in 0 .. m |-> IF k < m THEN layers[k] ELSE Layer(a, m, layers[m - 1])]
  <2>2. next = [k \in 0 .. m |-> next[k]]
    OBVIOUS
  <2>3. next[m] = Layer(a, m, layers[m - 1]) /\ \A k \in 0 .. m - 1 : next[k] = layers[k]
    OBVIOUS
  <2> HIDE DEF next
  <2>4. ASSUME NEW k \in 0 .. m PROVE next[k] = Layer(a, k, next[k - 1])
    <3>1. CASE k = m
      <4>1. m - 1 \in 0 .. m - 1
        OBVIOUS
      <4> QED BY <2>3, <3>1, <4>1
    <3>2. CASE k \in 1 .. m - 1
      <4>1. k \in 0 .. m - 1 /\ k - 1 \in 0 .. m - 1
        BY <3>2
      <4> QED BY <2>1, <2>3, <4>1 DEF Layers
    <3>3. CASE k = 0
      <4>1. k \in 0 .. m - 1
        BY <3>3
      <4>2. next[k] = Layer(a, k, layers[k - 1])
        BY <2>1, <2>3, <4>1 DEF Layers
      <4>3. \A inner : Layer(a, k, inner) = Layer(a, 0, 0)
        BY <3>3 DEF Layer
      <4> QED BY <4>2, <4>3
    <3> QED BY <3>1, <3>2, <3>3
  <2>5. Layers(a, m, next)
    BY <2>2, <2>4 DEF Layers
  <2> QED BY <2>5
<1> HIDE DEF Exists
<1>3. Left = {}
  <2> SUFFICES ASSUME Left # {} PROVE FALSE
    OBVIOUS
  <2>1. Left \in SUBSET Nat
    BY <1>0
  <2>2. PICK m \in Left : \A k \in Left : m <= k
    BY <2>1, LeastNumber
  <2>3. m \in 1 .. Dims(a) /\ ~Exists(m)
    BY <1>0, <1>1
  <2>4. m - 1 \in 0 .. Dims(a) /\ ~(m <= m - 1)
    BY <1>0, <2>3
  <2>5. Exists(m - 1)
    BY <2>2, <2>4
  <2> QED BY <1>2, <2>3, <2>5
<1>4. Exists(n)
  BY <1>3
<1> QED BY <1>4 DEF Exists

\* An array of the last dimension on holds one object for each index, and so on
\* down to the elements.
LEMMA ObjectHolds ==
  ASSUME NEW a \in Arrays, NEW n \in 0 .. Dims(a), NEW v \in [1 .. n -> Nat]
  PROVE  Object(a, v) = IF n = Dims(a) THEN IF a.supported THEN v ELSE <<>>
                        ELSE [key \in Keys(a, v, n + 1) |-> Object(a, Append(v, key - a.lLbound[n + 1]))]
<1> DEFINE layers == CHOOSE l : Layers(a, Dims(a), l)
<1>0. /\ Dims(a) \in Nat \ {0} /\ n \in Nat
      /\ \A d \in 1 .. Dims(a) : a.lLbound[d] \in Int /\ a.cElements[d] \in Nat
  BY ArrayFact
<1>1. Layers(a, Dims(a), layers)
  <2>1. Dims(a) \in 0 .. Dims(a)
    BY <1>0
  <2> QED BY <2>1, LayersExist
<1>2. \A w : Object(a, w) = layers[Dims(a) - Len(w)][w]
  BY DEF Object
<1> HIDE DEF layers
<1> DEFINE m == Dims(a) - n
<1>3. m \in 0 .. Dims(a) /\ Dims(a) - m = n /\ Len(v) = n
  BY <1>0
<1>4. Object(a, v) = Layer(a, m, layers[m - 1])[v]
  BY <1>1, <1>2, <1>3 DEF Layers
<1> HIDE DEF m
<1>5. Object(a, v) = IF m = 0 THEN IF a.supported THEN v ELSE <<>>
                     ELSE [key \in Keys(a, v, n + 1) |-> layers[m - 1][Append(v, key - a.lLbound[n + 1])]]
  BY <1>3, <1>4 DEF Layer
<1>6. CASE m = 0
  BY <1>0, <1>3, <1>5, <1>6
<1>7. CASE m # 0
  <2>1. n + 1 \in 1 .. Dims(a) /\ n # Dims(a) /\ Dims(a) - (n + 1) = m - 1
    BY <1>0, <1>3, <1>7
  <2>2. ASSUME NEW key \in Keys(a, v, n + 1)
        PROVE  Object(a, Append(v, key - a.lLbound[n + 1])) = layers[m - 1][Append(v, key - a.lLbound[n + 1])]
    <3>1. Len(Append(v, key - a.lLbound[n + 1])) = n + 1
      <4>1. v \in Seq(Nat)
        BY <1>0
      <4> QED BY <1>3, <4>1
    <3> QED BY <1>2, <2>1, <3>1
  <2> QED BY <1>5, <1>7, <2>1, <2>2
<1> QED BY <1>6, <1>7

-----------------------------------------------------------------------------
\* The indices of the calls around the one of dimension d.
Around(d) == SubSeq(indices, 1, d - 1)

\* The elements that the call of dimension d has set.
SetKeys(d) ==
  {key \in array.lLbound[d] .. array.lLbound[d] + indices[d] - 1 :
     Stored(array, Append(Around(d), key - array.lLbound[d]))}

Filled(d) == [key \in SetKeys(d) |-> Object(array, Append(Around(d), key - array.lLbound[d]))]

FillInv ==
  /\ phase = "run" =>
       /\ indices \in [1 .. cDims -> Nat]
       /\ Dim <= cDims
       /\ \A d \in 1 .. Dim : indices[d] <= array.cElements[d] /\ frames[d].elements = Filled(d)
       /\ \A d \in 1 .. Dim - 1 : indices[d] < array.cElements[d]
  /\ phase = "object" => result = Object(array, <<>>)

\* A vector is a sequence.
LEMMA VectorFact ==
  ASSUME NEW n \in Nat, NEW v \in [1 .. n -> Nat]
  PROVE  v \in Seq(Nat) /\ Len(v) = n
OBVIOUS

\* The indices around, and one more.
LEMMA AroundFact ==
  ASSUME NEW n \in Nat, indices \in [1 .. n -> Nat], NEW d \in 1 .. n
  PROVE  /\ Around(d) \in [1 .. d - 1 -> Nat]
         /\ \A e \in 1 .. d - 1 : Around(d)[e] = indices[e]
         /\ Append(Around(d), indices[d]) = SubSeq(indices, 1, d)
<1>1. indices \in Seq(Nat) /\ Len(indices) = n
  OBVIOUS
<1>2. Around(d) = [e \in 1 .. d - 1 |-> indices[e]]
  BY <1>1 DEF Around
<1>3. SubSeq(indices, 1, d) = [e \in 1 .. d |-> indices[e]]
  BY <1>1
<1>4. d - 1 \in Nat /\ \A e \in 1 .. d - 1 : e \in 1 .. n
  OBVIOUS
<1>5. Around(d) \in [1 .. d - 1 -> Nat]
  BY <1>2, <1>4
<1>6. Append(Around(d), indices[d]) = [e \in 1 .. d |-> indices[e]]
  <2>1. Around(d) \in Seq(Nat) /\ Len(Around(d)) = d - 1
    BY <1>4, <1>5
  <2>2. /\ Append(Around(d), indices[d]) \in Seq(Nat)
        /\ Len(Append(Around(d), indices[d])) = d
        /\ Append(Around(d), indices[d])[d] = indices[d]
        /\ \A e \in 1 .. d - 1 : Append(Around(d), indices[d])[e] = indices[e]
    BY <1>2, <2>1
  <2> HIDE DEF Around
  <2>3. \A e \in 1 .. d : e \in 1 .. d - 1 \/ e = d
    OBVIOUS
  <2> QED BY <2>2, <2>3
<1> QED BY <1>2, <1>3, <1>5, <1>6

\* A call that sets the object of its index has filled one element more; the
\* calls around it have what they had.
LEMMA SetFills ==
  ASSUME NEW S, NEW calls \in Seq(Calls(S)), NEW d \in 1 .. Len(calls),
         array \in Arrays, UNCHANGED array, Len(calls) <= cDims,
         indices \in [1 .. cDims -> Nat],
         SetElement(calls, d, Object(array, SubSeq(indices, 1, d))),
         \A e \in 1 .. d : indices[e] <= array.cElements[e] /\ calls[e].elements = Filled(e),
         indices[d] < array.cElements[d]
  PROVE  /\ indices' \in [1 .. cDims -> Nat]
         /\ \A e \in 1 .. d : indices'[e] <= array.cElements[e] /\ frames'[e].elements = Filled(e)'
         /\ \A e \in 1 .. d - 1 : indices'[e] = indices[e]
<1>0. /\ cDims \in Nat \ {0} /\ d \in 1 .. cDims
      /\ \A e \in 1 .. cDims : array.lLbound[e] \in Int /\ array.cElements[e] \in Nat
      /\ Len(calls) \in Nat
  BY ArrayFact DEF Dims, cDims
<1>1. /\ indices' \in [1 .. cDims -> Nat]
      /\ \A e \in 1 .. cDims : indices'[e] = IF e = d THEN indices[e] + 1 ELSE indices[e]
  BY <1>0 DEF SetElement
<1>2. ASSUME NEW e \in 1 .. d PROVE Around(e)' = Around(e)
  <2>1. e \in 1 .. cDims /\ \A f \in 1 .. e - 1 : f \in 1 .. cDims /\ f # d
    BY <1>0
  <2>2. Around(e) \in [1 .. e - 1 -> Nat] /\ \A f \in 1 .. e - 1 : Around(e)[f] = indices[f]
    BY <1>0, <2>1, AroundFact
  <2>3. SubSeq(indices', 1, e - 1) = [f \in 1 .. e - 1 |-> indices'[f]]
    <3>1. indices' \in Seq(Nat) /\ Len(indices') = cDims
      BY <1>0, <1>1
    <3> QED BY <2>1, <3>1
  <2>4. \A f \in 1 .. e - 1 : indices'[f] = indices[f]
    BY <1>1, <2>1
  <2> QED BY <2>2, <2>3, <2>4 DEF Around
<1>3. ASSUME NEW e \in 1 .. d - 1
      PROVE  /\ indices'[e] <= array.cElements[e] /\ frames'[e].elements = Filled(e)'
             /\ indices'[e] = indices[e]
  <2>1. e \in 1 .. d /\ e \in 1 .. cDims /\ e # d /\ e \in 1 .. Len(calls)
    BY <1>0
  <2>2. frames'[e] = calls[e]
    BY <2>1 DEF SetElement
  <2>3. indices'[e] = indices[e] /\ Around(e)' = Around(e)
    BY <1>1, <1>2, <2>1
  <2>4. Filled(e)' = Filled(e)
    BY <2>3 DEF Filled, SetKeys
  <2> QED BY <2>1, <2>2, <2>3, <2>4
<1>4. indices'[d] <= array.cElements[d] /\ frames'[d].elements = Filled(d)'
  <2> DEFINE low == array.lLbound[d]
             key == low + indices[d]
             at == SubSeq(indices, 1, d)
             object == Object(array, at)
             Kept(k) == Stored(array, Append(Around(d), k - low))
  <2>1. frames'[d].elements = IF Stored(array, at) THEN With(calls[d].elements, d, object)
                              ELSE calls[d].elements
    <3>1. calls[d] \in Calls(S)
      OBVIOUS
    <3> QED BY <3>1 DEF SetElement, Calls
  <2>2. calls[d].elements = Filled(d)
    OBVIOUS
  <2>3. low \in Int /\ indices[d] \in Nat /\ key \in Int /\ key - low = indices[d]
        /\ indices'[d] = indices[d] + 1
    BY <1>0, <1>1
  <2>4. /\ SetKeys(d)' = {k \in low .. key : Kept(k)}
        /\ Filled(d)' = [k \in SetKeys(d)' |-> Object(array, Append(Around(d), k - low))]
    <3>1. low + indices'[d] - 1 = key
      BY <2>3
    <3>2. Around(d)' = Around(d)
      BY <1>0, <1>2
    <3> QED BY <3>1, <3>2 DEF Filled, SetKeys
  <2>5. at = Append(Around(d), key - low)
    BY <1>0, <2>3, AroundFact
  <2>6. SetKeys(d) = {k \in low .. key - 1 : Kept(k)}
    BY <2>3 DEF SetKeys
  <2>7. Filled(d) = [k \in SetKeys(d) |-> Object(array, Append(Around(d), k - low))]
    BY DEF Filled, SetKeys
  <2>8. With(Filled(d), d, object) = [k \in SetKeys(d) \cup {key} |-> IF k = key THEN object ELSE Filled(d)[k]]
    BY <2>7 DEF With
  <2>9. Kept(key) <=> Stored(array, at)
    BY <2>5
  <2> HIDE DEF key, low, at, object, Kept
  <2>10. SetKeys(d)' = IF Kept(key) THEN SetKeys(d) \cup {key} ELSE SetKeys(d)
    <3>1. \A k : k \in low .. key <=> k \in low .. key - 1 \/ k = key
      BY <2>3
    <3> QED BY <2>4, <2>6, <3>1
  <2>11. object = Object(array, Append(Around(d), key - low))
    BY <2>5 DEF object
  <2>12. frames'[d].elements = Filled(d)'
    <3>1. CASE ~Kept(key)
      BY <2>1, <2>2, <2>4, <2>7, <2>9, <2>10, <3>1
    <3>2. CASE Kept(key)
      <4>1. \A k \in SetKeys(d) \cup {key} :
              (IF k = key THEN object ELSE Filled(d)[k]) = Object(array, Append(Around(d), k - low))
        BY <2>7, <2>11
      <4>2. With(Filled(d), d, object) = [k \in SetKeys(d) \cup {key} |-> Object(array, Append(Around(d), k - low))]
        BY <2>8, <4>1
      <4> QED BY <2>1, <2>2, <2>4, <2>9, <2>10, <3>2, <4>2
    <3> QED BY <3>1, <3>2
  <2>13. indices'[d] <= array.cElements[d]
    BY <1>0, <2>3
  <2> QED BY <2>12, <2>13
<1>5. \A e \in 1 .. d : e \in 1 .. d - 1 \/ e = d
  OBVIOUS
<1> QED BY <1>1, <1>3, <1>4, <1>5

\* A call that has set its last element has filled the object at its indices.
LEMMA FullCall ==
  ASSUME array \in Arrays, indices \in [1 .. cDims -> Nat], NEW d \in 1 .. cDims,
         indices[d] = array.cElements[d]
  PROVE  Filled(d) = Object(array, Around(d))
<1>1. cDims = Dims(array) /\ cDims \in Nat \ {0} /\ d - 1 \in 0 .. cDims /\ d - 1 # cDims /\ d - 1 + 1 = d
  BY ArrayFact DEF cDims, Dims
<1>2. Around(d) \in [1 .. d - 1 -> Nat]
  BY <1>1, AroundFact
<1>3. Object(array, Around(d)) = [key \in Keys(array, Around(d), d) |-> Object(array, Append(Around(d), key - array.lLbound[d]))]
  BY <1>1, <1>2, ObjectHolds
<1> QED BY <1>3 DEF Filled, SetKeys, Keys

\* Every step leaves each call with the elements for the indices before its own.
LEMMA FillStep == ConversionInv /\ FillInv /\ [Next]_vars => FillInv'
<1> SUFFICES ASSUME ConversionInv, FillInv, [Next]_vars PROVE FillInv'
  OBVIOUS
<1>0. PICK S : frames \in Seq(Calls(S))
  BY DEF ConversionInv, CallsInv
<1>a. /\ Dim \in Nat /\ array \in Arrays /\ cDims \in Nat \ {0} /\ cDims = Dims(array)
      /\ phase \in {"run", "failing"} => Dim > 0
      /\ \A d \in 1 .. cDims : array.lLbound[d] \in Int /\ array.cElements[d] \in Nat
  BY <1>0, ArrayFact DEF ConversionInv, OwnInv, Dim, cDims, Dims
<1>b. array' = array /\ cDims' = cDims
  BY DEF Next, vars, Start, GetElement, Recurse, Break, Return, Finish, Unwind, cDims
<1>1. CASE UNCHANGED vars
  <2>1. array' = array /\ frames' = frames /\ indices' = indices /\ phase' = phase /\ result' = result
    BY <1>1 DEF vars
  <2>2. Dim' = Dim
    BY <2>1 DEF Dim
  <2>3. ASSUME NEW d PROVE Filled(d)' = Filled(d)
    <3>1. Around(d)' = Around(d)
      BY <2>1 DEF Around
    <3>2. SetKeys(d)' = SetKeys(d)
      BY <2>1, <3>1 DEF SetKeys
    <3> QED BY <2>1, <3>1, <3>2 DEF Filled
  <2> QED BY <1>b, <2>1, <2>2, <2>3 DEF FillInv
<1>2. CASE Start
  <2>1. Dim = 0 /\ frames = <<>>
    BY <1>0, <1>a, <1>2 DEF Start, ConversionInv, OwnInv, Dim
  <2>2. phase' # "object"
    BY <1>2 DEF Start
  <2>3. ASSUME phase' = "run" PROVE /\ indices' \in [1 .. cDims -> Nat] /\ Dim' = 1 /\ indices'[1] = 0
                                    /\ frames'[1].elements = <<>>
    <3>1. indices' = [d \in 1 .. cDims |-> 0] /\ Create
      BY <1>2, <2>3 DEF Start
    <3>2. frames' = <<[object |-> Len(refs) + 1, elements |-> <<>>]>>
      BY <2>1, <3>1 DEF Create
    <3> QED BY <1>a, <3>1, <3>2 DEF Dim
  <2>4. ASSUME phase' = "run" PROVE Filled(1)' = <<>>
    <3>1. array'.lLbound[1] \in Int /\ array'.lLbound[1] .. array'.lLbound[1] + indices'[1] - 1 = {}
      BY <1>a, <1>b, <2>3, <2>4
    <3> QED BY <3>1 DEF Filled, SetKeys
  <2>5. ASSUME phase' = "run" PROVE (\A d \in 1 .. Dim' : d = 1) /\ 1 .. Dim' - 1 = {}
    BY <2>3, <2>5
  <2>6. 0 <= array'.cElements[1]
    BY <1>a, <1>b
  <2> QED BY <1>a, <1>b, <2>2, <2>3, <2>4, <2>5, <2>6 DEF FillInv
<1>3. CASE GetElement
  <2>1. /\ phase = "run" /\ phase' = "run" /\ Dim > 0 /\ Dim = cDims /\ indices[Dim] < array.cElements[Dim]
        /\ Dim \in 1 .. cDims /\ Dim \in 1 .. Len(frames) /\ Len(frames) <= cDims
    BY <1>a, <1>3 DEF GetElement, InLoop, Index, Dim
  <2>2. indices \in [1 .. cDims -> Nat] /\ \A d \in 1 .. Dim : indices[d] <= array.cElements[d] /\ frames[d].elements = Filled(d)
    BY <2>1 DEF FillInv
  <2>3. SubSeq(indices, 1, Dim) = indices
    <3>1. indices \in Seq(Nat) /\ Len(indices) = cDims
      BY <1>a, <2>2
    <3> QED BY <2>1, <3>1
  <2>4. Object(array, indices) = IF array.supported THEN indices ELSE <<>>
    <3>1. cDims \in 0 .. cDims
      BY <1>a
    <3> QED BY <1>a, <2>2, <3>1, ObjectHolds
  <2>5. SetElement(frames, Dim, Object(array, SubSeq(indices, 1, Dim)))
    BY <1>3, <2>3, <2>4 DEF GetElement
  <2>6. /\ indices' \in [1 .. cDims -> Nat]
        /\ \A e \in 1 .. Dim : indices'[e] <= array.cElements[e] /\ frames'[e].elements = Filled(e)'
        /\ \A e \in 1 .. Dim - 1 : indices'[e] = indices[e]
    BY <1>0, <1>a, <1>b, <2>1, <2>2, <2>5, SetFills
  <2>7. Dim' = Dim
    BY <1>0, <2>1, <2>5, SetKeeps DEF Dim
  <2> QED BY <1>b, <2>1, <2>6, <2>7 DEF FillInv
<1>4. CASE Recurse
  <2>1. /\ phase = "run" /\ phase' = "run" /\ Dim < cDims /\ Create /\ Dim + 1 \in 1 .. cDims
        /\ indices' = [indices EXCEPT ![Dim + 1] = 0]
    BY <1>a, <1>4 DEF Recurse, InLoop
  <2>2. indices \in [1 .. cDims -> Nat] /\ \A d \in 1 .. Dim : indices[d] <= array.cElements[d] /\ frames[d].elements = Filled(d)
    BY <2>1 DEF FillInv
  <2>3. /\ indices' \in [1 .. cDims -> Nat] /\ indices'[Dim + 1] = 0
        /\ \A d \in 1 .. Dim : indices'[d] = indices[d] /\ d \in 1 .. cDims
    BY <1>a, <2>1, <2>2
  <2>4. /\ Dim' = Dim + 1 /\ frames'[Dim + 1].elements = <<>>
        /\ \A d \in 1 .. Dim : frames'[d].elements = frames[d].elements
    <3> DEFINE call == [object |-> Len(refs) + 1, elements |-> <<>>]
    <3>1. frames' = Append(frames, call) /\ call.elements = <<>>
      BY <2>1 DEF Create
    <3> HIDE DEF call
    <3>2. /\ Len(frames') = Len(frames) + 1 /\ frames'[Len(frames) + 1] = call
          /\ \A d \in 1 .. Len(frames) : frames'[d] = frames[d]
      BY <1>0, <3>1
    <3> QED BY <3>1, <3>2 DEF Dim
  <2>5. ASSUME NEW d \in 1 .. Dim PROVE Filled(d)' = Filled(d)
    <3>1. \A e \in 1 .. d - 1 : e \in 1 .. Dim /\ indices'[e] = indices[e]
      BY <1>a, <2>3
    <3>2. SubSeq(indices, 1, d - 1) = [e \in 1 .. d - 1 |-> indices[e]]
          /\ SubSeq(indices', 1, d - 1) = [e \in 1 .. d - 1 |-> indices'[e]]
      <4>1. indices \in Seq(Nat) /\ Len(indices) = cDims /\ indices' \in Seq(Nat) /\ Len(indices') = cDims
        BY <1>a, <2>2, <2>3, VectorFact
      <4>2. d - 1 \in Nat /\ d - 1 <= cDims
        BY <1>a, <2>1
      <4> QED BY <4>1, <4>2
    <3>3. Around(d)' = Around(d)
      BY <3>1, <3>2 DEF Around
    <3> QED BY <1>b, <2>3, <3>3 DEF Filled, SetKeys
  <2>6. ASSUME NEW d, d = Dim + 1 PROVE Filled(d)' = <<>>
    <3>1. array'.lLbound[d] .. array'.lLbound[d] + indices'[d] - 1 = {}
      BY <1>a, <1>b, <2>1, <2>3, <2>6
    <3> QED BY <3>1 DEF Filled, SetKeys
  <2>7. \A d \in 1 .. Dim' : d \in 1 .. Dim \/ d = Dim + 1
    BY <1>a, <2>4
  <2>8. ASSUME NEW d \in 1 .. Dim' PROVE indices'[d] <= array'.cElements[d] /\ frames'[d].elements = Filled(d)'
    <3>1. CASE d \in 1 .. Dim
      BY <1>b, <2>2, <2>3, <2>4, <2>5, <3>1
    <3>2. CASE d = Dim + 1
      BY <1>a, <1>b, <2>1, <2>3, <2>4, <2>6, <3>2
    <3> QED BY <2>7, <3>1, <3>2
  <2>9. Dim' <= cDims'
    BY <1>a, <1>b, <2>1, <2>4
  <2>10. indices[Dim] < array.cElements[Dim]
    BY <1>4 DEF Recurse, InLoop, Index
  <2>11. ASSUME NEW d \in 1 .. Dim' - 1 PROVE indices'[d] < array'.cElements[d]
    <3>1. d \in 1 .. Dim /\ (d = Dim \/ d \in 1 .. Dim - 1)
      BY <1>a, <2>4
    <3>2. indices[d] < array.cElements[d]
      BY <2>1, <2>10, <3>1 DEF FillInv
    <3> QED BY <1>b, <2>3, <3>1, <3>2
  <2> QED BY <1>b, <2>1, <2>3, <2>8, <2>9, <2>11 DEF FillInv
<1>5. CASE Break
  <2>1. phase' = "failing"
    BY <1>5 DEF Break
  <2> QED BY <2>1 DEF FillInv
<1>6. CASE Return
  <2>1. /\ phase = "run" /\ phase' = "run" /\ Dim > 1 /\ indices[Dim] = array.cElements[Dim]
        /\ SetElement(Front(frames), Dim - 1, Last(frames).elements)
    BY <1>6 DEF Return, Index
  <2>2. /\ indices \in [1 .. cDims -> Nat] /\ Dim <= cDims
        /\ \A d \in 1 .. Dim : indices[d] <= array.cElements[d] /\ frames[d].elements = Filled(d)
    BY <2>1 DEF FillInv
  <2>3. PICK T : Front(frames) \in Seq(Calls(T))
    BY <1>a, <2>1, FrontKeeps DEF ConversionInv
  <2>4. /\ Len(Front(frames)) = Dim - 1 /\ Last(frames) = frames[Dim]
        /\ \A d \in 1 .. Dim - 1 : Front(frames)[d] = frames[d] /\ d \in 1 .. Dim
    BY <1>a, <2>1, FrontKeeps DEF ConversionInv
  <2>5. Dim \in 1 .. cDims /\ Dim \in 1 .. Dim /\ Dim - 1 \in 1 .. Dim - 1 /\ Dim - 1 \in 1 .. cDims /\ Dim - 1 <= cDims
    BY <1>a, <2>1, <2>2
  <2>6. Last(frames).elements = Object(array, SubSeq(indices, 1, Dim - 1))
    BY <1>a, <2>1, <2>2, <2>4, <2>5, FullCall DEF Around
  <2>7. indices[Dim - 1] < array.cElements[Dim - 1]
    BY <2>1, <2>5 DEF FillInv
  <2>8. /\ indices' \in [1 .. cDims -> Nat]
        /\ \A e \in 1 .. Dim - 1 : indices'[e] <= array.cElements[e] /\ frames'[e].elements = Filled(e)'
        /\ \A e \in 1 .. Dim - 1 - 1 : indices'[e] = indices[e]
    <3>1. PICK d \in Nat : d = Dim - 1
      BY <2>5
    <3>2. PICK calls \in Seq(Calls(T)) : calls = Front(frames)
      BY <2>3
    <3>3. d \in 1 .. Len(calls) /\ Len(calls) <= cDims /\ indices[d] < array.cElements[d]
      BY <2>4, <2>5, <2>7, <3>1, <3>2
    <3>4. \A e \in 1 .. d : indices[e] <= array.cElements[e] /\ calls[e].elements = Filled(e)
      BY <2>2, <2>4, <3>1, <3>2
    <3>5. SetElement(calls, d, Object(array, SubSeq(indices, 1, d)))
      BY <2>1, <2>6, <3>1, <3>2
    <3>6. array \in Arrays /\ UNCHANGED array /\ indices \in [1 .. cDims -> Nat]
      BY <1>a, <1>b, <2>2
    <3>7. /\ indices' \in [1 .. cDims -> Nat]
          /\ \A e \in 1 .. d : indices'[e] <= array.cElements[e] /\ frames'[e].elements = Filled(e)'
          /\ \A e \in 1 .. d - 1 : indices'[e] = indices[e]
      BY <3>3, <3>4, <3>5, <3>6, SetFills
    <3> QED BY <3>1, <3>7
  <2>9. Dim' = Dim - 1
    <3>1. PICK calls \in Seq(Calls(T)) : calls = Front(frames)
      BY <2>3
    <3>2. PICK d \in 1 .. Len(calls) : d = Dim - 1
      BY <2>4, <2>5, <3>1
    <3>3. PICK val : val = Last(frames).elements
      OBVIOUS
    <3>4. SetElement(calls, d, val) /\ Len(calls) = Dim - 1
      BY <2>1, <2>4, <3>1, <3>2, <3>3
    <3>5. Len(frames') = Len(calls)
      BY <3>4, SetKeeps
    <3> QED BY <3>4, <3>5 DEF Dim
  <2>10. \A e \in 1 .. Dim' - 1 : indices'[e] < array'.cElements[e]
    <3>1. \A e \in 1 .. Dim' - 1 : e \in 1 .. Dim - 1 /\ e \in 1 .. Dim - 1 - 1
      BY <1>a, <2>9
    <3> QED BY <1>b, <2>1, <2>8, <3>1 DEF FillInv
  <2> QED BY <1>b, <2>1, <2>5, <2>8, <2>9, <2>10 DEF FillInv
<1>7. CASE Finish
  <2>1. /\ phase = "run" /\ phase' = "object" /\ Dim = 1 /\ indices[1] = array.cElements[1]
        /\ result' = frames[1].elements
    BY <1>7 DEF Finish, Index
  <2>2. indices \in [1 .. cDims -> Nat] /\ frames[1].elements = Filled(1) /\ 1 \in 1 .. cDims
    BY <1>a, <2>1 DEF FillInv
  <2>3. Filled(1) = Object(array, Around(1))
    BY <1>a, <2>1, <2>2, FullCall
  <2>4. Around(1) = <<>>
    BY <1>a, <2>2 DEF Around
  <2> QED BY <1>b, <2>1, <2>2, <2>3, <2>4 DEF FillInv
<1>8. CASE Unwind
  <2>1. phase = "failing" /\ phase' \in {"failing", "null"}
    BY <1>8 DEF Unwind
  <2> QED BY <2>1 DEF FillInv
<1> QED BY <1>1, <1>2, <1>3, <1>4, <1>5, <1>6, <1>7, <1>8 DEF Next

\* What the elements of a converted array are read as.
LEMMA ReadObject ==
  ASSUME array \in Arrays, result = Object(array, <<>>),
         NEW n \in 0 .. cDims, NEW v \in FirstIndices(n)
  PROVE  At(v) = Object(array, v) /\ v \in [1 .. n -> Nat]
<1> DEFINE Before(d) == SubSeq(v, 1, d)
           walk == [d \in 0 .. n |-> Object(array, Before(d))]
           Walks(f) == f = [d \in 0 .. n |-> IF d = 0 THEN result ELSE f[d - 1][array.lLbound[d] + v[d]]]
           f == CHOOSE f : Walks(f)
           Same(d) == f[d] = walk[d]
           Left == {d \in 0 .. n : ~Same(d)}
<1>0. /\ cDims = Dims(array) /\ cDims \in Nat \ {0} /\ n \in Nat
      /\ \A d \in 1 .. cDims : array.lLbound[d] \in Int /\ array.cElements[d] \in Nat
  BY ArrayFact DEF cDims, Dims
<1>1. /\ v \in [1 .. n -> Nat] /\ Len(v) = n
      /\ \A d \in 1 .. n : v[d] \in Nat /\ v[d] < array.cElements[d] /\ Stored(array, Before(d))
  <2>1. \A d \in 1 .. n : v[d] \in UNION {0 .. array.cElements[e] - 1 : e \in 1 .. n}
    BY DEF FirstIndices
  <2>2. \A d \in 1 .. n : v[d] \in Nat
    BY <2>1
  <2>3. v \in [1 .. n -> Nat]
    BY <2>2 DEF FirstIndices
  <2>4. \A d \in 1 .. n : v[d] < array.cElements[d] /\ Stored(array, Before(d))
    BY DEF FirstIndices
  <2>5. Len(v) = n
    BY <2>3, VectorFact
  <2> QED BY <2>2, <2>3, <2>4, <2>5
<1>2. \A d \in 0 .. n : Before(d) \in [1 .. d -> Nat] /\ \A e \in 1 .. d : Before(d)[e] = v[e]
  <2>1. v \in Seq(Nat)
    BY <1>1
  <2>2. ASSUME NEW d \in 0 .. n PROVE Before(d) = [e \in 1 .. d |-> v[e]] /\ d <= n
    BY <1>0, <1>1, <2>1
  <2> HIDE DEF Before
  <2>3. ASSUME NEW d \in 0 .. n
        PROVE  Before(d) \in [1 .. d -> Nat] /\ \A e \in 1 .. d : Before(d)[e] = v[e]
    <3>1. \A e \in 1 .. d : e \in 1 .. n
      BY <1>0
    <3>2. \A e \in 1 .. d : v[e] \in Nat
      BY <1>1, <3>1
    <3> QED BY <2>2, <3>2
  <2> QED BY <2>3
<1>3. ASSUME NEW d \in 1 .. n
      PROVE  walk[d] = walk[d - 1][array.lLbound[d] + v[d]]
  <2> DEFINE low == array.lLbound[d]
  <2>1. d - 1 \in 0 .. n /\ d \in 0 .. n /\ d \in 1 .. cDims /\ d - 1 # cDims /\ d - 1 \in 0 .. cDims /\ d - 1 + 1 = d
    BY <1>0
  <2>2. low \in Int /\ low + v[d] \in low .. low + array.cElements[d] - 1 /\ low + v[d] - low = v[d]
    <3>1. low \in Int /\ v[d] \in Nat /\ array.cElements[d] \in Nat /\ v[d] < array.cElements[d]
      BY <1>0, <1>1, <2>1
    <3> HIDE DEF low
    <3> QED BY <3>1
  <2>3. Object(array, Before(d - 1)) = [key \in Keys(array, Before(d - 1), d) |-> Object(array, Append(Before(d - 1), key - low))]
    <3>1. Before(d - 1) \in [1 .. d - 1 -> Nat]
      BY <1>2, <2>1
    <3> HIDE DEF Before
    <3> QED BY <1>0, <2>1, <3>1, ObjectHolds
  <2>4. Append(Before(d - 1), v[d]) = Before(d)
    <3>1. Before(d - 1) \in Seq(Nat) /\ Len(Before(d - 1)) = d - 1 /\ Before(d) \in Seq(Nat) /\ Len(Before(d)) = d
          /\ v[d] \in Nat
      <4>1. Before(d - 1) \in [1 .. d - 1 -> Nat] /\ Before(d) \in [1 .. d -> Nat]
        BY <1>2, <2>1
      <4>2. d - 1 \in Nat /\ d \in Nat
        OBVIOUS
      <4> HIDE DEF Before
      <4> QED BY <1>1, <4>1, <4>2, VectorFact
    <3>2. \A e \in 1 .. d : IF e = d THEN Before(d)[e] = v[d] ELSE e \in 1 .. d - 1 /\ Before(d)[e] = Before(d - 1)[e]
      <4> HIDE DEF Before
      <4>1. \A e \in 1 .. d : Before(d)[e] = v[e]
        BY <1>2, <2>1
      <4>2. \A e \in 1 .. d - 1 : Before(d - 1)[e] = v[e]
        BY <1>2, <2>1
      <4>3. \A e \in 1 .. d : e = d \/ e \in 1 .. d - 1
        OBVIOUS
      <4> QED BY <4>1, <4>2, <4>3
    <3> HIDE DEF Before
    <3> QED BY <3>1, <3>2
  <2>5. walk[d] = Object(array, Before(d)) /\ walk[d - 1] = Object(array, Before(d - 1))
    <3> HIDE DEF Before
    <3> QED BY <2>1
  <2> HIDE DEF Before, low, walk
  <2>6. walk[d - 1][low + v[d]] = Object(array, Append(Before(d - 1), v[d]))
    <3>0. low + v[d] \in Keys(array, Before(d - 1), d)
      <4>1. Stored(array, Before(d))
        BY <1>1
      <4>2. PICK k \in low .. low + array.cElements[d] - 1 : k = low + v[d]
        BY <2>2
      <4>3. k - low = v[d]
        <5>1. low \in Int /\ v[d] \in Nat
          BY <1>1, <2>2
        <5> QED BY <4>2, <5>1
      <4>4. Stored(array, Append(Before(d - 1), k - low))
        BY <2>4, <4>1, <4>3
      <4>5. k \in Keys(array, Before(d - 1), d)
        BY <4>4 DEF Keys, low
      <4> QED BY <4>2, <4>5
    <3>1. PICK at \in Keys(array, Before(d - 1), d) : at = low + v[d]
      BY <3>0
    <3>2. at - low = v[d]
      BY <1>1, <2>2, <3>1
    <3>3. walk[d - 1][at] = Object(array, Append(Before(d - 1), at - low))
      BY <2>3, <2>5
    <3> QED BY <3>1, <3>2, <3>3
  <2> QED BY <2>4, <2>5, <2>6 DEF low
<1>4. walk[0] = result
  <2>1. Before(0) = <<>> /\ 0 \in 0 .. n
    BY <1>0, <1>1
  <2> HIDE DEF Before
  <2> QED BY <2>1
<1>5. Walks(walk)
  <2> HIDE DEF walk
  <2>1. \A d \in 0 .. n : walk[d] = IF d = 0 THEN result ELSE walk[d - 1][array.lLbound[d] + v[d]]
    BY <1>3, <1>4
  <2>2. walk = [d \in 0 .. n |-> walk[d]]
    BY DEF walk
  <2> QED BY <2>1, <2>2
<1>6. Walks(f)
  <2> HIDE DEF walk, Walks
  <2> QED BY <1>5
<1>7. At(v) = f[n]
  BY <1>1 DEF At
<1> HIDE DEF f
<1>8. \A d \in 0 .. n : f[d] = IF d = 0 THEN result ELSE f[d - 1][array.lLbound[d] + v[d]]
  BY <1>6
<1>9. Left = {}
  <2> SUFFICES ASSUME Left # {} PROVE FALSE
    OBVIOUS
  <2> HIDE DEF walk
  <2>1. Left \in SUBSET Nat
    BY <1>0
  <2>2. PICK d \in Left : \A e \in Left : d <= e
    BY <2>1, LeastNumber
  <2>3. d \in 1 .. n /\ ~Same(d)
    BY <1>4, <1>8
  <2>4. d - 1 \in 0 .. n /\ ~(d <= d - 1)
    BY <2>3
  <2>5. Same(d - 1)
    BY <2>2, <2>4
  <2> QED BY <1>3, <1>8, <2>3, <2>5
<1>10. n \in 0 .. n
  BY <1>0
<1>11. f[n] = walk[n]
  <2> HIDE DEF walk
  <2> QED BY <1>9, <1>10
<1>12. walk[n] = Object(array, v)
  <2>1. Before(n) = v
    BY <1>0, <1>1
  <2> HIDE DEF Before
  <2> QED BY <1>10, <2>1
<1> HIDE DEF walk
<1> QED BY <1>1, <1>7, <1>11, <1>12

\* The elements that the calls have set (variants.cpp:153-254).
THEOREM Filling == Spec => []FillInv
<1>1. Init => FillInv
  BY DEF Init, FillInv
<1> QED BY <1>1, FillStep, Converting, PTL DEF Spec

\* ConvertedMatches, for arrays of any number of dimensions and elements.
THEOREM Matching == Spec => []ConvertedMatches
<1>1. ConversionInv /\ FillInv => ConvertedMatches
  <2> SUFFICES ASSUME ConversionInv, FillInv, phase = "object" PROVE ConvertedMatches
    BY DEF ConvertedMatches
  <2>0. array \in Arrays /\ result = Object(array, <<>>) /\ cDims = Dims(array) /\ cDims \in Nat
    BY ArrayFact DEF ConversionInv, OwnInv, FillInv, cDims, Dims
  <2>1. ASSUME NEW n \in 0 .. cDims - 1, NEW v \in FirstIndices(n)
        PROVE  DOMAIN At(v) = Keys(array, v, n + 1)
    <3>1. n \in 0 .. cDims /\ n # Dims(array)
      BY <2>0
    <3>2. At(v) = Object(array, v) /\ v \in [1 .. n -> Nat]
      BY <2>0, <3>1, ReadObject
    <3>3. DOMAIN Object(array, v) = Keys(array, v, n + 1)
      BY <2>0, <3>1, <3>2, ObjectHolds
    <3> QED BY <3>2, <3>3
  <2>2. ASSUME NEW v \in FirstIndices(cDims)
        PROVE  At(v) = IF array.supported THEN v ELSE <<>>
    <3>1. cDims \in 0 .. cDims
      BY <2>0
    <3>2. At(v) = Object(array, v) /\ v \in [1 .. cDims -> Nat]
      BY <2>0, <3>1, ReadObject
    <3> QED BY <2>0, <3>1, <3>2, ObjectHolds
  <2> QED BY <2>1, <2>2 DEF ConvertedMatches
<1> QED BY <1>1, Filling, Converting, PTL

\* Only the rows for a negative index of an outer dimension are lost.
LostInv == lost # {} => \E d \in 1 .. cDims - 1 : array.lLbound[d] < 0

LEMMA LostStep == ConversionInv /\ FillInv /\ LostInv /\ [Next]_vars => LostInv'
<1> SUFFICES ASSUME ConversionInv, FillInv, LostInv, [Next]_vars PROVE LostInv'
  OBVIOUS
<1>0. array' = array /\ cDims' = cDims
  BY DEF Next, vars, Start, GetElement, Recurse, Break, Return, Finish, Unwind, cDims
<1>1. CASE lost' = lost
  BY <1>0, <1>1 DEF LostInv
<1>2. CASE lost' # lost
  <2> DEFINE d == Dim - 1
  <2>1. /\ Return /\ phase = "run" /\ Dim > 1 /\ ~Stored(array, SubSeq(indices, 1, d))
    BY <1>2 DEF Next, vars, Start, GetElement, Recurse, Break, Return, Finish, Unwind
  <2>2. Dim \in Nat /\ cDims \in Nat /\ cDims = Dims(array) /\ array \in Arrays
    BY ArrayFact DEF ConversionInv, CallsInv, OwnInv, Dim, cDims, Dims
  <2>3. Dim <= cDims /\ indices \in [1 .. cDims -> Nat]
    BY <2>1 DEF FillInv
  <2>4. d \in 1 .. cDims - 1 /\ d \in 1 .. cDims
    BY <2>1, <2>2, <2>3
  <2> HIDE DEF d
  <2>5. SubSeq(indices, 1, d) \in [1 .. d -> Nat] /\ SubSeq(indices, 1, d)[d] = indices[d]
        /\ Len(SubSeq(indices, 1, d)) = d
    <3>1. indices \in Seq(Nat) /\ Len(indices) = cDims
      BY <2>2, <2>3, VectorFact
    <3>2. d \in Nat /\ d <= cDims /\ d >= 1
      BY <2>2, <2>4
    <3>3. SubSeq(indices, 1, d) = [e \in 1 .. d |-> indices[e]]
      BY <2>2, <3>1, <3>2
    <3>4. \A e \in 1 .. d : indices[e] \in Nat
      BY <2>2, <2>3, <3>2
    <3>5. SubSeq(indices, 1, d) \in [1 .. d -> Nat] /\ SubSeq(indices, 1, d)[d] = indices[d]
      <4>1. d \in 1 .. d
        BY <3>2
      <4> QED BY <3>3, <3>4, <4>1
    <3> QED BY <3>2, <3>5, VectorFact
  <2>6. SubSeq(indices, 1, d) \notin array.uncopied
    <3>1. array.uncopied \subseteq [1 .. cDims -> Nat]
      BY <2>2, ArraysAssumption DEF cDims
    <3>2. cDims \in 1 .. cDims /\ cDims \notin 1 .. d
      BY <2>2, <2>4
    <3> QED BY <2>5, <3>1, <3>2
  <2>7. array.lLbound[d] < 0
    <3>1. ~(array.lLbound[d] + indices[d] >= 0)
      BY <2>1, <2>5, <2>6 DEF Stored, d
    <3>2. array.lLbound[d] \in Int /\ indices[d] \in Nat
      BY <2>2, <2>3, <2>4, ArrayFact
    <3> QED BY <3>1, <3>2
  <2> QED BY <1>0, <2>4, <2>7 DEF LostInv
<1> QED BY <1>1, <1>2

\* However deep a conversion gets before it fails, nothing is left of it but rows
\* for negative indices; and one that succeeds leaves every object one reference.
THEOREM NothingLeft == Spec => []FailedConversionLeavesNothing
<1>1. Init => LostInv
  BY DEF Init, LostInv
<1>2. Spec => []LostInv
  BY <1>1, LostStep, Converting, Filling, PTL DEF Spec
<1>3. ConversionInv /\ LostInv => FailedConversionLeavesNothing
  <2> SUFFICES ASSUME ConversionInv, LostInv PROVE FailedConversionLeavesNothing
    OBVIOUS
  <2>1. DOMAIN refs = 1 .. Len(refs)
    BY DEF ConversionInv, CallsInv
  <2> QED BY <2>1 DEF ConversionInv, OwnInv, LockInv, LostInv, FailedConversionLeavesNothing
<1> QED BY Converting, <1>2, <1>3, PTL

\* What is not given back after a failure has the form it had: no call is deeper
\* than the array has dimensions, and the vector has an index for each of them.
FormInv ==
  /\ Dim <= cDims
  /\ indices = <<>> \/ indices \in [1 .. cDims -> Nat]
  /\ indices # <<>> => locks = 1
  /\ locks \in Nat
  /\ outOfMemory \in BOOLEAN

LEMMA FormStep ==
  ASSUME ConversionInv, ConversionInv', FillInv', FormInv, [Next]_vars
  PROVE  FormInv'
<1>0. cDims \in Nat \ {0} /\ cDims' \in Nat \ {0}
  BY ArraysAssumption DEF ConversionInv, OwnInv, cDims
<1>1. CASE phase' = "run"
  <2>1. Dim' <= cDims' /\ indices' \in [1 .. cDims' -> Nat] /\ locks' = 1
    BY <1>1 DEF FillInv, ConversionInv, LockInv
  <2>2. outOfMemory' \in BOOLEAN
    BY <1>1 DEF Next, Start, GetElement, Recurse, Break, Return, Finish, Unwind, FormInv, vars
  <2> QED BY <2>1, <2>2 DEF FormInv
<1>2. CASE phase' # "run" /\ Start
  <2>1. locks = 0 /\ indices = <<>> /\ Dim = 0 /\ frames = <<>>
    <3>1. \E S : frames \in Seq(Calls(S))
      BY DEF ConversionInv, CallsInv
    <3>2. locks = 0 /\ indices = <<>> /\ ~(Dim > 0) /\ Dim \in Nat
      BY <1>2, <3>1 DEF Start, ConversionInv, OwnInv, LockInv, Dim
    <3> QED BY <3>1, <3>2 DEF Dim
  <2>2. array' = array /\ indices' = <<>> /\ locks' \in {0, 1}
    BY <1>2, <2>1 DEF Start
  <2>3. outOfMemory' \in BOOLEAN
    BY <1>2, Zenon DEF Start, FormInv
  <2>4. Dim' \in {0, 1}
    <3>1. frames' = frames \/ \E call : frames' = Append(<<>>, call)
      BY <1>2, <2>1 DEF Start, Create
    <3>2. ASSUME NEW call PROVE Len(Append(<<>>, call)) = 1
      <4>1. <<>> \in Seq({call}) /\ call \in {call} /\ Len(<<>>) = 0
        OBVIOUS
      <4> QED BY <4>1
    <3>3. frames' = frames => Len(frames') = 0
      BY <2>1 DEF Dim
    <3>4. (\E call : frames' = Append(<<>>, call)) => Len(frames') = 1
      BY <3>2, Zenon
    <3>5. Len(frames') \in {0, 1}
      BY <3>1, <3>3, <3>4
    <3> QED BY <3>5, Zenon DEF Dim
  <2>5. Dim' \in Nat /\ Dim' <= cDims'
    <3>1. Dim' \in Nat
      BY DEF ConversionInv, CallsInv, Dim
    <3> QED BY <1>0, <2>4, <3>1
  <2> QED BY <2>2, <2>3, <2>5 DEF FormInv
<1>3. CASE phase' # "run" /\ (Break \/ Finish \/ UNCHANGED vars)
  <2>1. frames' = frames \/ frames' = <<>>
    BY <1>3 DEF Break, Finish, vars
  <2>2. Dim' <= cDims'
    BY <1>0, <1>3, <2>1 DEF Break, Finish, vars, FormInv, Dim, cDims
  <2> QED BY <1>3, <2>2 DEF Break, Finish, vars, FormInv, cDims
<1>4. CASE Unwind
  <2>1. PICK S : frames \in Seq(Calls(S))
    BY DEF ConversionInv, CallsInv
  <2>2. Dim > 0 /\ Dim \in Nat /\ frames' = Front(frames) /\ array' = array
    BY <1>4, <2>1 DEF Unwind, ConversionInv, OwnInv, Dim
  <2>3. Dim' <= cDims'
    <3>1. Len(Front(frames)) = Len(frames) - 1
      BY <2>1, <2>2, FrontOf DEF Dim
    <3> QED BY <1>0, <2>2, <3>1 DEF FormInv, Dim, cDims
  <2>4. (indices' = <<>> /\ locks' \in Nat) \/ UNCHANGED <<indices, locks>>
    BY <1>4 DEF Unwind, FormInv
  <2>5. outOfMemory' = outOfMemory
    BY <1>4 DEF Unwind
  <2> QED BY <2>2, <2>3, <2>4, <2>5 DEF FormInv, cDims
<1>5. CASE phase' # "run" /\ (GetElement \/ Recurse \/ Return)
  BY <1>5 DEF GetElement, Recurse, Return, InLoop
<1> QED BY <1>1, <1>2, <1>3, <1>4, <1>5 DEF Next

\* A failure leaves calls, indices and counts that still fit the array.
THEOREM ConversionTyping == Spec => []TypeOK
<1>1. Init => FormInv
  <2> SUFFICES ASSUME Init PROVE FormInv
    OBVIOUS
  <2>1. Dim = 0 /\ cDims \in Nat /\ locks \in Nat
    BY ArraysAssumption DEF Init, Dim, cDims
  <2>2. outOfMemory \in BOOLEAN
    BY Zenon DEF Init
  <2>3. Dim <= cDims
    BY <2>1
  <2> QED BY <2>1, <2>2, <2>3 DEF Init, FormInv
<1>2. ConversionInv /\ FormInv => TypeOK
  <2> SUFFICES ASSUME ConversionInv, FormInv PROVE TypeOK
    OBVIOUS
  <2>1. refs \in Seq(Nat) /\ DOMAIN refs = 1 .. Len(refs)
    BY DEF ConversionInv, CallsInv
  <2>2. lost \subseteq DOMAIN refs
    BY <2>1 DEF ConversionInv, CallsInv
  <2>3. indices = <<>> \/ Len(indices) = cDims
    <3>1. cDims \in Nat
      BY ArraysAssumption DEF ConversionInv, OwnInv, cDims
    <3> QED BY <3>1, VectorFact DEF FormInv
  <2> QED BY <2>1, <2>2, <2>3 DEF ConversionInv, CallsInv, OwnInv, FormInv, TypeOK
<1> QED BY <1>1, <1>2, FormStep, Converting, Filling, PTL DEF Spec

-----------------------------------------------------------------------------
(***************************************************************************)
(* VariantConversion.                                                      *)
(***************************************************************************)

AnyText == Seq({"char", "nul"})
PlainText == Seq({"char"})

\* Texts of any length, and where their first NUL is.
LEMMA TextsFact == Texts \subseteq AnyText
BY WordAssumption DEF Texts, BoundedSeq, SeqOf, AnyText

\* What is read of a text ends before its first NUL.
LEMMA ReadText ==
  ASSUME NEW text \in AnyText
  PROVE  /\ "nul" \notin ToSet(text) => UpToNul(text) = text /\ text \in PlainText
         /\ \A n \in 1 .. Len(text) :
              text[n] = "nul" /\ (\A m \in 1 .. n - 1 : text[m] # "nul")
                => UpToNul(text) = SubSeq(text, 1, n - 1)
         /\ UpToNul(text) \in PlainText
<1> DEFINE I == {n \in 1 .. Len(text) : text[n] = "nul"}
           first == IF I # {} THEN Min(I) ELSE 0
<1>1. UpToNul(text) = IF first = 0 THEN text ELSE SubSeq(text, 1, first - 1)
  BY DEF UpToNul, SelectInSeq
<1>2. /\ DOMAIN text = 1 .. Len(text) /\ Len(text) \in Nat
      /\ \A n \in 1 .. Len(text) : text[n] \in {"char", "nul"}
  BY DEF AnyText
<1>3. CASE I = {}
  <2>1. UpToNul(text) = text
    BY <1>1, <1>3
  <2>2. text \in PlainText
    BY <1>2, <1>3 DEF PlainText, AnyText
  <2> QED BY <1>3, <2>1, <2>2
<1>4. CASE I # {}
  <2>1. I \in SUBSET Nat
    BY <1>2
  <2>2. PICK m \in I : \A n \in I : m <= n
    BY <1>4, <2>1, LeastNumber
  <2>3. Min(I) = m
    <3>1. Min(I) \in I /\ \A n \in I : Min(I) <= n
      BY <2>2 DEF Min
    <3> QED BY <2>1, <2>2, <3>1
  <2>4. m \in 1 .. Len(text) /\ text[m] = "nul" /\ \A n \in 1 .. m - 1 : text[n] # "nul"
    BY <1>2, <2>2
  <2>5. UpToNul(text) = SubSeq(text, 1, m - 1)
    <3> HIDE DEF I
    <3> QED BY <1>1, <1>4, <2>3, <2>4
  <2>6. SubSeq(text, 1, m - 1) \in PlainText
    <3>1. SubSeq(text, 1, m - 1) = [n \in 1 .. m - 1 |-> text[n]]
      BY <1>2, <2>4 DEF AnyText
    <3>2. \A n \in 1 .. m - 1 : text[n] = "char"
      BY <1>2, <2>4
    <3>3. m - 1 \in Nat
      BY <2>4
    <3> QED BY <3>1, <3>2, <3>3 DEF PlainText
  <2>7. ASSUME NEW n \in 1 .. Len(text), text[n] = "nul", \A k \in 1 .. n - 1 : text[k] # "nul"
        PROVE  n = m
    <3>1. m <= n
      BY <2>2, <2>7
    <3>2. m < n => m \in 1 .. n - 1
      BY <2>4
    <3> QED BY <1>2, <2>4, <2>7, <3>1, <3>2
  <2>8. "nul" \in ToSet(text)
    BY <1>2, <2>4 DEF ToSet
  <2> QED BY <2>5, <2>6, <2>7, <2>8
<1> QED BY <1>3, <1>4

\* The NUL that a text gets is not read.
LEMMA TextReturns ==
  ASSUME NEW text \in PlainText
  PROVE  UpToNul(Utf8StringToBstr(text)) = text
<1> DEFINE long == Append(text, "nul")
<1>1. long \in AnyText /\ Len(long) = Len(text) + 1 /\ Len(text) \in Nat
  BY DEF PlainText, AnyText
<1>2. long[Len(text) + 1] = "nul" /\ \A n \in 1 .. Len(text) : long[n] = text[n] /\ text[n] = "char"
  BY DEF PlainText
<1>3. SubSeq(long, 1, Len(text)) = text
  BY <1>1, <1>2 DEF PlainText
<1>4. UpToNul(long) = SubSeq(long, 1, Len(text) + 1 - 1)
  <2> HIDE DEF long
  <2>1. Len(text) + 1 \in 1 .. Len(long) /\ Len(text) + 1 - 1 = Len(text)
    BY <1>1
  <2>2. \A n \in 1 .. Len(text) : long[n] # "nul"
    BY <1>2
  <2> QED BY <1>1, <1>2, <2>1, <2>2, ReadText
<1>5. Len(text) + 1 - 1 = Len(text)
  BY <1>1
<1> QED BY <1>3, <1>4, <1>5 DEF Utf8StringToBstr

\* A number that goes as an unsigned word comes back as it was.
LEMMA NumberReturns ==
  ASSUME NEW n \in Signed
  PROVE  /\ Word(n) \in Unsigned
         /\ n = IF Word(n) < Half THEN Word(n) ELSE Word(n) - 2 * Half
BY WordAssumption DEF Signed, Unsigned, Word

-----------------------------------------------------------------------------
\* The elements that are no objects, while the first n are looked at.
KeptOf(elements, kept) ==
  kept = [n \in 0 .. Len(elements) |->
            IF n = 0 THEN <<>>
            ELSE IF elements[n].type = "object" THEN kept[n - 1]
            ELSE Append(kept[n - 1], elements[n])]

\* The loop over the first n elements adds sequences of elements only.
KeptUpTo(elements, n, kept) ==
  /\ kept[0] = <<>>
  /\ \A m \in 1 .. n : kept[m] = IF elements[m].type = "object" THEN kept[m - 1]
                                   ELSE Append(kept[m - 1], elements[m])

\* There is such a loop for every number of elements.
LEMMA LoopExists ==
  ASSUME NEW elements, Len(elements) \in Nat, NEW n \in 0 .. Len(elements)
  PROVE  \E kept : kept = [m \in 0 .. n |-> kept[m]] /\ KeptUpTo(elements, n, kept)
<1> DEFINE Loop(m) == \E kept : kept = [k \in 0 .. m |-> kept[k]] /\ KeptUpTo(elements, m, kept)
           Left == {m \in 0 .. Len(elements) : ~Loop(m)}
<1>1. Loop(0)
  <2> DEFINE kept == [k \in 0 .. 0 |-> <<>>]
  <2>1. kept = [k \in 0 .. 0 |-> kept[k]] /\ KeptUpTo(elements, 0, kept)
    BY DEF KeptUpTo
  <2> QED BY <2>1
<1>2. ASSUME NEW m \in 1 .. Len(elements), Loop(m - 1)
      PROVE  Loop(m)
  <2>1. PICK kept : kept = [k \in 0 .. m - 1 |-> kept[k]] /\ KeptUpTo(elements, m - 1, kept)
    BY <1>2
  <2> DEFINE next == [k \in 0 .. m |-> IF k < m THEN kept[k]
                                         ELSE IF elements[m].type = "object" THEN kept[m - 1]
                                           ELSE Append(kept[m - 1], elements[m])]
  <2>2. next = [k \in 0 .. m |-> next[k]]
    OBVIOUS
  <2>3. \A k \in 0 .. m - 1 : next[k] = kept[k]
    OBVIOUS
  <2>4. next[m] = IF elements[m].type = "object" THEN next[m - 1] ELSE Append(next[m - 1], elements[m])
    OBVIOUS
  <2>5. next[0] = <<>>
    BY <2>1, <2>3 DEF KeptUpTo
  <2> HIDE DEF next
  <2>6. ASSUME NEW k \in 1 .. m
        PROVE  next[k] = IF elements[k].type = "object" THEN next[k - 1] ELSE Append(next[k - 1], elements[k])
    <3>1. CASE k = m
      BY <2>4, <3>1
    <3>2. CASE k # m
      <4>1. k \in 1 .. m - 1 /\ k \in 0 .. m - 1 /\ k - 1 \in 0 .. m - 1
        BY <3>2
      <4> QED BY <2>1, <2>3, <4>1 DEF KeptUpTo
    <3> QED BY <3>1, <3>2
  <2>7. KeptUpTo(elements, m, next)
    BY <2>5, <2>6 DEF KeptUpTo
  <2> QED BY <2>2, <2>7
<1> HIDE DEF Loop
<1>3. Left = {}
  <2> SUFFICES ASSUME Left # {} PROVE FALSE
    OBVIOUS
  <2>1. Left \in SUBSET Nat
    OBVIOUS
  <2>2. PICK m \in Left : \A k \in Left : m <= k
    BY <2>1, LeastNumber
  <2>3. m \in 1 .. Len(elements) /\ ~Loop(m)
    BY <1>1
  <2>4. m - 1 \in 0 .. Len(elements) /\ ~(m <= m - 1)
    BY <2>3
  <2>5. Loop(m - 1)
    BY <2>2, <2>4
  <2> QED BY <1>2, <2>3, <2>5
<1>4. Loop(n)
  BY <1>3
<1> QED BY <1>4 DEF Loop

\* What is kept is a sequence of those elements that are no objects.
LEMMA KeptElements ==
  ASSUME NEW S, NEW elements \in Seq(S)
  PROVE  NotObjects(elements) \in Seq({e \in S : e.type # "object"})
<1> DEFINE T == {e \in S : e.type # "object"}
           kept == CHOOSE k : KeptOf(elements, k)
           Good(n) == kept[n] \in Seq(T)
           Left == {n \in 0 .. Len(elements) : ~Good(n)}
<1>0. Len(elements) \in Nat /\ \A n \in 1 .. Len(elements) : elements[n] \in S
  OBVIOUS
<1>1. KeptOf(elements, kept)
  <2>1. PICK k : k = [m \in 0 .. Len(elements) |-> k[m]] /\ KeptUpTo(elements, Len(elements), k)
    BY <1>0, LoopExists
  <2>2. KeptOf(elements, k)
    <3>1. ASSUME NEW m \in 0 .. Len(elements)
          PROVE  k[m] = IF m = 0 THEN <<>>
                        ELSE IF elements[m].type = "object" THEN k[m - 1]
                        ELSE Append(k[m - 1], elements[m])
      <4>1. CASE m = 0
        BY <2>1, <4>1 DEF KeptUpTo
      <4>2. CASE m # 0
        <5>1. m \in 1 .. Len(elements) /\ m > 0
          BY <1>0, <4>2
        <5>2. k[m] = IF elements[m].type = "object" THEN k[m - 1] ELSE Append(k[m - 1], elements[m])
          BY <2>1, <5>1 DEF KeptUpTo
        <5> QED BY <4>2, <5>1, <5>2
      <4> QED BY <4>1, <4>2
    <3> QED BY <2>1, <3>1 DEF KeptOf
  <2> QED BY <2>2
<1>2. NotObjects(elements) = kept[Len(elements)]
  BY DEF NotObjects, KeptOf
<1> HIDE DEF kept
<1>3. Good(0)
  BY <1>0, <1>1 DEF KeptOf
<1>4. ASSUME NEW n \in 1 .. Len(elements), Good(n - 1)
      PROVE  Good(n)
  <2>1. n \in 0 .. Len(elements) /\ n > 0 /\ n # 0 /\ elements[n] \in S
    BY <1>0
  <2>2. kept[n] = IF elements[n].type = "object" THEN kept[n - 1] ELSE Append(kept[n - 1], elements[n])
    BY <1>1, <2>1 DEF KeptOf
  <2>3. CASE elements[n].type = "object"
    BY <1>4, <2>2, <2>3
  <2>4. CASE elements[n].type # "object"
    <3>1. elements[n] \in T
      BY <2>1, <2>4
    <3> HIDE DEF T
    <3> QED BY <1>4, <2>2, <2>4, <3>1
  <2> QED BY <2>3, <2>4
<1> HIDE DEF Good
<1>5. Left = {}
  <2> SUFFICES ASSUME Left # {} PROVE FALSE
    OBVIOUS
  <2>1. Left \in SUBSET Nat
    BY <1>0
  <2>2. PICK m \in Left : \A k \in Left : m <= k
    BY <2>1, LeastNumber
  <2>3. m \in 1 .. Len(elements) /\ ~Good(m)
    BY <1>0, <1>3
  <2>4. m - 1 \in 0 .. Len(elements) /\ ~(m <= m - 1)
    BY <2>3
  <2>5. Good(m - 1)
    BY <2>2, <2>4
  <2> QED BY <1>4, <2>3, <2>5
<1>6. Good(Len(elements))
  BY <1>0, <1>5
<1> QED BY <1>2, <1>6 DEF Good

-----------------------------------------------------------------------------
\* What the page does not lose.
Plain == {Bare("void"), Bare("double"), Number("bool", 0)}
           \cup {Number("int32", n) : n \in Signed}
           \cup {Text("string", t) : t \in PlainText}

\* What the page has after a conversion, and cannot give back.
Ended(v) == v.type \in {"array", "wrapper", "null"} \/ v = Number("bool", 1)

\* The numbers and texts of the values on both sides.
PageValue(v) == /\ v.type = "int32" => v.n \in Signed
                /\ v.type = "string" => v.text \in AnyText
ControlValue(v) == /\ v.type \in {"VT_I4", "VT_UI4"} => v.n \in Unsigned
                   /\ v.type = "VT_BSTR" => v.text \in AnyText

\* A plain value, negative, zero or a text of any length, comes back from a control
\* that returns it (variants.cpp, NPVar2Variant and Variant2NPVar).
THEOREM PlainReturns ==
  ASSUME NEW v \in Plain
  PROVE  /\ ScalarToNPVar(ScalarToVariant(v)) = v
         /\ v.type # "object" /\ ScalarToVariant(v).type # "VT_ARRAY"
         /\ Variant2NPVar(NPVar2Variant(v)) = v
<1>1. CASE v \in {Bare("void"), Bare("double")}
  <2>1. ScalarToVariant(v) = IF v = Bare("void") THEN Bare("VT_VOID") ELSE Bare("VT_R8")
    BY <1>1 DEF ScalarToVariant, Bare, Value
  <2>2. ScalarToNPVar(Bare("VT_VOID")) = Bare("void")
    BY DEF ScalarToNPVar, Bare, Value
  <2>3. ScalarToNPVar(Bare("VT_R8")) = Bare("double")
    BY DEF ScalarToNPVar, Bare, Value
  <2> QED BY <1>1, <2>1, <2>2, <2>3 DEF Bare, Value, Variant2NPVar, NPVar2Variant
<1>2. CASE v = Number("bool", 0)
  <2>1. VARIANT_TRUE # 0
    BY WordAssumption DEF VARIANT_TRUE
  <2> QED BY <1>2, <2>1 DEF ScalarToNPVar, ScalarToVariant, Number, Value, Variant2NPVar, NPVar2Variant
<1>3. ASSUME NEW n \in Signed, v = Number("int32", n)
      PROVE  /\ ScalarToNPVar(ScalarToVariant(v)) = v
             /\ v.type # "object" /\ ScalarToVariant(v).type # "VT_ARRAY"
             /\ Variant2NPVar(NPVar2Variant(v)) = v
  <2>1. ScalarToVariant(v) = Number("VT_UI4", Word(n))
    BY <1>3 DEF ScalarToVariant, Number, Value
  <2>2. ScalarToNPVar(Number("VT_UI4", Word(n))) = Number("int32", n)
    BY NumberReturns DEF ScalarToNPVar, Number, Value
  <2> QED BY <1>3, <2>1, <2>2 DEF Number, Value, Variant2NPVar, NPVar2Variant
<1>4. ASSUME NEW t \in PlainText, v = Text("string", t)
      PROVE  /\ ScalarToNPVar(ScalarToVariant(v)) = v
             /\ v.type # "object" /\ ScalarToVariant(v).type # "VT_ARRAY"
             /\ Variant2NPVar(NPVar2Variant(v)) = v
  <2>1. ScalarToVariant(v) = Text("VT_BSTR", Utf8StringToBstr(t))
    BY <1>4 DEF ScalarToVariant, Text, Value
  <2>2. ScalarToNPVar(Text("VT_BSTR", Utf8StringToBstr(t))) = Text("string", t)
    BY TextReturns DEF ScalarToNPVar, Text, Value
  <2> QED BY <1>4, <2>1, <2>2 DEF Text, Value, Variant2NPVar, NPVar2Variant
<1> QED BY <1>1, <1>2, <1>3, <1>4 DEF Plain

\* A value of a control that arrives at the page is plain, or cannot be given
\* back.
LEMMA Arrives ==
  ASSUME NEW v, ControlValue(v)
  PROVE  /\ Variant2NPVar(v) \in Plain \/ Ended(Variant2NPVar(v))
         /\ PageValue(Variant2NPVar(v))
<1>1. CASE v.type = "VT_ARRAY"
  BY <1>1 DEF Variant2NPVar, List, Value, Ended, PageValue
<1>2. CASE v.type \in {"VT_I4", "VT_UI4"}
  <2> DEFINE n == IF v.n < Half THEN v.n ELSE v.n - 2 * Half
  <2>1. n \in Signed
    BY <1>2, WordAssumption DEF ControlValue, Signed, Unsigned
  <2> HIDE DEF n
  <2>2. Variant2NPVar(v) = Number("int32", n)
    BY <1>2 DEF Variant2NPVar, ScalarToNPVar, n
  <2> QED BY <2>1, <2>2 DEF Plain, PageValue, Number, Value
<1>3. CASE v.type = "VT_BSTR"
  <2>1. Variant2NPVar(v) = Text("string", UpToNul(v.text))
    BY <1>3 DEF Variant2NPVar, ScalarToNPVar
  <2>2. UpToNul(v.text) \in PlainText
    BY <1>3, ReadText DEF ControlValue
  <2>3. PlainText \subseteq AnyText
    BY DEF PlainText, AnyText
  <2> QED BY <2>1, <2>2, <2>3 DEF Plain, PageValue, Text, Value
<1>4. CASE v.type = "VT_DATE"
  <2>1. Variant2NPVar(v) = Text("string", <<"char">>)
    BY <1>4 DEF Variant2NPVar, ScalarToNPVar
  <2>2. <<"char">> \in PlainText /\ <<"char">> \in AnyText
    BY DEF PlainText, AnyText
  <2> QED BY <2>1, <2>2 DEF Plain, PageValue, Text, Value
<1>5. CASE v.type \notin {"VT_ARRAY", "VT_I4", "VT_UI4", "VT_BSTR", "VT_DATE"}
  <2>1. Variant2NPVar(v) \in {Bare("null"), Number("bool", 1), Number("bool", 0), Bare("double"),
                              Bare("wrapper"), Bare("void")}
    BY <1>5 DEF Variant2NPVar, ScalarToNPVar
  <2> QED BY <2>1 DEF Plain, Ended, PageValue, Number, Bare, Value
<1> QED BY <1>1, <1>2, <1>3, <1>4, <1>5

\* What a page gives has numbers and texts a control can take.
LEMMA Given ==
  ASSUME NEW v, PageValue(v)
  PROVE  ControlValue(NPVar2Variant(v))
<1>1. CASE v.type = "int32"
  <2>1. NPVar2Variant(v) = Number("VT_UI4", Word(v.n))
    BY <1>1 DEF NPVar2Variant, ScalarToVariant
  <2>2. Word(v.n) \in Unsigned
    BY <1>1, NumberReturns DEF PageValue
  <2> QED BY <2>1, <2>2 DEF ControlValue, Number, Value
<1>2. CASE v.type = "string"
  <2>1. NPVar2Variant(v) = Text("VT_BSTR", Utf8StringToBstr(v.text))
    BY <1>2 DEF NPVar2Variant, ScalarToVariant
  <2>2. Utf8StringToBstr(v.text) \in AnyText
    BY <1>2 DEF PageValue, Utf8StringToBstr, AnyText
  <2> QED BY <2>1, <2>2 DEF ControlValue, Text, Value
<1>3. CASE v.type \notin {"int32", "string"}
  BY <1>3 DEF NPVar2Variant, ScalarToVariant, ControlValue, Number, Bare, List, Value
<1> QED BY <1>1, <1>2, <1>3

\* The values a page starts with.
LEMMA PageStarts ==
  ASSUME NEW v \in NPVariants
  PROVE  /\ PageValue(v)
         /\ v.type # "object" /\ Lossless(v) => v \in Plain
         /\ v.type = "object" => v.elements \in Seq(Members) /\ v = List("object", v.elements)
<1>1. CASE v.type = "object"
  <2>1. v \notin Scalars /\ v # Bare("wrapper")
    BY <1>1 DEF Scalars, Bare, Number, Text, Value
  <2>2. PICK e \in BoundedSeq(Members, MaxArray) : v = List("object", e)
    BY <2>1 DEF NPVariants
  <2>3. e \in Seq(Members)
    BY WordAssumption DEF BoundedSeq, SeqOf
  <2> QED BY <1>1, <2>2, <2>3 DEF List, Value, PageValue
<1>2. CASE v.type # "object"
  <2>1. v \in Scalars \/ v = Bare("wrapper")
    BY <1>2 DEF NPVariants, List, Value
  <2>2. ASSUME NEW t \in Texts, v = Text("string", t)
        PROVE  PageValue(v) /\ (Lossless(v) => v \in Plain)
    <3>1. t \in AnyText
      BY TextsFact
    <3>2. "nul" \notin ToSet(t) => t \in PlainText
      BY <3>1, ReadText
    <3> QED BY <2>2, <3>1, <3>2 DEF PageValue, Lossless, Plain, Text, Number, Value
  <2>3. CASE v \in Scalars \ {Text("string", t) : t \in Texts} \/ v = Bare("wrapper")
    BY <2>3 DEF Scalars, PageValue, Lossless, Plain, Bare, Number, Value
  <2> QED BY <1>2, <2>1, <2>2, <2>3
<1> QED BY <1>1, <1>2

\* The members of an array that are no objects: all but the Boolean are plain.
LEMMA PlainMembers ==
  ASSUME NEW e \in Members, e.type # "object", Lossless(e)
  PROVE  e \in Plain
<1>1. -1 \in Signed
  BY WordAssumption DEF Signed
<1>2. <<"char">> \in PlainText
  BY DEF PlainText
<1> QED BY <1>1, <1>2 DEF Members, Lossless, Plain, Bare, Number, Text, List, Value

\* The members of a page's array come back in their order.
LEMMA MembersReturn ==
  ASSUME NEW elements \in Seq(Members)
  PROVE  LET kept == NotObjects(elements)
             returned == Variant2NPVar(NPVar2Variant(List("object", elements)))
         IN  /\ Len(returned.elements) = Len(kept)
             /\ \A j \in DOMAIN kept : Lossless(kept[j]) => returned.elements[j] = kept[j]
<1> DEFINE kept == NotObjects(elements)
           given == [j \in DOMAIN kept |-> ScalarToVariant(kept[j])]
           back == [j \in DOMAIN given |-> ScalarToNPVar(given[j])]
<1>1. kept \in Seq({e \in Members : e.type # "object"})
  BY KeptElements
<1> HIDE DEF kept
<1>2. DOMAIN kept = 1 .. Len(kept) /\ Len(kept) \in Nat
      /\ \A j \in DOMAIN kept : kept[j] \in Members /\ kept[j].type # "object"
  BY <1>1
<1>3. NPVar2Variant(List("object", elements)) = List("VT_ARRAY", given)
  BY DEF NPVar2Variant, List, Value, kept
<1>4. Variant2NPVar(List("VT_ARRAY", given)) = List("array", back)
  BY DEF Variant2NPVar, List, Value
<1>5. List("array", back).elements = back
  BY DEF List, Value
<1>6. DOMAIN back = 1 .. Len(kept) /\ \A j \in DOMAIN kept : back[j] = ScalarToNPVar(ScalarToVariant(kept[j]))
  BY <1>2
<1>7. Len(back) = Len(kept)
  BY <1>2, <1>6
<1>8. ASSUME NEW j \in DOMAIN kept, Lossless(kept[j]) PROVE back[j] = kept[j]
  <2>1. kept[j] \in Plain
    BY <1>2, <1>8, PlainMembers
  <2> QED BY <1>6, <2>1, PlainReturns
<1> HIDE DEF back, given
<1> QED BY <1>3, <1>4, <1>5, <1>7, <1>8 DEF kept

-----------------------------------------------------------------------------
\* The trip of a value: what it is on either side, and that after its first
\* arrival it is what it was then, or what that is as a VARIANT.
TripsInv ==
  /\ side \in {"page", "control"}
  /\ trips \in Nat
  /\ IF side = "page" THEN PageValue(value) ELSE ControlValue(value)
  /\ trips = 0 => \/ /\ original \in NPVariants
                     /\ value = IF side = "page" THEN original ELSE NPVar2Variant(original)
                  \/ original \in Variants /\ side = "control"
  /\ trips > 0 =>
       /\ settled \in Plain \/ Ended(settled)
       /\ Ended(settled) \/ value = IF side = "page" THEN settled ELSE NPVar2Variant(settled)
       /\ trips = 1 /\ side = "page" => value = settled
  /\ LosslessReturns

\* A value starts on a trip as what a page or a control gives.
LEMMA TripsInit == VariantInit => TripsInv
<1> SUFFICES ASSUME VariantInit PROVE TripsInv
  OBVIOUS
<1>1. trips = 0 /\ original = value /\ LosslessReturns
  BY DEF VariantInit, LosslessReturns
<1>2. CASE side = "page" /\ value \in NPVariants
  BY <1>1, <1>2, PageStarts DEF TripsInv
<1>3. CASE side = "control" /\ value \in Variants
  <2>1. ASSUME NEW t \in Texts PROVE t \in AnyText
    BY TextsFact
  <2>2. ControlValue(value)
    BY <1>3, <2>1 DEF Variants, ControlValue, Bare, Number, Text, Value
  <2> QED BY <1>1, <1>3, <2>2 DEF TripsInv
<1> QED BY <1>2, <1>3 DEF VariantInit

\* A trip of a value leaves it with what it had after the first one.
LEMMA TripsStep == TripsInv /\ [VariantNext]_variantVars => TripsInv'
<1> SUFFICES ASSUME TripsInv, [VariantNext]_variantVars PROVE TripsInv'
  OBVIOUS
<1>0. trips \in Nat
  BY DEF TripsInv
<1>1. CASE ToControl
  <2>1. /\ side = "page" /\ side' = "control" /\ value' = NPVar2Variant(value)
        /\ UNCHANGED <<original, settled, trips>>
    BY <1>1 DEF ToControl
  <2>2. ControlValue(value)'
    BY <2>1, Given DEF TripsInv, ControlValue
  <2>3. LosslessReturns'
    BY <2>1 DEF LosslessReturns
  <2>4. trips' = 0 => \/ original' \in NPVariants /\ value' = NPVar2Variant(original')
                      \/ original' \in Variants
    BY <2>1 DEF TripsInv
  <2>5. trips' > 0 => /\ settled' \in Plain \/ Ended(settled')
                      /\ Ended(settled') \/ value' = NPVar2Variant(settled')
    BY <2>1 DEF TripsInv
  <2> QED BY <1>0, <2>1, <2>2, <2>3, <2>4, <2>5 DEF TripsInv, Ended, ControlValue
<1>2. CASE OwnArrayToControl
  <2>1. /\ side = "page" /\ side' = "control" /\ value.type = "array"
        /\ UNCHANGED <<original, settled, trips>>
    BY <1>2 DEF OwnArrayToControl
  <2>2. ControlValue(value')
    <3>1. (\E e : value' = List("VT_ARRAY", e)) \/ value' = Bare("VT_VOID")
      BY <1>2, Zenon DEF OwnArrayToControl
    <3>2. value'.type \in {"VT_ARRAY", "VT_VOID"}
      BY <3>1 DEF List, Bare, Value
    <3> QED BY <3>2 DEF ControlValue
  <2>3. LosslessReturns'
    BY <2>1 DEF LosslessReturns
  <2>4. trips # 0
    <3>1. ASSUME original \in NPVariants PROVE original.type # "array"
      BY <3>1 DEF NPVariants, Scalars, Bare, Number, Text, List, Value
    <3> QED BY <2>1, <3>1 DEF TripsInv
  <2>5. Ended(settled)
    <3>1. ASSUME settled \in Plain PROVE settled.type # "array"
      BY <3>1 DEF Plain, Bare, Number, Text, Value
    <3> QED BY <1>0, <2>1, <2>4, <3>1 DEF TripsInv
  <2> QED BY <1>0, <2>1, <2>2, <2>3, <2>4, <2>5 DEF TripsInv, Ended, ControlValue
<1>3. CASE ToPage
  <2>1. /\ side = "control" /\ side' = "page" /\ value' = Variant2NPVar(value) /\ trips' = trips + 1
        /\ settled' = IF trips = 0 THEN value' ELSE settled
        /\ UNCHANGED original
    BY <1>3 DEF ToPage
  <2>2. PageValue(value') /\ (value' \in Plain \/ Ended(value'))
    BY <2>1, Arrives DEF TripsInv
  <2>3. CASE trips = 0
    <3>1. ASSUME original \in NPVariants, value = NPVar2Variant(original)
          PROVE  LosslessReturns'
      <4>1. value' = Variant2NPVar(NPVar2Variant(original))
        BY <2>1, <3>1
      <4>2. ASSUME Lossless(original) PROVE value' = original
        <5>1. original.type # "object"
          BY <4>2 DEF Lossless, Number, Value
        <5> QED BY <3>1, <4>1, <4>2, <5>1, PageStarts, PlainReturns
      <4>3. ASSUME original.type = "object"
            PROVE  LET kept == NotObjects(original.elements)
                   IN  /\ Len(value'.elements) = Len(kept)
                       /\ \A j \in DOMAIN kept : Lossless(kept[j]) => value'.elements[j] = kept[j]
        <5>1. original.elements \in Seq(Members) /\ original = List("object", original.elements)
          BY <3>1, <4>3, PageStarts
        <5>2. value' = Variant2NPVar(NPVar2Variant(List("object", original.elements)))
          BY <4>1, <5>1
        <5> QED BY <5>1, <5>2, MembersReturn
      <4> QED BY <2>1, <4>2, <4>3 DEF LosslessReturns, Lossless
    <3>2. ASSUME original \in Variants
          PROVE  LosslessReturns'
      <4>1. ~Lossless(original) /\ original.type # "object"
        BY <3>2 DEF Variants, Lossless, Bare, Number, Text, Value
      <4> QED BY <2>1, <4>1 DEF LosslessReturns, Lossless
    <3>3. LosslessReturns'
      BY <2>1, <2>3, <3>1, <3>2 DEF TripsInv
    <3> QED BY <2>1, <2>2, <2>3, <3>3 DEF TripsInv, PageValue, Ended
  <2>4. CASE trips # 0
    <3>1. trips > 0 /\ trips' > 0 /\ trips' # 1 /\ trips' # 0 /\ trips' \in Nat /\ settled' = settled
      BY <1>0, <2>1, <2>4
    <3>2. LosslessReturns'
      BY <3>1 DEF LosslessReturns
    <3>3. settled \in Plain \/ Ended(settled)
      BY <3>1 DEF TripsInv
    <3>4. Ended(settled) \/ value' = settled
      <4>1. ASSUME ~Ended(settled) PROVE value' = settled
        <5>1. value = NPVar2Variant(settled)
          BY <2>1, <3>1, <4>1 DEF TripsInv
        <5> QED BY <2>1, <3>3, <4>1, <5>1, PlainReturns
      <4> QED BY <4>1
    <3> QED BY <2>1, <2>2, <3>1, <3>2, <3>3, <3>4 DEF TripsInv, PageValue, Ended
  <2> QED BY <2>3, <2>4
<1>4. CASE UNCHANGED variantVars
  BY <1>4 DEF variantVars, TripsInv, LosslessReturns, PageValue, ControlValue, Ended
<1> QED BY <1>1, <1>2, <1>3, <1>4 DEF VariantNext

\* The trips of a value (variants.cpp:293-465).
THEOREM Trips == VariantSpec => []TripsInv
BY TripsInit, TripsStep, PTL DEF VariantSpec

\* How long a text is before and after a conversion.
LEMMA ReadIsShorter ==
  ASSUME NEW text \in AnyText
  PROVE  /\ UpToNul(text) \in AnyText
         /\ Len(UpToNul(text)) <= Len(text)
         /\ Len(text) > 0 /\ text[Len(text)] = "nul" => Len(UpToNul(text)) < Len(text)
<1>1. UpToNul(text) \in PlainText /\ PlainText \subseteq AnyText
  BY ReadText DEF PlainText, AnyText
<1>2. DOMAIN text = 1 .. Len(text) /\ Len(text) \in Nat
  BY DEF AnyText
<1>3. CASE "nul" \notin ToSet(text)
  <2>1. UpToNul(text) = text
    BY <1>3, ReadText
  <2>2. Len(text) > 0 => text[Len(text)] # "nul"
    BY <1>2, <1>3 DEF ToSet
  <2> QED BY <1>1, <1>2, <2>1, <2>2
<1>4. CASE "nul" \in ToSet(text)
  <2> DEFINE I == {n \in 1 .. Len(text) : text[n] = "nul"}
  <2>1. I \in SUBSET Nat /\ I # {}
    BY <1>2, <1>4 DEF ToSet
  <2>2. PICK m \in I : \A n \in I : m <= n
    BY <2>1, LeastNumber
  <2>3. m \in 1 .. Len(text) /\ text[m] = "nul" /\ \A n \in 1 .. m - 1 : text[n] # "nul"
    BY <1>2, <2>2
  <2>4. UpToNul(text) = SubSeq(text, 1, m - 1)
    BY <2>3, ReadText
  <2>5. Len(SubSeq(text, 1, m - 1)) = m - 1
    BY <1>2, <2>3 DEF AnyText
  <2> QED BY <1>1, <1>2, <2>3, <2>4, <2>5
<1> QED BY <1>3, <1>4

\* A text gets longer only by the NUL that the next reader of it leaves out.
LengthInv ==
  /\ IF side = "page" THEN trips \in 0 .. 3 ELSE trips \in 0 .. 2
  /\ value.type = "int32" => side = "page"
  /\ value.type \in {"VT_I4", "VT_UI4"} => side = "control"
  /\ value.type = "string" => value.text \in AnyText /\ Len(value.text) <= MaxText
  /\ value.type = "VT_BSTR" =>
       /\ value.text \in AnyText
       /\ Len(value.text) <= MaxText + 1
       /\ Len(value.text) = MaxText + 1 => value.text[Len(value.text)] = "nul"

LEMMA LengthInit == VariantInit => LengthInv
<1> SUFFICES ASSUME VariantInit PROVE LengthInv
  OBVIOUS
<1>1. \A t \in Texts : t \in AnyText /\ Len(t) <= MaxText /\ Len(t) \in Nat
  BY WordAssumption DEF Texts, BoundedSeq, SeqOf, AnyText
<1>2. ASSUME value.type \in {"string", "VT_BSTR"} PROVE value.text \in Texts
  BY <1>2 DEF VariantInit, NPVariants, Scalars, Variants, Bare, Number, Text, List, Value
<1>3. ASSUME value.type \in {"string", "VT_BSTR"}
      PROVE  /\ value.text \in AnyText /\ Len(value.text) <= MaxText
             /\ Len(value.text) <= MaxText + 1 /\ Len(value.text) # MaxText + 1
  <2>1. value.text \in AnyText /\ Len(value.text) <= MaxText /\ Len(value.text) \in Nat
    BY <1>1, <1>2, <1>3
  <2> QED BY <2>1, WordAssumption
<1>4. /\ side = "page" => value.type \notin {"VT_I4", "VT_UI4"}
      /\ side # "page" => value.type # "int32" /\ side = "control"
  BY DEF VariantInit, NPVariants, Scalars, Variants, Bare, Number, Text, List, Value
<1>5. IF side = "page" THEN trips \in 0 .. 3 ELSE trips \in 0 .. 2
  BY DEF VariantInit
<1> QED BY <1>3, <1>4, <1>5 DEF LengthInv

LEMMA LengthStep ==
  ASSUME LengthInv, [VariantNext]_variantVars
  PROVE  LengthInv'
<1>0. MaxText \in Nat \ {0}
  BY WordAssumption
<1>1. CASE ToControl
  <2>1. side' = "control" /\ trips' \in 0 .. 2 /\ value' = NPVar2Variant(value)
    BY <1>1 DEF ToControl, LengthInv
  <2>2. value'.type \notin {"string", "int32"}
    BY <2>1 DEF NPVar2Variant, ScalarToVariant, Bare, Number, Text, List, Value
  <2>3. ASSUME value'.type = "VT_BSTR"
        PROVE  value.type = "string" /\ value'.text = Append(value.text, "nul")
    BY <2>1, <2>3 DEF NPVar2Variant, ScalarToVariant, Utf8StringToBstr, Bare, Number, Text, List, Value
  <2>4. ASSUME value'.type = "VT_BSTR"
        PROVE  /\ value'.text \in AnyText /\ Len(value'.text) <= MaxText + 1
               /\ value'.text[Len(value'.text)] = "nul"
    BY <1>0, <2>3, <2>4 DEF LengthInv, AnyText
  <2> QED BY <2>1, <2>2, <2>4 DEF LengthInv, AnyText
<1>2. CASE OwnArrayToControl
  <2>1. side' = "control" /\ trips' \in 0 .. 2
    BY <1>2 DEF OwnArrayToControl, LengthInv
  <2>2. (\E e : value' = List("VT_ARRAY", e)) \/ value' = Bare("VT_VOID")
    BY <1>2, Zenon DEF OwnArrayToControl
  <2>3. value'.type \in {"VT_ARRAY", "VT_VOID"}
    BY <2>2 DEF List, Bare, Value
  <2> QED BY <2>1, <2>3 DEF LengthInv, AnyText
<1>3. CASE ToPage
  <2>1. side' = "page" /\ trips' \in 0 .. 3 /\ value' = Variant2NPVar(value)
    BY <1>3 DEF ToPage, LengthInv
  <2>2. value'.type \notin {"VT_BSTR", "VT_I4", "VT_UI4"}
    BY <2>1 DEF Variant2NPVar, ScalarToNPVar, Bare, Number, Text, List, Value
  <2>3. ASSUME value'.type = "string"
        PROVE  \/ value.type = "VT_BSTR" /\ value'.text = UpToNul(value.text)
               \/ value'.text = <<"char">>
    BY <2>1, <2>3 DEF Variant2NPVar, ScalarToNPVar, Bare, Number, Text, List, Value
  <2>4. ASSUME value.type = "VT_BSTR"
        PROVE  UpToNul(value.text) \in AnyText /\ Len(UpToNul(value.text)) <= MaxText
    <3>1. value.text \in AnyText /\ Len(value.text) \in Nat
      BY <2>4 DEF LengthInv, AnyText
    <3>2. UpToNul(value.text) \in AnyText /\ Len(UpToNul(value.text)) \in Nat
      BY <3>1, ReadIsShorter DEF AnyText
    <3>3. /\ Len(UpToNul(value.text)) <= Len(value.text)
          /\ Len(value.text) > 0 /\ value.text[Len(value.text)] = "nul" =>
               Len(UpToNul(value.text)) < Len(value.text)
      BY <3>1, ReadIsShorter
    <3>4. /\ Len(value.text) <= MaxText + 1
          /\ Len(value.text) = MaxText + 1 => value.text[Len(value.text)] = "nul"
      BY <2>4 DEF LengthInv
    <3> QED BY <1>0, <3>1, <3>2, <3>3, <3>4
  <2>5. <<"char">> \in AnyText /\ Len(<<"char">>) <= MaxText
    BY <1>0 DEF AnyText
  <2>6. value'.type = "string" => value'.text \in AnyText /\ Len(value'.text) <= MaxText
    BY <2>3, <2>4, <2>5
  <2> QED BY <2>1, <2>2, <2>6 DEF LengthInv, AnyText
<1>4. CASE UNCHANGED variantVars
  BY <1>4 DEF variantVars, LengthInv, AnyText
<1> QED BY <1>1, <1>2, <1>3, <1>4 DEF VariantNext

\* Numbers stay within their words, and a text gets longer by one NUL at most,
\* however often it is passed.
THEOREM VariantTyping == VariantSpec => []VariantTypeOK
<1>1. TripsInv /\ LengthInv => VariantTypeOK
  <2> SUFFICES ASSUME TripsInv, LengthInv PROVE VariantTypeOK
    OBVIOUS
  <2>1. trips \in 0 .. 3
    BY DEF LengthInv
  <2> QED BY <2>1, WordAssumption DEF TripsInv, LengthInv, VariantTypeOK, PageValue, ControlValue
<1> QED BY <1>1, LengthInit, LengthStep, Trips, PTL DEF VariantSpec

\* LosslessReturns, for words, texts and arrays of any size.
THEOREM Returning == VariantSpec => []LosslessReturns
<1>1. TripsInv => LosslessReturns
  BY DEF TripsInv
<1> QED BY <1>1, Trips, PTL

\* FirstArrivalSettles, for words and texts of any size.
THEOREM Settling == VariantSpec => []FirstArrivalSettles
<1>1. TripsInv => FirstArrivalSettles
  BY DEF TripsInv, FirstArrivalSettles, Ended
<1> QED BY <1>1, Trips, PTL
=============================================================================
