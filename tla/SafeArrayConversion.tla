------------------------ MODULE SafeArrayConversion -------------------------
(***************************************************************************)
(* SafeArray2NPObject (variants.cpp): an array of any dimension becomes    *)
(* nested array objects.  The recursion shares one vector of indices; the  *)
(* outermost call locks the array and allocates that vector.  A call is a  *)
(* frame, and its depth is its dimension.                                  *)
(***************************************************************************)
EXTENDS Integers, FiniteSets, SequencesExt

CONSTANT Arrays   \* the arrays that are converted: records with the number of
                  \* elements (cElements) and the lower bound (lLbound) of each
                  \* dimension, whether the kind of element is supported, and
                  \* the indices of texts that find no memory when they are copied

ASSUME ArraysAssumption ==
  \A a \in Arrays :
    /\ a.cElements \in Seq(Nat) /\ Len(a.cElements) > 0
    /\ a.lLbound \in Seq(Int) /\ Len(a.lLbound) = Len(a.cElements)
    /\ a.supported \in BOOLEAN
    /\ a.uncopied \subseteq [1 .. Len(a.cElements) -> Nat]

VARIABLES array,        \* the array under conversion
          frames,       \* the active calls, outermost first: the object each
                        \* fills and the elements it has set so far
          indices,      \* the shared vector, <<>> while not allocated
          locks,        \* lock count of the array
          refs,         \* reference count of each object created
          phase,        \* "start", "run", "failing", "null" or "object": the
                        \* last two are what the outermost call returned
          lost,         \* objects stored nowhere, whose reference nobody has
          result,       \* the elements of the object returned
          outOfMemory   \* history: the vector could not be allocated

vars == <<array, frames, indices, locks, refs, lost, phase, result, outOfMemory>>

cDims == Len(array.cElements)

\* The dimension of the innermost call, and its current index.
Dim == Len(frames)
Index == indices[Dim]

TypeOK ==
  /\ array \in Arrays
  /\ Dim <= cDims
  /\ \A d \in 1 .. Dim : frames[d].object \in DOMAIN refs
  /\ indices = <<>> \/ Len(indices) = cDims
  /\ locks \in Nat
  /\ refs \in Seq(Nat)
  /\ lost \subseteq DOMAIN refs
  /\ phase \in {"start", "run", "failing", "null", "object"}
  /\ outOfMemory \in BOOLEAN

Init ==
  /\ array \in Arrays
  /\ frames = <<>>
  /\ indices = <<>>
  /\ locks = 0
  /\ refs = <<>>
  /\ lost = {}
  /\ phase = "start"
  /\ result = <<>>
  /\ outOfMemory = FALSE

-----------------------------------------------------------------------------
\* createobject gives an object with one reference.
Create ==
  /\ frames' = Append(frames, [object |-> Len(refs) + 1, elements |-> <<>>])
  /\ refs' = Append(refs, 1)

\* The outermost call: its object, the lock, the vector of indices.
Start ==
  /\ phase = "start"
  /\ \/ /\ phase' = "null"
        /\ UNCHANGED <<frames, refs, indices, locks, outOfMemory>>
     \/ /\ Create
        /\ locks' = locks + 1
        /\ \/ /\ indices' = [d \in 1 .. cDims |-> 0]
              /\ phase' = "run"
              /\ UNCHANGED outOfMemory
           \/ /\ phase' = "failing"
              /\ outOfMemory' = TRUE
              /\ UNCHANGED indices
  /\ UNCHANGED <<array, lost, result>>

\* setproperty stores an element under its index plus lower bound: not under a
\* negative one, which is no index of GenericNPObject's vector (it throws, and
\* catches), and not when the copy of a text finds no memory.
Stored(a, v) ==
  /\ a.lLbound[Len(v)] + v[Len(v)] >= 0
  /\ v \notin a.uncopied

\* The elements set so far and one more, under its index plus lower bound.
With(elements, d, value) ==
  LET key == array.lLbound[d] + indices[d]
  IN  [k \in DOMAIN elements \cup {key} |-> IF k = key THEN value ELSE elements[k]]

\* setproperty by the call of dimension d, whose result is ignored, and the next
\* round of its loop.
SetElement(calls, d, value) ==
  /\ frames' = IF Stored(array, SubSeq(indices, 1, d))
                 THEN [calls EXCEPT ![d].elements = With(@, d, value)] ELSE calls
  /\ indices' = [indices EXCEPT ![d] = @ + 1]

InLoop == phase = "run" /\ Index < array.cElements[Dim]

\* SafeArrayGetElement takes the indices leftmost dimension first, while the
\* descriptor keeps the bounds of the rightmost one first; and it counts from
\* the lower bounds, which the indices do not.
Addressed ==
  \A d \in 1 .. cDims :
    LET bound == cDims + 1 - d
    IN  indices[d] \in array.lLbound[bound] .. array.lLbound[bound] + array.cElements[bound] - 1

\* The bottom of the recursion: an element is read and converted, or it is of
\* no supported kind and becomes void (here <<>>) unread.
GetElement ==
  /\ InLoop
  /\ Dim = cDims
  /\ \/ /\ array.supported /\ Addressed
        /\ SetElement(frames, Dim, indices)
     \/ /\ ~array.supported
        /\ SetElement(frames, Dim, <<>>)
  /\ UNCHANGED <<array, locks, refs, lost, phase, result, outOfMemory>>

\* The inner index goes on from where the last inner loop stopped.
MutantRecurse ==
  /\ InLoop
  /\ Dim < cDims
  /\ Create
  /\ UNCHANGED <<indices, array, locks, lost, phase, result, outOfMemory>>

\* A call for the next dimension, whose loop starts with index zero.
Recurse ==
  /\ InLoop
  /\ Dim < cDims
  /\ Create
  /\ indices' = [indices EXCEPT ![Dim + 1] = 0]
  /\ UNCHANGED <<array, locks, lost, phase, result, outOfMemory>>

\* An element cannot be read, or the next dimension gets no object.
Break ==
  /\ InLoop
  /\ (Dim = cDims) => array.supported
  /\ phase' = "failing"
  /\ UNCHANGED <<array, frames, indices, locks, refs, lost, result, outOfMemory>>

\* An inner call returns its object, which the outer one stores (one reference
\* more) and releases (one less).  When setproperty throws, its reference stays.
Return ==
  /\ phase = "run"
  /\ Dim > 1
  /\ Index = array.cElements[Dim]
  /\ SetElement(Front(frames), Dim - 1, Last(frames).elements)
  /\ lost' = IF Stored(array, SubSeq(indices, 1, Dim - 1))
               THEN lost ELSE lost \cup (Last(frames).object .. Len(refs))
  /\ UNCHANGED <<array, locks, refs, phase, result, outOfMemory>>

\* The outermost call returns its object.  The array stays locked and the
\* vector allocated: they are given back after a failure only.
Finish ==
  /\ phase = "run"
  /\ Dim = 1
  /\ Index = array.cElements[1]
  /\ phase' = "object"
  /\ result' = frames[1].elements
  /\ frames' = <<>>
  /\ UNCHANGED <<array, indices, locks, refs, lost, outOfMemory>>

\* A failed call releases its object, and with it the objects made by its inner
\* calls, which have higher numbers, but for those it does not have.
ReleaseObject(n) ==
  [m \in DOMAIN refs |-> IF m >= n /\ m \notin lost /\ refs[m] > 0 THEN refs[m] - 1 ELSE refs[m]]

\* Only the call that failed gives back the vector and the lock.
MutantUnwind ==
  /\ phase = "failing"
  /\ frames' = Front(frames)
  /\ refs' = ReleaseObject(Last(frames).object)
  /\ IF Dim > 1
       THEN UNCHANGED <<phase, indices, locks>>
       ELSE /\ phase' = "null"
            /\ UNCHANGED <<indices, locks>>
  /\ UNCHANGED <<array, lost, result, outOfMemory>>

\* Every call on the way out returns NULL; the outermost one also frees the
\* vector and unlocks the array, if there is a vector.
Unwind ==
  /\ phase = "failing"
  /\ frames' = Front(frames)
  /\ refs' = ReleaseObject(Last(frames).object)
  /\ IF Dim > 1
       THEN UNCHANGED <<phase, indices, locks>>
       ELSE /\ phase' = "null"
            /\ indices' = <<>>
            /\ locks' = IF indices = <<>> THEN locks ELSE locks - 1
  /\ UNCHANGED <<array, lost, result, outOfMemory>>

Next == Start \/ GetElement \/ Recurse \/ Break \/ Return \/ Finish \/ Unwind

Spec == Init /\ [][Next]_vars

-----------------------------------------------------------------------------
\* The first n indices of elements of the array, without those of elements that
\* were not stored.
FirstIndices(n) ==
  {v \in [1 .. n -> UNION {0 .. array.cElements[d] - 1 : d \in 1 .. n}] :
     \A d \in 1 .. n : v[d] < array.cElements[d] /\ Stored(array, SubSeq(v, 1, d))}

\* What the converted array has at these indices.
At(v) ==
  LET object[d \in 0 .. Len(v)] == IF d = 0 THEN result ELSE object[d - 1][array.lLbound[d] + v[d]]
  IN  object[Len(v)]

\* The indices that the array has in dimension d under v, and that are stored.
Keys(a, v, d) ==
  {key \in a.lLbound[d] .. a.lLbound[d] + a.cElements[d] - 1 :
     Stored(a, Append(v, key - a.lLbound[d]))}

\* An array that is converted at all has at each index what the original has
\* there, and nothing else, in every dimension, although all calls share one
\* vector of indices.  Three exceptions: whatever would stand at a negative index
\* is missing, a text whose copy found no memory is missing, and an array whose
\* elements are of no supported kind, plain numbers among them, has the indices
\* of the original but void at each (variants.cpp:189-268).
ConvertedMatches ==
  phase = "object" =>
    /\ \A n \in 0 .. cDims - 1 : \A v \in FirstIndices(n) : DOMAIN At(v) = Keys(array, v, n + 1)
    /\ \A v \in FirstIndices(cDims) : At(v) = IF array.supported THEN v ELSE <<>>

\* Every object of a converted array has exactly one reference.  However deep a
\* conversion fails, no object survives it, but for those of rows that were to be
\* stored under a negative index; and the lock and the vector are given back,
\* unless the vector could not be allocated.  A conversion that succeeds keeps
\* both (variants.cpp:171-179, 261-286).
FailedConversionLeavesNothing ==
  /\ phase = "object" => \A n \in DOMAIN refs : refs[n] = 1
  /\ phase = "null" =>
       /\ \A n \in DOMAIN refs : n \in lost \/ refs[n] = 0
       /\ outOfMemory \/ (locks = 0 /\ indices = <<>>)
  /\ lost # {} => \E d \in 1 .. cDims - 1 : array.lLbound[d] < 0
=============================================================================
