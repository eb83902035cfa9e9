-------------------------- MODULE GenericNPObject ---------------------------
(***************************************************************************)
(* The array object handed to a page (GenericNPObject.cpp): elements by    *)
(* index, named properties, and two immutable ones.  "length" is a counter *)
(* kept beside the elements; "toString" is an object of its own, Method,   *)
(* that keeps a plain pointer to the array.  Objects are counted: refs     *)
(* says how many references the array has taken and not given back.        *)
(***************************************************************************)
EXTENDS Integers, Sequences, FiniteSets, SequencesExt

CONSTANTS Objects,      \* objects of the page and wrappers of controls
          Method,       \* the object first stored as "toString"
          Names,        \* names of properties, without the immutable ones
          Indices,      \* the numbers used as property names
          Lengths,      \* the numbers a page assigns to "length"
          MaxRefs,      \* bound on the references taken on one object
          LengthBound   \* bound on the size of "length"

Stored == Objects \cup {Method}

Plain == {"void", "null", "number", "text"}

\* "torn": a value with the type of one copy and the contents of another.
Values == Plain \cup Stored

ASSUME ArrayAssumption ==
  /\ Method \notin Objects
  /\ Stored \cap (Plain \cup {"torn", "absent"}) = {}
  /\ Indices \subseteq Int
  /\ Lengths \subseteq Int
  /\ MaxRefs \in Nat \ {0}
  /\ LengthBound \in Nat

VARIABLES numeric,      \* numeric_mapper
          alpha,        \* alpha_mapper
          length,       \* immutables["length"]
          toStringValue,\* immutables["toString"]
          status,       \* "live", "invalid" after Invalidate, or "freed"
          refs,         \* references held by the array, for each object
          methodKept,   \* the page holds a reference of its own on Method
          methodInvalid,\* Invalidate was called on Method
          fault,        \* what went wrong: freed memory or a torn value was
                        \* used, or toString wrote before its text
          dropped,      \* history: objects overwritten or lost in a copy
          tornOnce,     \* history: a copy ran out of memory half way
          uncounted     \* history: length was assigned, or an element set or
                        \* removed where the counter cannot tell

objectVars == <<numeric, alpha, length, toStringValue, refs>>
lifeVars == <<status, methodKept, methodInvalid>>
historyVars == <<dropped, tornOnce, uncounted>>
vars == <<objectVars, lifeVars, fault, historyVars>>

TypeOK ==
  /\ numeric \in Seq(Values)
  /\ alpha \in [Names -> Values \cup {"torn", "absent"}]
  /\ length \in Int
  /\ toStringValue \in Stored
  /\ status \in {"live", "invalid", "freed"}
  /\ refs \in [Stored -> Nat]
  /\ methodKept \in BOOLEAN
  /\ methodInvalid \in BOOLEAN
  /\ fault \subseteq {"freed", "torn", "underrun"}
  /\ dropped \subseteq Stored
  /\ tornOnce \in BOOLEAN
  /\ uncounted \in BOOLEAN

\* The constructor: toString is created with one reference.
Init ==
  /\ numeric = <<>>
  /\ alpha = [k \in Names |-> "absent"]
  /\ length = 0
  /\ toStringValue = Method
  /\ status = "live"
  /\ refs = [o \in Stored |-> IF o = Method THEN 1 ELSE 0]
  /\ methodKept = FALSE
  /\ methodInvalid = FALSE
  /\ fault = {}
  /\ dropped = {}
  /\ tornOnce = FALSE
  /\ uncounted = FALSE

-----------------------------------------------------------------------------
\* CopyNPVariant: only objects are shared, so only they are retained.
Retained(v) == IF v \in Stored THEN [refs EXCEPT ![v] = @ + 1] ELSE refs

MayRetain(v) == v \in Stored => refs[v] < MaxRefs

\* releasevariantvalue; a torn value makes it free what it does not own.
Released(v) == IF v \in Stored THEN [refs EXCEPT ![v] = @ - 1] ELSE refs

Lost(v) == dropped \cup ({v} \cap Stored)

\* Where C++ index k of the vector lies in a sequence.
InRange(k) == k >= 0 /\ k < Len(numeric)

Bounded(n) == n \in -LengthBound .. LengthBound

\* SetProperty of "length": any number replaces the count.
SetLength ==
  /\ status = "live"
  /\ length' \in Lengths
  /\ uncounted' = TRUE
  /\ UNCHANGED <<numeric, alpha, toStringValue, refs, lifeVars, fault, dropped, tornOnce>>

\* SetProperty of "toString": any object, whose predecessor is not released.
SetToString ==
  /\ status = "live"
  /\ \E v \in Stored :
       /\ MayRetain(v)
       /\ toStringValue' = v
       /\ refs' = Retained(v)
  /\ dropped' = Lost(toStringValue)
  /\ UNCHANGED <<numeric, alpha, length, lifeVars, fault, tornOnce, uncounted>>

\* SetProperty of another name copies over the old value.  When there is no
\* memory for a text, its type is already stored and nothing else.
SetNamed(k) ==
  /\ status = "live"
  /\ \/ \E v \in Values :
          /\ MayRetain(v)
          /\ alpha' = [alpha EXCEPT ![k] = v]
          /\ refs' = Retained(v)
          /\ UNCHANGED tornOnce
     \/ /\ alpha' = [alpha EXCEPT ![k] = "torn"]
        /\ tornOnce' = TRUE
        /\ UNCHANGED refs
  /\ dropped' = Lost(alpha[k])
  /\ UNCHANGED <<numeric, length, toStringValue, lifeVars, fault, uncounted>>

\* The elements after index k was set: a gap is padded with void.
Padded(k) == numeric \o [j \in 1 .. k + 1 - Len(numeric) |-> "void"]

\* The gap is counted too.
MutantSetIndexed(k) ==
  /\ status = "live"
  /\ \E v \in Values :
       /\ MayRetain(v)
       /\ refs' = Retained(v)
       /\ k >= 0
       /\ numeric' = [Padded(k) EXCEPT ![k + 1] = v]
       /\ length' = Len(numeric')
       /\ dropped' = IF InRange(k) THEN Lost(numeric[k + 1]) ELSE dropped
       /\ uncounted' = (\/ uncounted
                        \/ v = "void"
                        \/ InRange(k) /\ numeric[k + 1] # "void")
  /\ UNCHANGED <<alpha, toStringValue, lifeVars, fault, tornOnce>>

\* SetProperty of a number copies first and then stores, so a failed copy
\* stores nothing.  A negative number is a size no vector can have: the copy
\* is lost in the exception handler.  Every element set counts, new or not.
SetIndexed(k) ==
  /\ status = "live"
  /\ \E v \in Values :
       /\ MayRetain(v)
       /\ refs' = Retained(v)
       /\ IF k < 0
            THEN /\ dropped' = Lost(v)
                 /\ UNCHANGED <<numeric, length, uncounted>>
            ELSE /\ Bounded(length + 1)
                 /\ numeric' = [Padded(k) EXCEPT ![k + 1] = v]
                 /\ length' = length + 1
                 /\ dropped' = IF InRange(k) THEN Lost(numeric[k + 1]) ELSE dropped
                 /\ uncounted' = (\/ uncounted
                                  \/ v = "void"
                                  \/ InRange(k) /\ numeric[k + 1] # "void")
  /\ UNCHANGED <<alpha, toStringValue, lifeVars, fault, tornOnce>>

\* RemoveProperty of a name; the immutable ones are not looked at.
RemoveNamed(k) ==
  /\ status = "live"
  /\ alpha[k] # "absent"
  /\ refs' = Released(alpha[k])
  /\ alpha' = [alpha EXCEPT ![k] = "absent"]
  /\ fault' = fault \cup ({alpha[k]} \cap {"torn"})
  /\ UNCHANGED <<numeric, length, toStringValue, lifeVars, historyVars>>

\* The element is released and stays.
MutantRemoveIndexed(k) ==
  /\ status = "live"
  /\ InRange(k)
  /\ Bounded(length - 1)
  /\ refs' = Released(numeric[k + 1])
  /\ length' = length - 1
  /\ UNCHANGED <<numeric, alpha, toStringValue, lifeVars, fault, historyVars>>

\* RemoveProperty of a number: the elements behind it move down.  The counter
\* goes down whether there was an element or not.
RemoveIndexed(k) ==
  /\ status = "live"
  /\ Bounded(length - 1)
  /\ IF InRange(k)
       THEN /\ refs' = Released(numeric[k + 1])
            /\ numeric' = RemoveAt(numeric, k + 1)
            /\ uncounted' = (uncounted \/ numeric[k + 1] = "void")
       ELSE /\ uncounted' = TRUE
            /\ UNCHANGED <<refs, numeric>>
  /\ length' = length - 1
  /\ UNCHANGED <<alpha, toStringValue, lifeVars, fault, dropped, tornOnce>>

-----------------------------------------------------------------------------
\* What a name stands for: Invoke and GetProperty look among the immutable
\* properties first, and find elements by number only.
Lookup(k) == CASE k = "toString" -> toStringValue
               [] k = "length" -> "number"
               [] OTHER -> alpha[k]

\* The text toString puts together: every element, then a comma.  The last byte
\* of the text, which an array without elements does not have, becomes zero.
TextWidth(v) == CASE v \in {"void", "null"} -> 0
                  [] v \in {"number", "text"} -> 1
                  [] OTHER -> 8

TextLength == FoldLeft(LAMBDA n, v : n + TextWidth(v) + 1, 0, numeric)

\* toString, called with the pointer to the array.
CallToString ==
  /\ fault' = fault \cup (CASE status = "freed" -> {"freed"}
                            [] status = "live" /\ TextLength = 0 -> {"underrun"}
                            [] OTHER -> {})
  /\ UNCHANGED <<objectVars, lifeVars, historyVars>>

\* Invoke calls the object a name stands for, by its invokeDefault.
Invoke(k) ==
  /\ status = "live"
  /\ Lookup(k) = Method
  /\ ~methodInvalid
  /\ CallToString

\* GetProperty of "toString": the page may keep what it gets.
FetchMethod ==
  /\ status = "live"
  /\ toStringValue = Method \/ \E k \in Names : alpha[k] = Method
  /\ methodKept' = TRUE
  /\ UNCHANGED <<objectVars, status, methodInvalid, fault, historyVars>>

DropMethod ==
  /\ methodKept
  /\ methodKept' = FALSE
  /\ UNCHANGED <<objectVars, status, methodInvalid, fault, historyVars>>

\* invalid is not tested.
MutantCallMethod ==
  /\ methodKept
  /\ CallToString

\* InvokeDefault of the kept Method calls toString with the pointer to the
\* array, which an invalid Method does not do.
CallMethod ==
  /\ methodKept
  /\ ~methodInvalid
  /\ CallToString

\* GetProperty of a name copies the value, text by its pointer.
ReadNamed(k) ==
  /\ status = "live"
  /\ alpha[k] # "absent"
  /\ fault' = fault \cup ({alpha[k]} \cap {"torn"})
  /\ UNCHANGED <<objectVars, lifeVars, historyVars>>

\* The browser ends the plugin instance: every object of it is invalidated.
InvalidateAll ==
  /\ ~methodInvalid
  /\ methodInvalid' = TRUE
  /\ status' = IF status = "live" THEN "invalid" ELSE status
  /\ UNCHANGED <<objectVars, methodKept, fault, historyVars>>

\* How often the array holds object o.
Holds(o) == Cardinality({j \in DOMAIN numeric : numeric[j] = o})
          + Cardinality({k \in Names : alpha[k] = o})
          + (IF toStringValue = o THEN 1 ELSE 0)

\* The destructor releases what is in the three containers.
Free ==
  /\ status # "freed"
  /\ status' = "freed"
  /\ refs' = [o \in Stored |-> refs[o] - Holds(o)]
  /\ numeric' = <<>>
  /\ alpha' = [k \in Names |-> "absent"]
  /\ fault' = fault \cup ({alpha[k] : k \in Names} \cap {"torn"})
  /\ UNCHANGED <<length, toStringValue, methodKept, methodInvalid, historyVars>>

Next ==
  \/ SetLength \/ SetToString
  \/ \E k \in Names : SetNamed(k) \/ RemoveNamed(k) \/ ReadNamed(k)
  \/ \E k \in Indices : SetIndexed(k) \/ RemoveIndexed(k)
  \/ \E k \in Names \cup {"length", "toString"} : Invoke(k)
  \/ FetchMethod \/ DropMethod \/ CallMethod
  \/ InvalidateAll \/ Free

Spec == Init /\ [][Next]_vars

-----------------------------------------------------------------------------
\* Every reference in a container is a counted one, so that no value can be freed
\* under the array and the destructor releases nothing twice; and no other is held
\* for long, except on objects that were overwritten or lost, which the array never
\* releases (GenericNPObject.cpp:180-220, 393-473).
ObjectsRetained ==
  \A o \in Stored :
    LET holds == IF status = "freed" THEN 0 ELSE Holds(o)
    IN  IF o \in dropped THEN refs[o] >= holds ELSE refs[o] = holds

\* The counter called "length" agrees with the elements as long as nobody
\* assigns it, sets an element twice or removes one that is not there: gaps and
\* elements that move down do not disturb it (GenericNPObject.cpp:427-435, 460-466).
LengthCountsElements ==
  (status # "freed" /\ ~uncounted) =>
     length = Cardinality({j \in DOMAIN numeric : numeric[j] # "void"})

\* Once its plugin instance has ended, no kept toString reads the array any
\* more, whatever the order in which the browser frees the two; only the
\* destructor may still meet a torn value (GenericNPObject.cpp:278).
EndedMethodIsQuiet ==
  [][methodInvalid /\ fault' # fault => tornOnce]_vars
=============================================================================
