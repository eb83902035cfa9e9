------------------------- MODULE VariantConversion --------------------------
(***************************************************************************)
(* The values that pass between page and control (variants.cpp):           *)
(* NPVar2Variant on the way to the control, Variant2NPVar on the way back. *)
(* Machine integers have 2 * Half values.  Texts are sequences of "char"   *)
(* and "nul"; doubles and objects are opaque.                              *)
(***************************************************************************)
EXTENDS Integers, SequencesExt

CONSTANTS Half,       \* half the values of an int32 and of a VARIANT's ulVal: 2^31
          MaxText,    \* longest text: a date has one character at least
          MaxArray    \* longest array of a page

ASSUME WordAssumption == Half \in Nat /\ Half > 1 /\ MaxText \in Nat \ {0} /\ MaxArray \in Nat

Signed == -Half .. Half - 1
Unsigned == 0 .. 2 * Half - 1

\* All bits set.
VARIANT_TRUE == 2 * Half - 1

Texts == BoundedSeq({"char", "nul"}, MaxText)

\* An NPVariant and a VARIANT: a type, and a number, a text or elements.
Value(type, n, text, elements) == [type |-> type, n |-> n, text |-> text, elements |-> elements]
Bare(type) == Value(type, 0, <<>>, <<>>)
Number(type, n) == Value(type, n, <<>>, <<>>)
Text(type, text) == Value(type, 0, text, <<>>)
List(type, elements) == Value(type, 0, <<>>, elements)

Scalars == {Bare("void"), Bare("null"), Bare("double")}
             \cup {Number("bool", n) : n \in {0, 1}}
             \cup {Number("int32", n) : n \in Signed}
             \cup {Text("string", t) : t \in Texts}

\* In an array one number stands for all, and an object for every nested value.
Members == {Bare("double"), Number("bool", 1), Number("int32", -1),
            Text("string", <<"char">>), List("object", <<>>)}

NPVariants == Scalars \cup {List("object", e) : e \in BoundedSeq(Members, MaxArray)}
                      \cup {Bare("wrapper")}

\* What a control returns by itself; its arrays: see SafeArrayConversion.
Variants == {Bare(vt) : vt \in {"VT_EMPTY", "VT_NULL", "VT_R4", "VT_R8", "VT_CY", "VT_DATE",
                                 "VT_DISPATCH", "VT_UNKNOWN", "VT_ERROR"}}
              \cup {Number("VT_BOOL", n) : n \in {0, VARIANT_TRUE}}
              \cup {Number("VT_I4", n) : n \in Unsigned}
              \cup {Number("VT_UI4", n) : n \in Unsigned}
              \cup {Text("VT_BSTR", t) : t \in Texts}

VARIABLES value,     \* the value, an NPVariant or a VARIANT
          side,      \* where it is: "page" or "control"
          original,  \* history: the first value
          settled,   \* history: what the page had after the first conversion to it
          trips      \* history: conversions to the page, at most three

variantVars == <<value, side, original, settled, trips>>

VariantInit ==
  /\ \/ side = "page" /\ value \in NPVariants
     \/ side = "control" /\ value \in Variants
  /\ original = value
  /\ settled = value
  /\ trips = 0

-----------------------------------------------------------------------------
\* The text is copied in its full length.
MutantUpToNul(text) == text

\* BSTR2NPVar measures the text up to its first NUL.
UpToNul(text) ==
  LET first == SelectInSeq(text, LAMBDA c : c = "nul")
  IN  IF first = 0 THEN text ELSE SubSeq(text, 1, first - 1)

\* Utf8StringToBstr counts the terminating NUL into the length.
Utf8StringToBstr(text) == Append(text, "nul")

\* A negative number is clipped.
ClippedWord(n) == IF n < 0 THEN 0 ELSE n

\* An int32 stored as an unsigned long.
Word(n) == n % (2 * Half)

\* Machine words are copied bit by bit into an unsigned long, whatever they
\* are: a Boolean becomes 1, not VARIANT_TRUE.
ScalarToVariant(v) ==
  CASE v.type = "null" -> Bare("VT_PTR")
    [] v.type = "bool" -> Number("VT_BOOL", v.n)
    [] v.type = "int32" -> Number("VT_UI4", Word(v.n))
    [] v.type = "double" -> Bare("VT_R8")
    [] v.type = "string" -> Text("VT_BSTR", Utf8StringToBstr(v.text))
    [] OTHER -> Bare("VT_VOID")

\* The elements that are no objects, in their order.
NotObjects(elements) ==
  LET kept[n \in 0 .. Len(elements)] ==
        IF n = 0 THEN <<>>
        ELSE IF elements[n].type = "object" THEN kept[n - 1]
        ELSE Append(kept[n - 1], elements[n])
  IN  kept[Len(elements)]

\* The members of a page's array, without those that are objects.
NPVar2Variant(v) ==
  IF v.type = "object"
    THEN LET kept == NotObjects(v.elements)
         IN  List("VT_ARRAY", [j \in DOMAIN kept |-> ScalarToVariant(kept[j])])
    ELSE ScalarToVariant(v)

\* Every word is read as an int32.  Only VARIANT_TRUE, all bits set, is true.
ScalarToNPVar(v) ==
  CASE v.type = "VT_NULL" -> Bare("null")
    [] v.type = "VT_BSTR" -> Text("string", UpToNul(v.text))
    [] v.type \in {"VT_I4", "VT_UI4"} ->
         Number("int32", IF v.n < Half THEN v.n ELSE v.n - 2 * Half)
    [] v.type = "VT_BOOL" -> Number("bool", IF v.n = VARIANT_TRUE THEN 1 ELSE 0)
    [] v.type \in {"VT_R4", "VT_R8", "VT_CY"} -> Bare("double")
    [] v.type = "VT_DATE" -> Text("string", <<"char">>)
    [] v.type \in {"VT_DISPATCH", "VT_UNKNOWN"} -> Bare("wrapper")
    [] OTHER -> Bare("void")

\* An array becomes an array object of the plugin's own.
Variant2NPVar(v) ==
  IF v.type = "VT_ARRAY"
    THEN List("array", [j \in DOMAIN v.elements |-> ScalarToNPVar(v.elements[j])])
    ELSE ScalarToNPVar(v)

\* The page passes the value to a control.
ToControl ==
  /\ side = "page"
  /\ value.type # "array"
  /\ trips < 3
  /\ value' = NPVar2Variant(value)
  /\ side' = "control"
  /\ UNCHANGED <<original, settled, trips>>

\* An array of the plugin's own names its elements, without the void ones, by
\* texts under which it then finds none: each is read from an NPVariant that
\* nobody has initialised, and skipped if that looks like an object.  The list
\* of names of an empty array may be refused.
OwnArrayToControl ==
  /\ side = "page"
  /\ value.type = "array"
  /\ trips < 3
  /\ LET named == SelectSeq(value.elements, LAMBDA e : e.type # "void")
     IN  \/ \E e \in BoundedSeq({Bare("VT_VOID"), Bare("VT_R8")}, Len(named)) :
              value' = List("VT_ARRAY", e)
         \/ value.elements = <<>> /\ value' = Bare("VT_VOID")
  /\ side' = "control"
  /\ UNCHANGED <<original, settled, trips>>

\* The control returns it.
ToPage ==
  /\ side = "control"
  /\ value' = Variant2NPVar(value)
  /\ side' = "page"
  /\ trips' = trips + 1
  /\ settled' = IF trips = 0 THEN value' ELSE settled
  /\ UNCHANGED original

VariantNext == ToControl \/ OwnArrayToControl \/ ToPage

VariantSpec == VariantInit /\ [][VariantNext]_variantVars

-----------------------------------------------------------------------------
VariantTypeOK ==
  /\ side \in {"page", "control"}
  /\ trips \in 0 .. 3
  /\ value.type = "int32" => value.n \in Signed
  /\ value.type \in {"VT_I4", "VT_UI4"} => value.n \in Unsigned
  /\ value.type = "VT_BSTR" => Len(value.text) <= MaxText + 1

\* A value the page cannot lose by giving it to a control and taking it back.
Lossless(v) ==
  \/ v.type \in {"void", "double", "int32"}
  \/ v = Number("bool", 0)
  \/ v.type = "string" /\ "nul" \notin ToSet(v.text)

\* What a control returns unchanged reaches the page as it was given: negative
\* numbers survive as unsigned words, texts the count of their NUL, and an array
\* keeps the order of its members; only true, null, objects in it and texts with
\* a NUL inside do not return (variants.cpp:333-344, 404-429).
LosslessReturns ==
  (side = "page" /\ trips = 1) =>
    /\ Lossless(original) => value = original
    /\ original.type = "object" =>
         LET kept == NotObjects(original.elements)
         IN  /\ Len(value.elements) = Len(kept)
             /\ \A j \in DOMAIN kept : Lossless(kept[j]) => value.elements[j] = kept[j]

\* Whatever a value loses it loses at once: after its first arrival at the page
\* it does not change any more.  The exceptions are what the page cannot give
\* back at all: arrays and wrappers of the plugin, true, and null
\* (variants.cpp:326-391, 404-460).
FirstArrivalSettles ==
  (side = "page" /\ trips > 1) =>
    \/ value = settled
    \/ settled.type \in {"array", "wrapper", "null"}
    \/ settled = Number("bool", 1)
=============================================================================
