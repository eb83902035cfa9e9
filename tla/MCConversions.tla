---------------------------- MODULE MCConversions ---------------------------
(***************************************************************************)
(* The conversions of variants.cpp for TLC, one in each behaviour: of an   *)
(* array with up to three dimensions, up to two elements and a lower bound *)
(* around zero in each, in which one text may find no memory; or of a      *)
(* value on its trips between page and control.                            *)
(***************************************************************************)
EXTENDS SafeArrayConversion, VariantConversion

Uncopied(n) == {{}} \cup {{v} : v \in [1 .. n -> 0 .. 1]}

ArraySet ==
  UNION {{a \in [cElements : [1 .. n -> 0 .. 2], lLbound : [1 .. n -> -1 .. 1],
                 supported : BOOLEAN, uncopied : Uncopied(n)] :
            a.uncopied # {} => a.supported} :
           n \in 1 .. 3}

\* No value travels, or no array is converted.
NoTrip ==
  /\ value = Bare("void") /\ original = value /\ settled = value
  /\ side = "page"
  /\ trips = 3

NoArray ==
  /\ array = CHOOSE a \in Arrays : TRUE
  /\ frames = <<>> /\ indices = <<>> /\ refs = <<>> /\ result = <<>>
  /\ locks = 0 /\ lost = {}
  /\ phase = "null"
  /\ outOfMemory = FALSE

ConversionsInit == (Init /\ NoTrip) \/ (NoArray /\ VariantInit)

ConversionsNext == (Next /\ UNCHANGED variantVars) \/ (VariantNext /\ UNCHANGED vars)

Conversions == ConversionsInit /\ [][ConversionsNext]_<<vars, variantVars>>
=============================================================================
