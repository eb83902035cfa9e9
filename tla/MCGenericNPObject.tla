-------------------------- MODULE MCGenericNPObject -------------------------
(***************************************************************************)
(* GenericNPObject for TLC: small sets of indices and lengths.             *)
(***************************************************************************)
EXTENDS GenericNPObject

IndexSet == -1 .. 2
LengthSet == {0, 2}
=============================================================================
