-------------------------- MODULE MCScriptableRefs --------------------------
(***************************************************************************)
(* ScriptableRefs for TLC: wrappers are interchangeable.                   *)
(***************************************************************************)
EXTENDS ScriptableRefs, TLC

Symmetric == Permutations(Wrappers)
=============================================================================
