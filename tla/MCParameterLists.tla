-------------------------- MODULE MCParameterLists --------------------------
(***************************************************************************)
(* ParameterLists for TLC: one name in two spellings, and another name.    *)
(***************************************************************************)
EXTENDS ParameterLists

NameSet == {"src", "SRC", "loop"}
FoldCase == [n \in NameSet |-> IF n = "SRC" THEN "src" ELSE n]
=============================================================================
