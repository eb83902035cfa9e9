---------------------------- MODULE MCPluginHost ----------------------------
(***************************************************************************)
(* PluginHost for TLC: one instance that can be moved between two windows, *)
(* and one with a single window, which is enough to nest calls of both.    *)
(* The two windows are interchangeable; the symmetry is used by the run    *)
(* without liveness.                                                       *)
(***************************************************************************)
EXTENDS PluginHost, TLC

CONSTANTS i1, i2, w1, w2, w3

WindowSets == [i \in Instances |-> IF i = i1 THEN {w1, w2} ELSE {w3}]

Symmetric == Permutations({w1, w2})
=============================================================================
