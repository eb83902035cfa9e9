---------------------------- MODULE MCSiteCreate ----------------------------
(***************************************************************************)
(* SiteCreate for TLC: words of two values, versions that differ in each   *)
(* place or overflow, and objects with every way to answer that matters.   *)
(***************************************************************************)
EXTENDS SiteCreate

VersionSet == {<<0, 0, 0, 0>>, <<0, 0, 0, 1>>, <<0, 1, 0, 0>>, <<1, 0, 0, 0>>, <<0, 2, 1, 0>>}

Answer(supported, enabled, accepts) ==
  [answers |-> TRUE, supported |-> supported, enabled |-> enabled, accepts |-> accepts]

ObjectSet ==
  {[answers |-> FALSE, supported |-> {}, enabled |-> {}, accepts |-> FALSE],
   Answer({}, {}, TRUE), Answer({"data"}, {"data"}, FALSE), Answer({"caller"}, {}, FALSE),
   Answer({"caller"}, {}, TRUE), Answer({"caller", "data"}, {"caller"}, FALSE)}
=============================================================================
