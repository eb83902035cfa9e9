-------------------------- MODULE InstanceLifecycle --------------------------
(***************************************************************************)
(* What a browser may rely on: the life of each plugin instance, and what  *)
(* the plugin holds for it at each stage.  Nothing is said of how calls    *)
(* nest, of who counts which reference, or of the control itself.          *)
(***************************************************************************)
CONSTANT Instances

VARIABLES state,   \* the stage of each instance
          holds    \* what the plugin holds for it

lifeVars == <<state, holds>>

Init ==
  /\ state = [i \in Instances |-> "idle"]
  /\ holds = [i \in Instances |-> {}]

\* Instance i goes from one of some stages to another, holding what is left.
Moves(i, from, to, held) ==
  /\ state[i] \in from
  /\ state' = [state EXCEPT ![i] = to]
  /\ holds' = [holds EXCEPT ![i] = held]

\* A control has to be downloaded: all there is is its site.
Start(i) == Moves(i, {"idle"}, "starting", {"site"})

\* The control is there, and a sink for its events; a window may have come
\* during the download.
Run(i) == Moves(i, {"idle", "starting"}, "running", holds[i] \cup {"site", "sink"})

\* An instance that cannot start leaves nothing behind.
Fail(i) == Moves(i, {"idle", "starting"}, "failed", {})

\* The browser gives an instance a window, or takes it back.
SetWindow(i) ==
  \E stage \in {"starting", "running"}, held \in {holds[i] \cup {"window"}, holds[i] \ {"window"}} :
    Moves(i, {stage}, stage, held)

\* A destroyed instance gives up window and sink at once; its site may stay
\* until calls that need it have returned.
Close(i) == Moves(i, {"starting", "running"}, "closing", {"site"})

\* The end: nothing is held, and nothing ever will be.
Release(i) == Moves(i, {"starting", "running", "closing"}, "released", {})

Next == \E i \in Instances :
  Start(i) \/ Run(i) \/ Fail(i) \/ SetWindow(i) \/ Close(i) \/ Release(i)

Spec == Init /\ [][Next]_lifeVars
=============================================================================
