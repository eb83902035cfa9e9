-------------------------- MODULE ControlEventSink --------------------------
(***************************************************************************)
(* The subscription of CControlEventSink (common/ControlEventSink.cpp) to  *)
(* the control's default outgoing interface, and the references that keep  *)
(* the sink alive.                                                         *)
(***************************************************************************)
EXTENDS PluginThread

VARIABLES sinkRefs,    \* who holds the sink: CAxHost::Sink, the control's
                       \* connection point
          subscribed,  \* m_bSubscribed
          handlers     \* events is not empty: some event has a page handler

sinkVars == <<sinkRefs, subscribed, handlers>>

SinkTypeOK ==
  /\ sinkRefs \in [Instances -> SUBSET {"host", "control"}]
  /\ subscribed \in [Instances -> BOOLEAN]
  /\ handlers \in [Instances -> BOOLEAN]

SinkInit ==
  /\ sinkRefs = [i \in Instances |-> {}]
  /\ subscribed = [i \in Instances |-> FALSE]
  /\ handlers = [i \in Instances |-> FALSE]

-----------------------------------------------------------------------------
\* CreateInstance, AddRef and a SubscribeToEvents that reaches Advise or not;
\* then AddEventHandler for each event the page asked for.
Subscribe(i, connects, hooked) ==
  /\ sinkRefs' = [sinkRefs EXCEPT ![i] =
                    {"host"} \cup (IF connects THEN {"control"} ELSE {})]
  /\ subscribed' = [subscribed EXCEPT ![i] = connects]
  /\ handlers' = [handlers EXCEPT ![i] = hooked]

\* UnsubscribeFromEvents is left out.
MutantReleaseSink(i) ==
  /\ sinkRefs' = [sinkRefs EXCEPT ![i] = @ \ {"host"}]
  /\ subscribed' = [subscribed EXCEPT ![i] = FALSE]
  /\ UNCHANGED handlers

\* The sink part of ~CAxHost: UnsubscribeFromEvents, where a subscribed sink
\* calls Unadvise and the connection point drops its reference, then Release.
ReleaseSink(i) ==
  /\ sinkRefs' = [sinkRefs EXCEPT ![i] =
                    @ \ ({"host"} \cup IF subscribed[i] THEN {"control"} ELSE {})]
  /\ subscribed' = [subscribed EXCEPT ![i] = FALSE]
  /\ UNCHANGED handlers
=============================================================================
