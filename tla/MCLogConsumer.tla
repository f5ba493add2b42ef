---------------------------- MODULE MCLogConsumer ----------------------------
(* A universe of events for the log and its consumer: every type that needs a *)
(* cause and every type that can be one, with lawful and unlawful contexts.   *)
EXTENDS LogConsumer

MCEventIds == 1..3

Blank ==
  [ event_id |-> 1, event_type |-> "SignalEmitted", root_task_id |-> "r1",
    task_id |-> "t1", parent_task_id |-> None, has_agent |-> TRUE,
    has_snapshot |-> TRUE, payload_schema |-> "other", payload_ref |-> "a1",
    causation_id |-> None, correlation_id |-> "c1" ]

Causes ==
  { [Blank EXCEPT !.event_id = i, !.event_type = t] :
      i \in EventId,
      t \in {"ArtifactDeclared", "TaskBlocked", "RouteDecisionRecorded", "TopologyProposed"} }

\* Effects with the lawful context, naming any id as their cause or none.
Effects ==
  { [Blank EXCEPT !.event_id = i, !.event_type = t, !.causation_id = c] :
      i \in EventId, t \in DOMAIN RequiredCause, c \in EventId \cup {None} }

\* Effects that differ from their cause in one field.
Strays ==
  UNION { { [e EXCEPT !.task_id = "t2"], [e EXCEPT !.root_task_id = "r2"],
            [e EXCEPT !.correlation_id = "c2"], [e EXCEPT !.payload_ref = "a2"] } :
          e \in {x \in Effects : x.event_type \in {"TaskAssigned", "ArtifactReady", "TaskResumed"}} }

\* Events that are invalid by themselves.
Invalid ==
  { [Blank EXCEPT !.payload_schema = ""], [Blank EXCEPT !.payload_ref = None],
    [Blank EXCEPT !.event_type = "TaskCreated", !.task_id = None],
    [Blank EXCEPT !.event_type = "AgentDecommissioned", !.has_agent = FALSE],
    [Blank EXCEPT !.event_type = "RouteDecisionRecorded", !.has_snapshot = FALSE] }

MCOffered == Causes \cup Effects \cup Strays \cup Invalid
=============================================================================
