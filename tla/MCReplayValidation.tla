-------------------------- MODULE MCReplayValidation --------------------------
(* Slices of up to four events about two tasks, the second a child of the      *)
(* first.  Each id can be taken by several events, so that duplicate ids,       *)
(* missing causes and causes of the wrong type or context are met.              *)
EXTENDS LoomReplay

MCEventIds == 1..4

Blank ==
  [ event_id |-> 1, event_type |-> "SignalEmitted", root_task_id |-> "r1",
    task_id |-> "t1", parent_task_id |-> None, has_agent |-> TRUE,
    has_snapshot |-> TRUE, payload_schema |-> "other", payload_ref |-> "a1",
    causation_id |-> None, correlation_id |-> "c1" ]

Strays(e) == {e, [e EXCEPT !.root_task_id = "r2"], [e EXCEPT !.correlation_id = "c2"]}

Decommissions ==
  UNION {Strays([Blank EXCEPT !.event_id = i, !.event_type = "AgentDecommissioned"]) : i \in {1, 3}}
Completions ==
  UNION {Strays([Blank EXCEPT !.event_id = i, !.event_type = "TaskCompleted"]) : i \in {2, 4}}
Children ==
  { [Blank EXCEPT !.event_id = i, !.event_type = "TaskCreated", !.task_id = "t2",
                  !.parent_task_id = "t1"] : i \in {1, 2} }
Integrations ==
  UNION {Strays([Blank EXCEPT !.event_id = i, !.event_type = "IntegrationRequested"]) : i \in {3, 4}}
Memories ==
  UNION {Strays([Blank EXCEPT !.event_id = 4, !.event_type = "MemoryNodeCreated",
                              !.causation_id = c]) : c \in {None, 1, 2}}
Decisions ==
  { [Blank EXCEPT !.event_id = i, !.event_type = "RouteDecisionRecorded",
                  !.payload_schema = s, !.payload_ref = r] :
      i \in {1, 2}, s \in {"qtom.route_decision.v1", "other"}, r \in {"d1", "a1"} }
Assignments ==
  UNION {Strays([Blank EXCEPT !.event_id = 3, !.event_type = "TaskAssigned",
                              !.causation_id = c]) : c \in {None, 1, 2}}
Artifacts ==
  { [Blank EXCEPT !.event_id = 1, !.event_type = "ArtifactDeclared"],
    [Blank EXCEPT !.event_id = 2, !.event_type = "ArtifactReady", !.causation_id = 1],
    [Blank EXCEPT !.event_id = 2, !.event_type = "ArtifactReady", !.causation_id = 1,
                  !.payload_ref = "a2"] }

\* A second assignment and a second memory node of the same cause, a second
\* parent, a group and its report, and topology events, one with a cause of its own
\* invention.
Drawn2 ==
  { [Blank EXCEPT !.event_id = 4, !.event_type = "TaskAssigned", !.causation_id = 1],
    [Blank EXCEPT !.event_id = 3, !.event_type = "MemoryNodeCreated", !.causation_id = 1],
    [Blank EXCEPT !.event_id = 2, !.event_type = "TaskCreated", !.parent_task_id = "t2"],
    [Blank EXCEPT !.event_id = 3, !.event_type = "IntegrationRequested", !.task_id = "t2",
                  !.payload_ref = "g1"],
    [Blank EXCEPT !.event_id = 4, !.event_type = "IntegrationRequested", !.payload_ref = "p1"],
    [Blank EXCEPT !.event_id = 1, !.event_type = "TopologyProposed", !.causation_id = 2],
    [Blank EXCEPT !.event_id = 2, !.event_type = "TopologyCommitted", !.causation_id = 1],
    [Blank EXCEPT !.event_id = 3, !.event_type = "TopologyRolledBack", !.causation_id = 2] }

MCRefTail == [ref \in {"d1", "a1", "a2", "g1", "p1"} |-> IF ref = "a2" THEN 2 ELSE 1]

MCOffered ==
  Decommissions \cup Completions \cup Children \cup Integrations
    \cup Memories \cup Decisions \cup Assignments \cup Artifacts \cup Drawn2
===============================================================================
