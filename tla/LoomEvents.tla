------------------------------ MODULE LoomEvents ------------------------------
(***************************************************************************)
(* The vocabulary of the Agent Task Loom event log: what an event is, which *)
(* fields its type demands, and when a log accepts it.  Everything here is  *)
(* a constant-level operator; EventLog, ReplayValidation and JsonlFile    *)
(* are state machines over it.                                              *)
(***************************************************************************)
EXTENDS Naturals, Sequences

CONSTANTS
  EventId,      \* ids an event may carry (u64, chosen by the producer)
  TaskId,       \* task ids
  RootId,       \* root task ids
  Correlation,  \* correlation ids
  RouteRef,     \* payload refs that start with inline://route-decision/
  OtherRef,     \* every other payload ref that is not blank
  None          \* an absent Option, or a blank string

ASSUME EventIdAssumption == EventId \subseteq Nat
ASSUME NoneAssumption ==
  /\ None \notin EventId
  /\ None \notin TaskId
  /\ None \notin RouteRef \cup OtherRef
ASSUME RefAssumption == RouteRef \cap OtherRef = {}

-----------------------------------------------------------------------------
EventType ==
  { "TaskCreated", "TaskAssigned", "ArtifactDeclared", "ArtifactReady",
    "SignalEmitted", "TaskBlocked", "TaskResumed", "TaskCompleted",
    "AgentDecommissioned", "IntegrationRequested", "MemoryNodeCreated",
    "IndexUpdated", "RouteDecisionRecorded", "TopologyProposed",
    "TopologyShadowed", "TopologyCanaried", "TopologyCommitted",
    "TopologyRolledBack" }

\* Schemas: blank, the one route telemetry must carry, and all the others.
Schema == {"", "qtom.route_decision.v1", "other"}

\* Of agent_id and topology_snapshot_id only the presence is ever looked at.
Event ==
  [ event_id : EventId, event_type : EventType, root_task_id : RootId,
    task_id : TaskId \cup {None}, parent_task_id : TaskId \cup {None},
    has_agent : BOOLEAN, has_snapshot : BOOLEAN,
    payload_schema : Schema, payload_ref : RouteRef \cup OtherRef \cup {None},
    causation_id : EventId \cup {None}, correlation_id : Correlation ]

ASSUME NoEventAssumption == None \notin Event

RequiresTaskId ==
  { "TaskCreated", "TaskAssigned", "TaskBlocked", "TaskResumed",
    "TaskCompleted", "RouteDecisionRecorded" }
RequiresAgentId == {"AgentDecommissioned"}
RequiresTopologySnapshotId ==
  {"RouteDecisionRecorded", "TopologyCommitted", "TopologyRolledBack"}

\* LoomEvent::validate
Validates(e) ==
  /\ e.payload_schema # ""
  /\ e.payload_ref # None
  /\ e.event_type \in RequiresTaskId => e.task_id # None
  /\ e.event_type \in RequiresAgentId => e.has_agent
  /\ e.event_type \in RequiresTopologySnapshotId => e.has_snapshot

-----------------------------------------------------------------------------
\* A faulty table: a rollback may name the proposal instead of the commit.
RollbackNamesProposal ==
  [ TaskAssigned       |-> "RouteDecisionRecorded",
    ArtifactReady      |-> "ArtifactDeclared",
    TaskResumed        |-> "TaskBlocked",
    TopologyShadowed   |-> "TopologyProposed",
    TopologyCanaried   |-> "TopologyShadowed",
    TopologyCommitted  |-> "TopologyProposed",
    TopologyRolledBack |-> "TopologyProposed" ]

\* The type an event's cause must have; types outside the domain need no cause.
RequiredCause ==
  [ TaskAssigned       |-> "RouteDecisionRecorded",
    ArtifactReady      |-> "ArtifactDeclared",
    TaskResumed        |-> "TaskBlocked",
    TopologyShadowed   |-> "TopologyProposed",
    TopologyCanaried   |-> "TopologyShadowed",
    TopologyCommitted  |-> "TopologyProposed",
    TopologyRolledBack |-> "TopologyCommitted" ]

SameContext(e, c) ==
  /\ e.task_id = c.task_id
  /\ e.root_task_id = c.root_task_id
  /\ e.correlation_id = c.correlation_id

\* An assignment and a ready artifact must agree with the event that caused
\* them.  (The code compares absent task ids of an assignment as 0; both ids
\* are present once the event and its cause have been validated.)
AgreesWithCause(e, c) ==
  /\ e.event_type = "TaskAssigned" => SameContext(e, c)
  /\ e.event_type = "ArtifactReady" =>
       SameContext(e, c) /\ e.payload_ref = c.payload_ref

IdsOf(log) == {log[i].event_id : i \in 1..Len(log)}

\* Event i of the log is a lawful cause of e.  Ids in a log are unique, so
\* looking for the first event with the id finds the only one.
IsCause(log, i, e) ==
  /\ log[i].event_id = e.causation_id
  /\ log[i].event_type = RequiredCause[e.event_type]
  /\ AgreesWithCause(e, log[i])

\* InMemoryEventLog::validate_causation
ValidCausation(log, e) ==
  e.event_type \in DOMAIN RequiredCause =>
    \E i \in 1..Len(log) : IsCause(log, i, e)

\* InMemoryEventLog::append succeeds: the event is valid by itself, its id is
\* not in the id set, and its cause is already in the log.
Accepts(log, ids, e) ==
  /\ Validates(e)
  /\ e.event_id \notin ids
  /\ ValidCausation(log, e)

\* A log that append could have built: every event was acceptable after those
\* before it.
Appendable(log) ==
  \A i \in 1..Len(log) :
    LET prefix == SubSeq(log, 1, i - 1) IN Accepts(prefix, IdsOf(prefix), log[i])
===============================================================================
