---------------------------- MODULE LoomProjections ----------------------------
(***************************************************************************)
(* The diagrams drawn from an event log.  A text is a sequence of lines, and a  *)
(* line is what Mermaid makes of it: <<n>> declares the node n, <<m, n>> is an    *)
(* edge.  A node is what it stands for and an id.  Labels are left out, and of    *)
(* an agent all but that it is the agent of some event.                         *)
(*                                                                         *)
(* Each diagram goes over the whole log, and an event has the lines that some    *)
(* operator gives it, none if the diagram does not show it.                    *)
(***************************************************************************)
EXTENDS LoomEvents
Sequence == INSTANCE SequencesExt

CONSTANTS
  GroupRef,    \* payload refs with /integration/group/ in them
  ReportRef,   \* payload refs with /integration/report/ in them
  RefTail      \* what comes after the last slash of a payload ref

ASSUME RefTailAssumption ==
  /\ GroupRef \cup ReportRef \subseteq OtherRef
  /\ RouteRef \cup OtherRef \subseteq DOMAIN RefTail

-----------------------------------------------------------------------------
\* Texts one after the other.
Joint(texts) == Sequence!FlattenSeq(texts)

\* A HashMap of events gives the last one put in under a key: a sequence of one
\* event or none.
LastOf(log, hits) ==
  IF hits = {} THEN <<>> ELSE <<log[CHOOSE i \in hits : \A j \in hits : j <= i]>>

CausedBy(log, type, id) ==
  {i \in 1..Len(log) : log[i].event_type = type /\ log[i].causation_id = id}

\* Faulty: the first event with the cause is the one that is kept.
FirstCausedBy(log, type, id) ==
  LET hits == CausedBy(log, type, id)
  IN IF hits = {} THEN <<>> ELSE <<log[CHOOSE i \in hits : \A j \in hits : i <= j]>>

\* assignments_by_cause, ready_events_by_cause, memory_events_by_cause
LastCausedBy(log, type, id) == LastOf(log, CausedBy(log, type, id))

Task(id) == <<"task", id>>

\* A node, and the edge that leads to it.
Drawn(from, to) == << <<to>>, <<from, to>> >>

AgentDrawn(from, e) == IF e.has_agent THEN Drawn(from, <<"agent", e.event_id>>) ELSE <<>>

\* What three projections have in common: from each event of one type that has a
\* task, the way from the task to the event and on to the event it caused.
Caused(from, next, name, with_agent) ==
  Drawn(from, <<name, next.event_id>>)
    \o IF with_agent THEN AgentDrawn(<<name, next.event_id>>, next) ELSE <<>>

TraceOf(log, e, type, name, next_type, next_name, with_agent) ==
  LET next == LastCausedBy(log, next_type, e.event_id)
  IN IF e.event_type # type \/ e.task_id = None THEN <<>>
     ELSE << <<Task(e.task_id)>> >> \o Drawn(Task(e.task_id), <<name, e.event_id>>)
            \o Joint([i \in 1..Len(next) |->
                        Caused(<<name, e.event_id>>, next[i], next_name, with_agent)])

Trace(log, type, name, next_type, next_name, with_agent) ==
  Joint([i \in 1..Len(log) |->
           TraceOf(log, log[i], type, name, next_type, next_name, with_agent)])

\* route_trace_projection
RouteTrace(log) ==
  Trace(log, "RouteDecisionRecorded", "route", "TaskAssigned", "assignment", TRUE)

\* artifact_provenance_projection
ArtifactProvenance(log) ==
  Trace(log, "ArtifactDeclared", "artifact_declared", "ArtifactReady", "artifact_ready", TRUE)

\* memory_lineage_projection
MemoryLineage(log) ==
  Trace(log, "AgentDecommissioned", "decommission", "MemoryNodeCreated", "memory", FALSE)

\* child_task_ids_by_parent
IsChildOf(e, parent) ==
  e.event_type = "TaskCreated" /\ e.task_id # None /\ e.parent_task_id = parent

\* task_dependency_projection.  Integration nodes come in the order in which a
\* HashSet of parents is walked through, which is any.
IntegrationParents(log) ==
  {log[i].task_id : i \in {i \in 1..Len(log) : log[i].event_type = "IntegrationRequested"}}
    \ {None}

TaskOf(e) ==
  IF e.event_type # "TaskCreated" \/ e.task_id = None THEN <<>>
  ELSE << <<Task(e.task_id)>> >>
         \o IF e.parent_task_id = None THEN <<>>
            ELSE << <<Task(e.parent_task_id), Task(e.task_id)>> >>

ChildIntegrated(e, parent) ==
  IF IsChildOf(e, parent) THEN << <<Task(e.task_id), <<"integration", parent>>>> >> ELSE <<>>

IntegrationOf(log, parent) ==
  << << <<"integration", parent>> >> >>
    \o Joint([i \in 1..Len(log) |-> ChildIntegrated(log[i], parent)])

TaskDependencyTexts(log) ==
  { Joint([i \in 1..Len(log) |-> TaskOf(log[i])])
      \o Joint([i \in 1..Len(parents) |-> IntegrationOf(log, parents[i])]) :
      parents \in Sequence!SetToSeqs(IntegrationParents(log)) }

\* integration_group_projection.  The report is found by the group's id alone.
IsGroup(e) == e.event_type = "IntegrationRequested" /\ e.payload_ref \in GroupRef
IsReportOf(g, e) ==
  /\ e.event_type = "IntegrationRequested" /\ e.payload_ref \in ReportRef
  /\ RefTail[e.payload_ref] = RefTail[g.payload_ref]

ChildGrouped(e, g) ==
  IF IsChildOf(e, g.task_id)
  THEN << <<Task(e.task_id)>>, <<Task(e.task_id), <<"integration_group", g.event_id>>>> >>
  ELSE <<>>

\* report_events_by_group_id
ReportsOf(log, g) == {i \in 1..Len(log) : IsReportOf(g, log[i])}

GroupOf(log, g) ==
  LET group == <<"integration_group", g.event_id>>
      report == LastOf(log, ReportsOf(log, g))
  IN IF ~IsGroup(g) \/ g.task_id = None THEN <<>>
     ELSE << <<Task(g.task_id)>> >> \o Drawn(Task(g.task_id), group)
            \o Joint([i \in 1..Len(log) |-> ChildGrouped(log[i], g)])
            \o Joint([i \in 1..Len(report) |->
                        Caused(group, report[i], "integration_report", TRUE)])

IntegrationGroup(log) == Joint([i \in 1..Len(log) |-> GroupOf(log, log[i])])

\* topology_governance_projection
TopologyType ==
  { "TopologyProposed", "TopologyShadowed", "TopologyCanaried", "TopologyCommitted",
    "TopologyRolledBack" }

TopologyNode(e) == <<e.event_type, e.event_id>>

\* topology_events_by_id
TopologyCauses(log, e) ==
  {i \in 1..Len(log) : log[i].event_type \in TopologyType /\ log[i].event_id = e.causation_id}

TopologyOf(log, e) ==
  LET cause == LastOf(log, TopologyCauses(log, e))
  IN IF e.event_type \notin TopologyType THEN <<>>
     ELSE << <<TopologyNode(e)>> >>
            \o Joint([i \in 1..Len(cause) |-> << <<TopologyNode(cause[i]), TopologyNode(e)>> >>])

TopologyGovernance(log) == Joint([i \in 1..Len(log) |-> TopologyOf(log, log[i])])

\* loom_projection_bundle
Bundles(log) ==
  [ task_dependency : TaskDependencyTexts(log), route_trace : {RouteTrace(log)},
    artifact_provenance : {ArtifactProvenance(log)}, integration_group : {IntegrationGroup(log)},
    memory_lineage : {MemoryLineage(log)}, topology_governance : {TopologyGovernance(log)} ]
===============================================================================
