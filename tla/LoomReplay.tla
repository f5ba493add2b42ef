------------------------------ MODULE LoomReplay ------------------------------
(***************************************************************************)
(* loom_replay_report: a log is validated, and drawn if it is valid.           *)
(***************************************************************************)
EXTENDS ReplayValidation, LoomProjections

\* What loom_replay_report may return, once validation has its verdict: an error,
\* or the diagrams.
Reports ==
  IF events = <<>> THEN {"EmptyReplayLog"}
  ELSE IF verdict # "Valid" THEN {verdict}
  ELSE Bundles(events)

Drawings == verdict = "Valid" /\ events # <<>>

LinesOf(text) == {text[i] : i \in 1..Len(text)}

\* A later event of the same type has taken the place of event j among the events
\* of their cause.
Replaced(j) ==
  \E k \in (j + 1)..Len(events) :
    events[k].event_type = events[j].event_type /\ events[k].causation_id = events[j].causation_id

\* Every event of the type that has a task, and was not replaced, is drawn under
\* its cause, and so is the task that led to it.
Traced(text, type, name, cause_name) ==
  \A j \in Indices :
    events[j].event_type = type /\ events[j].task_id # None /\ ~Replaced(j) =>
      { <<Task(events[j].task_id), <<cause_name, events[j].causation_id>>>>,
        <<<<cause_name, events[j].causation_id>>, <<name, events[j].event_id>>>> }
        \subseteq LinesOf(text)

\* What leads to an event of these kinds of node comes before it in the log.
Position(id) == CHOOSE i \in Indices : events[i].event_id = id
Forward(text, names) ==
  \A line \in LinesOf(text) :
    Len(line) = 2 /\ line[2][1] \in names => Position(line[1][2]) < Position(line[2][2])

RollbacksTraced(text) ==
  \A k \in Indices : events[k].event_type = "TopologyRolledBack" =>
    \E i, j \in Indices :
      { <<<<"TopologyProposed", events[i].event_id>>, <<"TopologyCommitted", events[j].event_id>>>>,
        <<<<"TopologyCommitted", events[j].event_id>>, <<"TopologyRolledBack", events[k].event_id>>>> }
        \subseteq LinesOf(text)

\* The diagrams of a log that validates explain it: from every assignment, ready
\* artifact and memory node (but those another of the same cause replaced) back
\* to the task, from every rollback back to the proposal, from every child task on
\* to its parent's integration, and nothing follows from something later (but a
\* proposal, whose cause nobody checks).
ProjectionsTellTheLog ==
  Drawings =>
    \A report \in Reports :
      /\ Traced(report.route_trace, "TaskAssigned", "assignment", "route")
      /\ Traced(report.artifact_provenance, "ArtifactReady", "artifact_ready", "artifact_declared")
      /\ Traced(report.memory_lineage, "MemoryNodeCreated", "memory", "decommission")
      /\ RollbacksTraced(report.topology_governance)
      /\ \A c \in Child :
           <<Task(c.task_id), <<"integration", c.parent_task_id>>>> \in LinesOf(report.task_dependency)
      /\ Forward(report.route_trace, {"assignment"})
      /\ Forward(report.artifact_provenance, {"artifact_ready"})
      /\ Forward(report.memory_lineage, {"memory"})
      /\ Forward(report.topology_governance, TopologyType \ {"TopologyProposed"})

\* docs/mvp-roadmap.md: "Replaying the same log produces the same projections."
\* The report of a log is one and the same whenever it is asked for.
SameProjectionsAgain == Drawings => \A one, other \in Reports : one = other
===============================================================================
