----------------------------- MODULE TaskLoomProofs -----------------------------
(***************************************************************************)
(* MockTaskLoom::run_prompt panics on a collision of ids and on nothing else,   *)
(* for all tasks and ids a caller may configure.                             *)
(*                                                                         *)
(* The log is always a beginning of the nineteen events planned.  Each of them  *)
(* validates and has its cause before it, whatever the configuration, so that   *)
(* what is left of append's checks is the id.                                *)
(*                                                                         *)
(* Validation goes over that log: what it has collected after n events follows *)
(* from the plan, its checks fail for a foreign correlation alone, and the      *)
(* diagrams of the whole log have every line the plan calls for.              *)
(***************************************************************************)
EXTENDS TaskLoom, LoomEventsProofs

-----------------------------------------------------------------------------
(* The events of a run. *)

LEMMA PlannedIs ==
  /\ Len(Planned) = 19
  /\ Planned[1] = RootCreated /\ Planned[2] = ChildCreated(0) /\ Planned[3] = ChildCreated(1)
  /\ Planned[4] = PathRequested
  /\ Planned[5] = Routed(0) /\ Planned[6] = Assigned(0)
  /\ Planned[7] = Build(0)[1] /\ Planned[8] = Build(0)[2]
  /\ Planned[9] = Build(0)[3] /\ Planned[10] = Build(0)[4]
  /\ Planned[11] = Routed(1) /\ Planned[12] = Assigned(1)
  /\ Planned[13] = Build(1)[1] /\ Planned[14] = Build(1)[2]
  /\ Planned[15] = Build(1)[3] /\ Planned[16] = Build(1)[4]
  /\ Planned[17] = Joined /\ Planned[18] = Remembered(0) /\ Planned[19] = Remembered(1)
<1>1. \A i : Len(Build(i)) = 4
  BY DEF Build
<1> QED BY <1>1 DEF Planned, Build

LEMMA PlannedPlaces == 1..19 = {1, 2, 3, 4, 5, 6, 7, 8, 9, 10, 11, 12, 13, 14, 15, 16, 17, 18, 19}
OBVIOUS

\* What configurations are made of.
LEMMA ConfigFacts ==
  ASSUME config \in Config
  PROVE  /\ config.root \in RootId /\ config.root \in TaskId /\ Child(0) \in TaskId /\ Child(1) \in TaskId
         /\ config.integration_event \in EventId /\ config.integration_correlation \in Correlation
         /\ config.curator_event \in EventId /\ config.curator_event + 1 \in EventId
         /\ config.curator_correlation \in Correlation
         /\ config.curator_event \in Nat /\ config.summary \in BOOLEAN
         /\ FixedIds \subseteq EventId /\ Correlated \in Correlation
<1>1. config \in [ summary : BOOLEAN, root : RootId, first_child : TaskId,
                   integration_event : EventId, integration_correlation : Correlation,
                   curator_event : EventId, curator_correlation : Correlation ]
  BY ConfigAssumption
<1>2. config.first_child \in Nat /\ {config.root, config.first_child, config.first_child + 1} \subseteq TaskId
      /\ FixedIds \cup {config.curator_event, config.curator_event + 1} \subseteq EventId
  BY VocabularyAssumption
<1>3. Child(0) = config.first_child /\ Child(1) = config.first_child + 1
  BY <1>2 DEF Child
<1> QED BY <1>1, <1>2, <1>3, RootAssumption, EventIdAssumption

LEMMA References ==
  ASSUME config \in Config, NEW i \in 0..1
  PROVE  /\ <<"task", config.root>> \in OtherRef /\ <<"task", Child(i)>> \in OtherRef
         /\ <<"assignment", Child(i)>> \in OtherRef /\ <<"decommission", Child(i)>> \in OtherRef
         /\ <<"route-decision", 500 + i>> \in RouteRef
         /\ <<"artifact", 900 + i>> \in OtherRef /\ <<"memory", 1500 + i>> \in OtherRef
         /\ <<"group", 0>> \in OtherRef /\ <<"report", 0>> \in OtherRef
<1> DEFINE task == {config.root, config.first_child, config.first_child + 1}
<1>1. /\ {"task", "assignment", "decommission"} \X task \subseteq OtherRef
      /\ config.first_child \in Nat
  BY VocabularyAssumption
<1>2. Child(i) \in task /\ config.root \in task
  BY <1>1 DEF Child
<1>3. 500 + i \in 500..501 /\ 900 + i \in 900..901 /\ 1500 + i \in 1500..1501
  OBVIOUS
<1> HIDE DEF task
<1>4. /\ <<"task", config.root>> \in OtherRef /\ <<"task", Child(i)>> \in OtherRef
      /\ <<"assignment", Child(i)>> \in OtherRef /\ <<"decommission", Child(i)>> \in OtherRef
  BY <1>1, <1>2
<1>5. /\ <<"route-decision", 500 + i>> \in RouteRef
      /\ <<"artifact", 900 + i>> \in OtherRef /\ <<"memory", 1500 + i>> \in OtherRef
      /\ <<"group", 0>> \in OtherRef /\ <<"report", 0>> \in OtherRef
  BY <1>3, VocabularyAssumption
<1> QED BY <1>4, <1>5

\* The event e is valid, and says this.
Says(e, id, type, task, ref) ==
  /\ e \in Event /\ Validates(e)
  /\ e.event_id = id /\ e.event_type = type /\ e.task_id = task /\ e.payload_ref = ref
  /\ e.root_task_id = config.root

LEMMA FixedFacts ==
  /\ \A n \in {1, 2, 3, 10, 100, 101, 102, 103, 2000, 2001, 2002, 2003, 2010, 2011, 2012, 2013} : n \in FixedIds
  /\ \A i \in 0..1 :
       /\ 2 + i \in FixedIds /\ 100 + 2 * i \in FixedIds /\ 101 + 2 * i \in FixedIds
       /\ \A n \in 0..3 : 2000 + 10 * i + n \in FixedIds
BY DEF FixedIds

\* An event with nothing but what all have in common, and the same with more said.
LEMMA RecordedFacts ==
  ASSUME config \in Config, NEW id \in EventId, NEW type \in EventType, NEW task \in TaskId,
         NEW ref \in OtherRef \cup RouteRef
  PROVE  /\ Recorded(id, type, task, ref) \in Event
         /\ Recorded(id, type, task, ref).event_id = id
         /\ Recorded(id, type, task, ref).event_type = type
         /\ Recorded(id, type, task, ref).task_id = task
         /\ Recorded(id, type, task, ref).payload_ref = ref
         /\ Recorded(id, type, task, ref).root_task_id = config.root
         /\ Recorded(id, type, task, ref).payload_schema = "other"
         /\ Recorded(id, type, task, ref).correlation_id = Correlated
<1>1. Recorded(id, type, task, ref) \in Event
  BY ConfigFacts DEF Recorded, Event, Schema
<1> QED BY <1>1 DEF Recorded

LEMMA SaysMore ==
  ASSUME config \in Config, NEW id, NEW type, NEW task \in TaskId, NEW ref \in OtherRef \cup RouteRef,
         NEW e \in Event, e.event_id = id, e.event_type = type, e.task_id = task,
         e.payload_ref = ref, e.root_task_id = config.root,
         e.payload_schema \in {"other", "qtom.route_decision.v1"},
         type = "AgentDecommissioned" => e.has_agent,
         type \in {"RouteDecisionRecorded", "TopologyCommitted", "TopologyRolledBack"} => e.has_snapshot
  PROVE  Says(e, id, type, task, ref)
<1>1. task # None /\ ref # None
  BY NoneAssumption
<1>2. Validates(e)
  BY <1>1 DEF Validates, RequiresTaskId, RequiresAgentId, RequiresTopologySnapshotId
<1> QED BY <1>2 DEF Says

LEMMA RootCreatedSays ==
  ASSUME config \in Config
  PROVE  /\ Says(RootCreated, 1, "TaskCreated", config.root, <<"task", config.root>>)
<1> DEFINE id == 1
           task == config.root
           ref == <<"task", config.root>>
           r == Recorded(id, "TaskCreated", task, ref)
<1>1. /\ id \in EventId /\ "TaskCreated" \in EventType /\ task \in TaskId /\ ref \in OtherRef \cup RouteRef
  BY ConfigFacts, FixedFacts, References DEF EventType
<1>2. RootCreated = r
  BY DEF RootCreated
<1> HIDE DEF id, task, ref, r
<1>3. /\ r \in Event /\ r.event_id = id /\ r.event_type = "TaskCreated" /\ r.task_id = task
      /\ r.payload_ref = ref /\ r.root_task_id = config.root /\ r.payload_schema = "other"
      /\ r.correlation_id = Correlated
  BY <1>1, RecordedFacts DEF r
<1> DEFINE e == r
<1>4. e \in Event
  BY <1>1, <1>3 DEF Event, Schema
<1>5. /\ e.event_id = id /\ e.event_type = "TaskCreated" /\ e.task_id = task
      /\ e.payload_ref = ref /\ e.root_task_id = config.root
      /\ e.payload_schema \in {"other", "qtom.route_decision.v1"}
  BY <1>1, <1>3 DEF Event
<1> HIDE DEF e
<1>6. Says(e, id, "TaskCreated", task, ref)
  BY <1>1, <1>4, <1>5, SaysMore
<1> QED BY <1>2, <1>5, <1>6 DEF e, id, task, ref

LEMMA ChildCreatedSays ==
  ASSUME config \in Config, NEW i \in 0..1
  PROVE  /\ Says(ChildCreated(i), 2 + i, "TaskCreated", Child(i), <<"task", Child(i)>>)
<1> DEFINE id == 2 + i
           task == Child(i)
           ref == <<"task", Child(i)>>
           parent == config.root
           r == Recorded(id, "TaskCreated", task, ref)
<1>1. /\ id \in EventId /\ "TaskCreated" \in EventType /\ task \in TaskId /\ ref \in OtherRef \cup RouteRef
      /\ parent \in TaskId \cup {None}
  BY ConfigFacts, FixedFacts, References DEF EventType
<1>2. ChildCreated(i) = [r EXCEPT !.parent_task_id = parent]
  BY DEF ChildCreated
<1> HIDE DEF id, task, ref, parent, r
<1>3. /\ r \in Event /\ r.event_id = id /\ r.event_type = "TaskCreated" /\ r.task_id = task
      /\ r.payload_ref = ref /\ r.root_task_id = config.root /\ r.payload_schema = "other"
      /\ r.correlation_id = Correlated
  BY <1>1, RecordedFacts DEF r
<1> DEFINE e == [r EXCEPT !.parent_task_id = parent]
<1>4. e \in Event
  BY <1>1, <1>3 DEF Event, Schema
<1>5. /\ e.event_id = id /\ e.event_type = "TaskCreated" /\ e.task_id = task
      /\ e.payload_ref = ref /\ e.root_task_id = config.root
      /\ e.payload_schema \in {"other", "qtom.route_decision.v1"}
  BY <1>1, <1>3 DEF Event
<1> HIDE DEF e
<1>6. Says(e, id, "TaskCreated", task, ref)
  BY <1>1, <1>4, <1>5, SaysMore
<1> QED BY <1>2, <1>5, <1>6 DEF e, id, task, ref, parent

LEMMA PathRequestedSays ==
  ASSUME config \in Config
  PROVE  /\ Says(PathRequested, 10, "IntegrationRequested", config.root, <<"group", 0>>)
<1> DEFINE id == 10
           task == config.root
           ref == <<"group", 0>>
           r == Recorded(id, "IntegrationRequested", task, ref)
<1>1. /\ id \in EventId /\ "IntegrationRequested" \in EventType /\ task \in TaskId /\ ref \in OtherRef \cup RouteRef
  BY ConfigFacts, FixedFacts, References DEF EventType
<1>2. PathRequested = [r EXCEPT !.has_agent = TRUE]
  BY DEF PathRequested
<1> HIDE DEF id, task, ref, r
<1>3. /\ r \in Event /\ r.event_id = id /\ r.event_type = "IntegrationRequested" /\ r.task_id = task
      /\ r.payload_ref = ref /\ r.root_task_id = config.root /\ r.payload_schema = "other"
      /\ r.correlation_id = Correlated
  BY <1>1, RecordedFacts DEF r
<1> DEFINE e == [r EXCEPT !.has_agent = TRUE]
<1>4. e \in Event
  BY <1>1, <1>3 DEF Event, Schema
<1>5. /\ e.event_id = id /\ e.event_type = "IntegrationRequested" /\ e.task_id = task
      /\ e.payload_ref = ref /\ e.root_task_id = config.root
      /\ e.payload_schema \in {"other", "qtom.route_decision.v1"}
      /\ e.has_agent
  BY <1>1, <1>3 DEF Event
<1> HIDE DEF e
<1>6. Says(e, id, "IntegrationRequested", task, ref)
  BY <1>1, <1>4, <1>5, SaysMore
<1> QED BY <1>2, <1>5, <1>6 DEF e, id, task, ref

LEMMA RoutedSays ==
  ASSUME config \in Config, NEW i \in 0..1
  PROVE  /\ Says(Routed(i), 100 + 2 * i, "RouteDecisionRecorded", Child(i), <<"route-decision", 500 + i>>)
         /\ Routed(i).correlation_id = Correlated
<1> DEFINE id == 100 + 2 * i
           task == Child(i)
           ref == <<"route-decision", 500 + i>>
           r == Recorded(id, "RouteDecisionRecorded", task, ref)
<1>1. /\ id \in EventId /\ "RouteDecisionRecorded" \in EventType /\ task \in TaskId /\ ref \in OtherRef \cup RouteRef
  BY ConfigFacts, FixedFacts, References DEF EventType
<1>2. Routed(i) = [r EXCEPT !.has_snapshot = TRUE, !.payload_schema = "qtom.route_decision.v1"]
  BY DEF Routed
<1> HIDE DEF id, task, ref, r
<1>3. /\ r \in Event /\ r.event_id = id /\ r.event_type = "RouteDecisionRecorded" /\ r.task_id = task
      /\ r.payload_ref = ref /\ r.root_task_id = config.root /\ r.payload_schema = "other"
      /\ r.correlation_id = Correlated
  BY <1>1, RecordedFacts DEF r
<1> DEFINE e == [r EXCEPT !.has_snapshot = TRUE, !.payload_schema = "qtom.route_decision.v1"]
<1>4. e \in Event
  BY <1>1, <1>3 DEF Event, Schema
<1>5. /\ e.event_id = id /\ e.event_type = "RouteDecisionRecorded" /\ e.task_id = task
      /\ e.payload_ref = ref /\ e.root_task_id = config.root
      /\ e.payload_schema \in {"other", "qtom.route_decision.v1"}
      /\ e.has_snapshot
      /\ e.correlation_id = Correlated
  BY <1>1, <1>3 DEF Event
<1> HIDE DEF e
<1>6. Says(e, id, "RouteDecisionRecorded", task, ref)
  BY <1>1, <1>4, <1>5, SaysMore
<1> QED BY <1>2, <1>5, <1>6 DEF e, id, task, ref

LEMMA AssignedSays ==
  ASSUME config \in Config, NEW i \in 0..1
  PROVE  /\ Says(Assigned(i), 101 + 2 * i, "TaskAssigned", Child(i), <<"assignment", Child(i)>>)
         /\ Assigned(i).correlation_id = Correlated
         /\ Assigned(i).causation_id = 100 + 2 * i
<1> DEFINE id == 101 + 2 * i
           task == Child(i)
           ref == <<"assignment", Child(i)>>
           parent == config.root
           cause == 100 + 2 * i
           r == Recorded(id, "TaskAssigned", task, ref)
<1>1. /\ id \in EventId /\ "TaskAssigned" \in EventType /\ task \in TaskId /\ ref \in OtherRef \cup RouteRef
      /\ parent \in TaskId \cup {None} /\ cause \in EventId \cup {None}
  BY ConfigFacts, FixedFacts, References DEF EventType
<1>2. Assigned(i) = [r EXCEPT !.parent_task_id = parent, !.has_agent = TRUE, !.causation_id = cause]
  BY DEF Assigned
<1> HIDE DEF id, task, ref, parent, cause, r
<1>3. /\ r \in Event /\ r.event_id = id /\ r.event_type = "TaskAssigned" /\ r.task_id = task
      /\ r.payload_ref = ref /\ r.root_task_id = config.root /\ r.payload_schema = "other"
      /\ r.correlation_id = Correlated
  BY <1>1, RecordedFacts DEF r
<1> DEFINE e == [r EXCEPT !.parent_task_id = parent, !.has_agent = TRUE, !.causation_id = cause]
<1>4. e \in Event
  BY <1>1, <1>3 DEF Event, Schema
<1>5. /\ e.event_id = id /\ e.event_type = "TaskAssigned" /\ e.task_id = task
      /\ e.payload_ref = ref /\ e.root_task_id = config.root
      /\ e.payload_schema \in {"other", "qtom.route_decision.v1"}
      /\ e.has_agent
      /\ e.correlation_id = Correlated
      /\ e.causation_id = cause
  BY <1>1, <1>3 DEF Event
<1> HIDE DEF e
<1>6. Says(e, id, "TaskAssigned", task, ref)
  BY <1>1, <1>4, <1>5, SaysMore
<1> QED BY <1>2, <1>5, <1>6 DEF e, id, task, ref, parent, cause

LEMMA DeclaredSays ==
  ASSUME config \in Config, NEW i \in 0..1
  PROVE  /\ Says(Build(i)[1], 2000 + 10 * i + 0, "ArtifactDeclared", Child(i), <<"artifact", 900 + i>>)
         /\ Build(i)[1].correlation_id = Correlated
<1> DEFINE id == 2000 + 10 * i + 0
           task == Child(i)
           ref == <<"artifact", 900 + i>>
           parent == config.root
           cause == None
           r == Recorded(id, "ArtifactDeclared", task, ref)
<1>1. /\ id \in EventId /\ "ArtifactDeclared" \in EventType /\ task \in TaskId /\ ref \in OtherRef \cup RouteRef
      /\ parent \in TaskId \cup {None} /\ cause \in EventId \cup {None}
  BY ConfigFacts, FixedFacts, References DEF EventType
<1>2. Build(i)[1] = [r EXCEPT !.parent_task_id = parent, !.has_agent = TRUE, !.causation_id = cause]
  BY DEF Build, Constructed
<1> HIDE DEF id, task, ref, parent, cause, r
<1>3. /\ r \in Event /\ r.event_id = id /\ r.event_type = "ArtifactDeclared" /\ r.task_id = task
      /\ r.payload_ref = ref /\ r.root_task_id = config.root /\ r.payload_schema = "other"
      /\ r.correlation_id = Correlated
  BY <1>1, RecordedFacts DEF r
<1> DEFINE e == [r EXCEPT !.parent_task_id = parent, !.has_agent = TRUE, !.causation_id = cause]
<1>4. e \in Event
  BY <1>1, <1>3 DEF Event, Schema
<1>5. /\ e.event_id = id /\ e.event_type = "ArtifactDeclared" /\ e.task_id = task
      /\ e.payload_ref = ref /\ e.root_task_id = config.root
      /\ e.payload_schema \in {"other", "qtom.route_decision.v1"}
      /\ e.has_agent
      /\ e.correlation_id = Correlated
  BY <1>1, <1>3 DEF Event
<1> HIDE DEF e
<1>6. Says(e, id, "ArtifactDeclared", task, ref)
  BY <1>1, <1>4, <1>5, SaysMore
<1> QED BY <1>2, <1>5, <1>6 DEF e, id, task, ref, parent, cause

LEMMA ReadySays ==
  ASSUME config \in Config, NEW i \in 0..1
  PROVE  /\ Says(Build(i)[2], 2000 + 10 * i + 1, "ArtifactReady", Child(i), <<"artifact", 900 + i>>)
         /\ Build(i)[2].correlation_id = Correlated
         /\ Build(i)[2].causation_id = 2000 + 10 * i
<1> DEFINE id == 2000 + 10 * i + 1
           task == Child(i)
           ref == <<"artifact", 900 + i>>
           parent == config.root
           cause == 2000 + 10 * i
           r == Recorded(id, "ArtifactReady", task, ref)
<1>1. /\ id \in EventId /\ "ArtifactReady" \in EventType /\ task \in TaskId /\ ref \in OtherRef \cup RouteRef
      /\ parent \in TaskId \cup {None} /\ cause \in EventId \cup {None}
  BY ConfigFacts, FixedFacts, References DEF EventType
<1>2. Build(i)[2] = [r EXCEPT !.parent_task_id = parent, !.has_agent = TRUE, !.causation_id = cause]
  BY DEF Build, Constructed
<1> HIDE DEF id, task, ref, parent, cause, r
<1>3. /\ r \in Event /\ r.event_id = id /\ r.event_type = "ArtifactReady" /\ r.task_id = task
      /\ r.payload_ref = ref /\ r.root_task_id = config.root /\ r.payload_schema = "other"
      /\ r.correlation_id = Correlated
  BY <1>1, RecordedFacts DEF r
<1> DEFINE e == [r EXCEPT !.parent_task_id = parent, !.has_agent = TRUE, !.causation_id = cause]
<1>4. e \in Event
  BY <1>1, <1>3 DEF Event, Schema
<1>5. /\ e.event_id = id /\ e.event_type = "ArtifactReady" /\ e.task_id = task
      /\ e.payload_ref = ref /\ e.root_task_id = config.root
      /\ e.payload_schema \in {"other", "qtom.route_decision.v1"}
      /\ e.has_agent
      /\ e.correlation_id = Correlated
      /\ e.causation_id = cause
  BY <1>1, <1>3 DEF Event
<1> HIDE DEF e
<1>6. Says(e, id, "ArtifactReady", task, ref)
  BY <1>1, <1>4, <1>5, SaysMore
<1> QED BY <1>2, <1>5, <1>6 DEF e, id, task, ref, parent, cause

LEMMA CompletedSays ==
  ASSUME config \in Config, NEW i \in 0..1
  PROVE  /\ Says(Build(i)[3], 2000 + 10 * i + 2, "TaskCompleted", Child(i), <<"artifact", 900 + i>>)
<1> DEFINE id == 2000 + 10 * i + 2
           task == Child(i)
           ref == <<"artifact", 900 + i>>
           parent == config.root
           cause == None
           r == Recorded(id, "TaskCompleted", task, ref)
<1>1. /\ id \in EventId /\ "TaskCompleted" \in EventType /\ task \in TaskId /\ ref \in OtherRef \cup RouteRef
      /\ parent \in TaskId \cup {None} /\ cause \in EventId \cup {None}
  BY ConfigFacts, FixedFacts, References DEF EventType
<1>2. Build(i)[3] = [r EXCEPT !.parent_task_id = parent, !.has_agent = TRUE, !.causation_id = cause]
  BY DEF Build, Constructed
<1> HIDE DEF id, task, ref, parent, cause, r
<1>3. /\ r \in Event /\ r.event_id = id /\ r.event_type = "TaskCompleted" /\ r.task_id = task
      /\ r.payload_ref = ref /\ r.root_task_id = config.root /\ r.payload_schema = "other"
      /\ r.correlation_id = Correlated
  BY <1>1, RecordedFacts DEF r
<1> DEFINE e == [r EXCEPT !.parent_task_id = parent, !.has_agent = TRUE, !.causation_id = cause]
<1>4. e \in Event
  BY <1>1, <1>3 DEF Event, Schema
<1>5. /\ e.event_id = id /\ e.event_type = "TaskCompleted" /\ e.task_id = task
      /\ e.payload_ref = ref /\ e.root_task_id = config.root
      /\ e.payload_schema \in {"other", "qtom.route_decision.v1"}
      /\ e.has_agent
  BY <1>1, <1>3 DEF Event
<1> HIDE DEF e
<1>6. Says(e, id, "TaskCompleted", task, ref)
  BY <1>1, <1>4, <1>5, SaysMore
<1> QED BY <1>2, <1>5, <1>6 DEF e, id, task, ref, parent, cause

LEMMA DecommissionedSays ==
  ASSUME config \in Config, NEW i \in 0..1
  PROVE  /\ Says(Build(i)[4], 2000 + 10 * i + 3, "AgentDecommissioned", Child(i), <<"decommission", Child(i)>>)
<1> DEFINE id == 2000 + 10 * i + 3
           task == Child(i)
           ref == <<"decommission", Child(i)>>
           parent == config.root
           cause == None
           r == Recorded(id, "AgentDecommissioned", task, ref)
<1>1. /\ id \in EventId /\ "AgentDecommissioned" \in EventType /\ task \in TaskId /\ ref \in OtherRef \cup RouteRef
      /\ parent \in TaskId \cup {None} /\ cause \in EventId \cup {None}
  BY ConfigFacts, FixedFacts, References DEF EventType
<1>2. Build(i)[4] = [r EXCEPT !.parent_task_id = parent, !.has_agent = TRUE, !.causation_id = cause]
  BY DEF Build, Constructed
<1> HIDE DEF id, task, ref, parent, cause, r
<1>3. /\ r \in Event /\ r.event_id = id /\ r.event_type = "AgentDecommissioned" /\ r.task_id = task
      /\ r.payload_ref = ref /\ r.root_task_id = config.root /\ r.payload_schema = "other"
      /\ r.correlation_id = Correlated
  BY <1>1, RecordedFacts DEF r
<1> DEFINE e == [r EXCEPT !.parent_task_id = parent, !.has_agent = TRUE, !.causation_id = cause]
<1>4. e \in Event
  BY <1>1, <1>3 DEF Event, Schema
<1>5. /\ e.event_id = id /\ e.event_type = "AgentDecommissioned" /\ e.task_id = task
      /\ e.payload_ref = ref /\ e.root_task_id = config.root
      /\ e.payload_schema \in {"other", "qtom.route_decision.v1"}
      /\ e.has_agent
  BY <1>1, <1>3 DEF Event
<1> HIDE DEF e
<1>6. Says(e, id, "AgentDecommissioned", task, ref)
  BY <1>1, <1>4, <1>5, SaysMore
<1> QED BY <1>2, <1>5, <1>6 DEF e, id, task, ref, parent, cause

LEMMA JoinedSays ==
  ASSUME config \in Config
  PROVE  /\ Says(Joined, config.integration_event, "IntegrationRequested", config.root, <<"report", 0>>)
<1> DEFINE id == config.integration_event
           task == config.root
           ref == <<"report", 0>>
           correlation == config.integration_correlation
           r == Recorded(id, "IntegrationRequested", task, ref)
<1>1. /\ id \in EventId /\ "IntegrationRequested" \in EventType /\ task \in TaskId /\ ref \in OtherRef \cup RouteRef
      /\ correlation \in Correlation
  BY ConfigFacts, FixedFacts, References DEF EventType
<1>2. Joined = [r EXCEPT !.has_agent = TRUE, !.correlation_id = correlation]
  BY DEF Joined
<1> HIDE DEF id, task, ref, correlation, r
<1>3. /\ r \in Event /\ r.event_id = id /\ r.event_type = "IntegrationRequested" /\ r.task_id = task
      /\ r.payload_ref = ref /\ r.root_task_id = config.root /\ r.payload_schema = "other"
      /\ r.correlation_id = Correlated
  BY <1>1, RecordedFacts DEF r
<1> DEFINE e == [r EXCEPT !.has_agent = TRUE, !.correlation_id = correlation]
<1>4. e \in Event
  BY <1>1, <1>3 DEF Event, Schema
<1>5. /\ e.event_id = id /\ e.event_type = "IntegrationRequested" /\ e.task_id = task
      /\ e.payload_ref = ref /\ e.root_task_id = config.root
      /\ e.payload_schema \in {"other", "qtom.route_decision.v1"}
      /\ e.has_agent
  BY <1>1, <1>3 DEF Event
<1> HIDE DEF e
<1>6. Says(e, id, "IntegrationRequested", task, ref)
  BY <1>1, <1>4, <1>5, SaysMore
<1> QED BY <1>2, <1>5, <1>6 DEF e, id, task, ref, correlation

LEMMA RememberedSays ==
  ASSUME config \in Config, NEW i \in 0..1
  PROVE  /\ Says(Remembered(i), config.curator_event + i, "MemoryNodeCreated", Child(i), <<"memory", 1500 + i>>)
<1> DEFINE id == config.curator_event + i
           task == Child(i)
           ref == <<"memory", 1500 + i>>
           cause == 2003 + 10 * i
           correlation == config.curator_correlation
           r == Recorded(id, "MemoryNodeCreated", task, ref)
<1>1. /\ id \in EventId /\ "MemoryNodeCreated" \in EventType /\ task \in TaskId /\ ref \in OtherRef \cup RouteRef
      /\ cause \in EventId \cup {None} /\ correlation \in Correlation
  BY ConfigFacts, FixedFacts, References DEF EventType
<1>2. Remembered(i) = [r EXCEPT !.has_agent = TRUE, !.causation_id = cause, !.correlation_id = correlation]
  BY DEF Remembered
<1> HIDE DEF id, task, ref, cause, correlation, r
<1>3. /\ r \in Event /\ r.event_id = id /\ r.event_type = "MemoryNodeCreated" /\ r.task_id = task
      /\ r.payload_ref = ref /\ r.root_task_id = config.root /\ r.payload_schema = "other"
      /\ r.correlation_id = Correlated
  BY <1>1, RecordedFacts DEF r
<1> DEFINE e == [r EXCEPT !.has_agent = TRUE, !.causation_id = cause, !.correlation_id = correlation]
<1>4. e \in Event
  BY <1>1, <1>3 DEF Event, Schema
<1>5. /\ e.event_id = id /\ e.event_type = "MemoryNodeCreated" /\ e.task_id = task
      /\ e.payload_ref = ref /\ e.root_task_id = config.root
      /\ e.payload_schema \in {"other", "qtom.route_decision.v1"}
      /\ e.has_agent
  BY <1>1, <1>3 DEF Event
<1> HIDE DEF e
<1>6. Says(e, id, "MemoryNodeCreated", task, ref)
  BY <1>1, <1>4, <1>5, SaysMore
<1> QED BY <1>2, <1>5, <1>6 DEF e, id, task, ref, cause, correlation

-----------------------------------------------------------------------------
(* What append asks of them. *)

\* Their ids, in their order.
Ids ==
  << 1, 2, 3, 10, 100, 101, 2000, 2001, 2002, 2003, 102, 103, 2010, 2011, 2012, 2013,
     config.integration_event, config.curator_event, config.curator_event + 1 >>

LEMMA PlannedAreValid ==
  ASSUME config \in Config, NEW n \in 1..19
  PROVE  Planned[n] \in Event /\ Validates(Planned[n]) /\ Planned[n].event_id = Ids[n]
<1> DEFINE Fine(e, id) == e \in Event /\ Validates(e) /\ e.event_id = id
<1>1. /\ Fine(Planned[1], 1) /\ Fine(Planned[4], 10)
      /\ Fine(Planned[17], config.integration_event)
  BY PlannedIs, RootCreatedSays, PathRequestedSays, JoinedSays DEF Says
<1>2. Fine(Planned[2], 2) /\ Fine(Planned[3], 3)
  BY PlannedIs, ChildCreatedSays DEF Says
<1>3. Fine(Planned[5], 100) /\ Fine(Planned[11], 102)
  BY PlannedIs, RoutedSays DEF Says
<1>4. Fine(Planned[6], 101) /\ Fine(Planned[12], 103)
  BY PlannedIs, AssignedSays DEF Says
<1>5. Fine(Planned[7], 2000) /\ Fine(Planned[13], 2010)
  BY PlannedIs, DeclaredSays DEF Says
<1>6. Fine(Planned[8], 2001) /\ Fine(Planned[14], 2011)
  BY PlannedIs, ReadySays DEF Says
<1>7. Fine(Planned[9], 2002) /\ Fine(Planned[15], 2012)
  BY PlannedIs, CompletedSays DEF Says
<1>8. Fine(Planned[10], 2003) /\ Fine(Planned[16], 2013)
  BY PlannedIs, DecommissionedSays DEF Says
<1>9. Fine(Planned[18], config.curator_event) /\ Fine(Planned[19], config.curator_event + 1)
  BY PlannedIs, RememberedSays, ConfigFacts DEF Says
<1> HIDE DEF Fine
<1>10. Fine(Planned[n], Ids[n])
  BY <1>1, <1>2, <1>3, <1>4, <1>5, <1>6, <1>7, <1>8, <1>9, PlannedPlaces DEF Ids
<1> QED BY <1>10 DEF Fine

\* Those that need a cause have it before them: the assignments, and what is ready.
LEMMA PlannedAreCaused ==
  ASSUME config \in Config, NEW n \in 1..19, Planned[n].event_type \in DOMAIN RequiredCause
  PROVE  \E j \in 1..(n - 1) : IsCause(Planned, j, Planned[n])
<1>1. DOMAIN RequiredCause = { "TaskAssigned", "ArtifactReady", "TaskResumed", "TopologyShadowed",
                               "TopologyCanaried", "TopologyCommitted", "TopologyRolledBack" }
  BY DEF RequiredCause
<1> DEFINE Type(m) == Planned[m].event_type
<1>2. /\ Type(1) = "TaskCreated" /\ Type(4) = "IntegrationRequested"
      /\ Type(17) = "IntegrationRequested"
  BY PlannedIs, RootCreatedSays, PathRequestedSays, JoinedSays DEF Says
<1>3. /\ Type(2) = "TaskCreated" /\ Type(3) = "TaskCreated"
      /\ Type(5) = "RouteDecisionRecorded" /\ Type(11) = "RouteDecisionRecorded"
  BY PlannedIs, ChildCreatedSays, RoutedSays DEF Says
<1>4. /\ Type(7) = "ArtifactDeclared" /\ Type(13) = "ArtifactDeclared"
      /\ Type(9) = "TaskCompleted" /\ Type(15) = "TaskCompleted"
  BY PlannedIs, DeclaredSays, CompletedSays DEF Says
<1>5. /\ Type(10) = "AgentDecommissioned" /\ Type(16) = "AgentDecommissioned"
      /\ Type(18) = "MemoryNodeCreated" /\ Type(19) = "MemoryNodeCreated"
  BY PlannedIs, DecommissionedSays, RememberedSays DEF Says
<1>6. n \in {6, 8, 12, 14}
  <2>1. Type(n) \in { "TaskAssigned", "ArtifactReady", "TaskResumed", "TopologyShadowed",
                      "TopologyCanaried", "TopologyCommitted", "TopologyRolledBack" }
    BY <1>1
  <2> HIDE DEF Type
  <2> QED BY <1>2, <1>3, <1>4, <1>5, <2>1, PlannedPlaces
<1>7. /\ RequiredCause["TaskAssigned"] = "RouteDecisionRecorded"
      /\ RequiredCause["ArtifactReady"] = "ArtifactDeclared"
  BY DEF RequiredCause
<1>8. ASSUME NEW i \in 0..1, NEW a, NEW r, a = Assigned(i), r = Routed(i)
      PROVE  /\ r.event_id = a.causation_id /\ r.event_type = RequiredCause[a.event_type]
             /\ AgreesWithCause(a, r)
  BY <1>7, <1>8, AssignedSays, RoutedSays DEF Says, AgreesWithCause, SameContext
<1>9. ASSUME NEW i \in 0..1, NEW a, NEW d, a = Build(i)[2], d = Build(i)[1]
      PROVE  /\ d.event_id = a.causation_id /\ d.event_type = RequiredCause[a.event_type]
             /\ AgreesWithCause(a, d)
  <2>1. d.event_id = 2000 + 10 * i + 0 /\ a.causation_id = 2000 + 10 * i
    BY <1>9, DeclaredSays, ReadySays DEF Says
  <2>2. d.event_id = a.causation_id
    BY <2>1
  <2> QED BY <1>7, <1>9, <2>2, DeclaredSays, ReadySays DEF Says, AgreesWithCause, SameContext
<1>10. IsCause(Planned, 5, Planned[6]) /\ IsCause(Planned, 11, Planned[12])
  BY <1>8, PlannedIs DEF IsCause
<1>11. IsCause(Planned, 7, Planned[8]) /\ IsCause(Planned, 13, Planned[14])
  BY <1>9, PlannedIs DEF IsCause
<1> QED BY <1>6, <1>10, <1>11

\* So append looks for the id alone.
LEMMA AcceptsByIdAlone ==
  ASSUME config \in Config, NEW log \in Seq(Event), Len(log) < 19,
         \A j \in 1..Len(log) : log[j] = Planned[j]
  PROVE  Accepts(log, IdsOf(log), Planned[Len(log) + 1]) <=>
           \A j \in 1..Len(log) : Ids[j] # Ids[Len(log) + 1]
<1> DEFINE n == Len(log) + 1
           e == Planned[n]
<1>1. n \in 1..19 /\ Len(log) = n - 1 /\ \A j \in 1..Len(log) : j \in 1..19
  <2>1. Len(log) \in Nat
    OBVIOUS
  <2> QED BY <2>1
<1>2. Validates(e) /\ e.event_id = Ids[n]
  BY <1>1, PlannedAreValid
<1>3. ValidCausation(log, e)
  <2> SUFFICES ASSUME e.event_type \in DOMAIN RequiredCause
               PROVE  \E j \in 1..Len(log) : IsCause(log, j, e)
    BY DEF ValidCausation
  <2>1. PICK j \in 1..(n - 1) : IsCause(Planned, j, e)
    BY <1>1, PlannedAreCaused
  <2>2. log[j] = Planned[j] /\ j \in 1..Len(log)
    BY <1>1, <2>1
  <2>3. IsCause(log, j, e)
    BY <2>1, <2>2 DEF IsCause
  <2> QED BY <2>2, <2>3
<1>4. \A j \in 1..Len(log) : log[j].event_id = Ids[j]
  BY <1>1, PlannedAreValid
<1> HIDE DEF n, e
<1>5. e.event_id \notin IdsOf(log) <=> \A j \in 1..Len(log) : Ids[j] # Ids[n]
  BY <1>2, <1>4 DEF IdsOf
<1>6. Accepts(log, IdsOf(log), e) <=> \A j \in 1..Len(log) : Ids[j] # Ids[n]
  BY <1>2, <1>3, <1>5 DEF Accepts
<1> QED BY <1>6 DEF n, e

\* A configured id is already in the log: the reason to panic.
Collides ==
  LET curated == {config.curator_event, config.curator_event + 1}
  IN \/ config.integration_event \in FixedIds \cup curated
     \/ curated \cap FixedIds # {}

LEMMA IdsAre ==
  /\ Ids[1] = 1 /\ Ids[2] = 2 /\ Ids[3] = 3 /\ Ids[4] = 10
  /\ Ids[5] = 100 /\ Ids[6] = 101 /\ Ids[7] = 2000 /\ Ids[8] = 2001
  /\ Ids[9] = 2002 /\ Ids[10] = 2003 /\ Ids[11] = 102 /\ Ids[12] = 103
  /\ Ids[13] = 2010 /\ Ids[14] = 2011 /\ Ids[15] = 2012 /\ Ids[16] = 2013
  /\ Ids[17] = config.integration_event
  /\ Ids[18] = config.curator_event /\ Ids[19] = config.curator_event + 1
BY DEF Ids

\* The first sixteen are the fixed ones, each once.
LEMMA FixedOnce ==
  /\ \A n \in 1..16 : Ids[n] \in FixedIds
  /\ \A id \in FixedIds : \E n \in 1..16 : Ids[n] = id
  /\ \A j, n \in 1..16 : Ids[j] = Ids[n] => j = n
<1>1. 1..16 = {1, 2, 3, 4, 5, 6, 7, 8, 9, 10, 11, 12, 13, 14, 15, 16}
  OBVIOUS
<1>2. FixedIds = {1, 2, 3, 10, 100, 101, 102, 103, 2000, 2001, 2002, 2003, 2010, 2011, 2012, 2013}
  BY DEF FixedIds
<1>3. \A n \in 1..16 : Ids[n] \in FixedIds
  BY <1>1, <1>2, IdsAre
<1>4. \A id \in FixedIds : \E n \in 1..16 : Ids[n] = id
  BY <1>1, <1>2, IdsAre
<1>5. \A j, n \in 1..16 : Ids[j] = Ids[n] => j = n
  BY <1>1, IdsAre
<1> QED BY <1>3, <1>4, <1>5

\* Two of the nineteen ids are one exactly if the configuration collides.
LEMMA CollidesIs ==
  ASSUME config \in Config
  PROVE  Collides <=> \E n \in 1..19 : \E j \in 1..(n - 1) : Ids[j] = Ids[n]
<1> DEFINE Twice(j, n) == Ids[j] = Ids[n]
<1>1. config.curator_event \in Nat
  BY ConfigFacts
<1>2. ASSUME Collides
      PROVE  \E n \in 1..19 : \E j \in 1..(n - 1) : Twice(j, n)
  <2>1. CASE config.integration_event \in FixedIds
    <3>1. PICK j \in 1..16 : Ids[j] = config.integration_event
      BY <2>1, FixedOnce
    <3>2. 17 \in 1..19 /\ j \in 1..(17 - 1) /\ Twice(j, 17)
      BY <3>1, IdsAre
    <3> QED BY <3>2
  <2>2. CASE config.integration_event = config.curator_event
    <3>1. 18 \in 1..19 /\ 17 \in 1..(18 - 1) /\ Twice(17, 18)
      BY <2>2, IdsAre
    <3> QED BY <3>1
  <2>3. CASE config.integration_event = config.curator_event + 1
    <3>1. 19 \in 1..19 /\ 17 \in 1..(19 - 1) /\ Twice(17, 19)
      BY <2>3, IdsAre
    <3> QED BY <3>1
  <2>4. CASE config.curator_event \in FixedIds
    <3>1. PICK j \in 1..16 : Ids[j] = config.curator_event
      BY <2>4, FixedOnce
    <3>2. 18 \in 1..19 /\ j \in 1..(18 - 1) /\ Twice(j, 18)
      BY <3>1, IdsAre
    <3> QED BY <3>2
  <2>5. CASE config.curator_event + 1 \in FixedIds
    <3>1. PICK j \in 1..16 : Ids[j] = config.curator_event + 1
      BY <2>5, FixedOnce
    <3>2. 19 \in 1..19 /\ j \in 1..(19 - 1) /\ Twice(j, 19)
      BY <3>1, IdsAre
    <3> QED BY <3>2
  <2> QED BY <1>2, <2>1, <2>2, <2>3, <2>4, <2>5 DEF Collides
<1>3. ASSUME NEW n \in 1..19, NEW j \in 1..(n - 1), Ids[j] = Ids[n], ~Collides
      PROVE  FALSE
  <2>1. /\ config.integration_event \notin FixedIds
        /\ config.integration_event # config.curator_event
        /\ config.integration_event # config.curator_event + 1
        /\ config.curator_event \notin FixedIds /\ config.curator_event + 1 \notin FixedIds
    BY <1>3 DEF Collides
  <2>2. n \in 1..16 \/ n = 17 \/ n = 18 \/ n = 19
    OBVIOUS
  <2>3. CASE n \in 1..16
    BY <1>3, <2>3, FixedOnce
  <2>4. CASE n = 17
    <3>1. j \in 1..16
      BY <2>4
    <3> QED BY <1>3, <2>1, <2>4, <3>1, FixedOnce, IdsAre
  <2>5. CASE n = 18
    <3>1. j \in 1..16 \/ j = 17
      BY <2>5
    <3> QED BY <1>3, <2>1, <2>5, <3>1, FixedOnce, IdsAre
  <2>6. CASE n = 19
    <3>1. j \in 1..16 \/ j = 17 \/ j = 18
      BY <2>6
    <3>2. config.curator_event # config.curator_event + 1
      BY <1>1
    <3> QED BY <1>3, <2>1, <2>6, <3>1, <3>2, FixedOnce, IdsAre
  <2> QED BY <2>2, <2>3, <2>4, <2>5, <2>6
<1> QED BY <1>2, <1>3

-----------------------------------------------------------------------------
(* The run. *)

RunInv ==
  /\ LogTypeOK /\ config \in Config
  /\ pc \in {"begin", "run", "refused", "panicked", "returned"}
  /\ Len(events) <= 19 /\ \A j \in 1..Len(events) : events[j] = Planned[j]
  /\ event_ids = IdsOf(events)
  /\ \A n \in 1..Len(events) : \A j \in 1..(n - 1) : Ids[j] # Ids[n]
  /\ pc = "panicked" => Collides
  /\ pc = "returned" => Len(events) = 19

\* All of it is about the run's own configuration.
LEMMA SamePlan ==
  ASSUME UNCHANGED config
  PROVE  Planned' = Planned /\ Ids' = Ids /\ Collides' = Collides
<1>1. /\ RootCreated' = RootCreated /\ PathRequested' = PathRequested /\ Joined' = Joined
  BY DEF RootCreated, PathRequested, Joined, Recorded
<1>2. /\ ChildCreated(0)' = ChildCreated(0) /\ ChildCreated(1)' = ChildCreated(1)
      /\ Routed(0)' = Routed(0) /\ Routed(1)' = Routed(1)
      /\ Assigned(0)' = Assigned(0) /\ Assigned(1)' = Assigned(1)
  BY DEF ChildCreated, Routed, Assigned, Recorded, Child
<1>3. /\ Build(0)' = Build(0) /\ Build(1)' = Build(1)
      /\ Remembered(0)' = Remembered(0) /\ Remembered(1)' = Remembered(1)
  BY DEF Build, Constructed, Remembered, Recorded, Child
<1>4. Planned' = Planned
  BY <1>1, <1>2, <1>3 DEF Planned
<1>5. Ids' = Ids /\ Collides' = Collides
  BY DEF Ids, Collides
<1> QED BY <1>4, <1>5

LEMMA InitRun ==
  ASSUME Init
  PROVE  RunInv
<1>1. events = <<>> /\ event_ids = {} /\ Len(events) = 0 /\ 1..Len(events) = {}
  BY DEF Init, LogInit
<1> QED BY <1>1 DEF Init, RunInv, LogTypeOK, IdsOf

\* What can be appended is what has a new id, and then it is the next of the plan.
LEMMA RecordKeepsRun ==
  ASSUME RunInv, Record
  PROVE  RunInv'
<1> DEFINE n == Len(events) + 1
           e == Planned[n]
<1>1. /\ LogTypeOK /\ events \in Seq(Event) /\ config \in Config
      /\ \A j \in 1..Len(events) : events[j] = Planned[j]
      /\ event_ids = IdsOf(events) /\ UNCHANGED <<config, pc>> /\ pc = "run"
      /\ Len(events) \in Nat
  BY DEF RunInv, Record, Recording, LogTypeOK
<1>2. Len(events) < 19 /\ n \in 1..19
  BY <1>1, PlannedIs DEF Record, Recording
<1>3. /\ Accepts(events, event_ids, e) /\ event_ids' = event_ids \cup {e.event_id}
      /\ events' = Append(events, e)
  BY DEF Record, NextEvent, AppendEvent
<1>4. e \in Event /\ e.event_id = Ids[n]
  BY <1>1, <1>2, PlannedAreValid
<1>5. \A j \in 1..Len(events) : Ids[j] # Ids[n]
  BY <1>1, <1>2, <1>3, AcceptsByIdAlone
<1>6. Planned' = Planned /\ Ids' = Ids /\ Collides' = Collides
  BY <1>1, SamePlan
<1>7. /\ events' \in Seq(Event) /\ Len(events') = n /\ events'[n] = e
      /\ \A j \in 1..Len(events) : events'[j] = events[j]
  BY <1>1, <1>3, <1>4, AppendFacts
<1>8. IdsOf(events') = event_ids'
  BY <1>1, <1>3, <1>4, IdsOfAppend
<1> HIDE DEF e
<1>9. \A j \in 1..Len(events') : events'[j] = Planned'[j]
  <2>1. 1..n = 1..Len(events) \cup {n}
    BY <1>1
  <2> HIDE DEF n
  <2> QED BY <1>1, <1>6, <1>7, <2>1 DEF e
<1>10. \A m \in 1..Len(events') : \A j \in 1..(m - 1) : Ids'[j] # Ids'[m]
  <2>1. 1..n = 1..Len(events) \cup {n} /\ n - 1 = Len(events)
    BY <1>1
  <2>2. \A m \in 1..Len(events) : \A j \in 1..(m - 1) : Ids[j] # Ids[m]
    BY DEF RunInv
  <2> HIDE DEF n
  <2> QED BY <1>5, <1>6, <1>7, <2>1, <2>2
<1>11. LogTypeOK'
  <2>1. event_ids' \subseteq EventId
    BY <1>1, <1>3, <1>4 DEF LogTypeOK, Event
  <2> QED BY <1>7, <2>1 DEF LogTypeOK
<1>12. Len(events') <= 19
  BY <1>2, <1>7
<1>13. /\ pc' \in {"begin", "run", "refused", "panicked", "returned"} /\ config' \in Config
       /\ pc' # "panicked" /\ pc' # "returned"
  BY <1>1
<1> QED BY <1>8, <1>9, <1>10, <1>11, <1>12, <1>13 DEF RunInv

\* What is refused has an id the log already has.
LEMMA PanicKeepsRun ==
  ASSUME RunInv, Panic
  PROVE  RunInv'
<1> DEFINE n == Len(events) + 1
<1>1. /\ events \in Seq(Event) /\ config \in Config /\ Len(events) \in Nat
      /\ \A j \in 1..Len(events) : events[j] = Planned[j]
      /\ event_ids = IdsOf(events) /\ UNCHANGED <<config, events, event_ids>>
      /\ pc' = "panicked"
  BY DEF RunInv, Panic, LogTypeOK, logVars
<1>2. Len(events) < 19 /\ n \in 1..19 /\ n - 1 = Len(events)
  BY <1>1, PlannedIs DEF Panic, Recording
<1>3. ~Accepts(events, IdsOf(events), Planned[n])
  BY <1>1 DEF Panic, NextEvent
<1>4. \E j \in 1..Len(events) : Ids[j] = Ids[n]
  BY <1>1, <1>2, <1>3, AcceptsByIdAlone
<1>5. Collides
  BY <1>1, <1>2, <1>4, CollidesIs
<1>6. Planned' = Planned /\ Ids' = Ids /\ Collides' = Collides
  BY <1>1, SamePlan
<1> QED BY <1>1, <1>5, <1>6 DEF RunInv, LogTypeOK, IdsOf

\* The other steps leave the log as it is.
LEMMA OthersKeepRun ==
  ASSUME RunInv, Begin \/ Return \/ ValidateReplay \/ UNCHANGED vars
  PROVE  RunInv'
<1>1. UNCHANGED <<config, events, event_ids>>
  BY DEF Begin, Return, ValidateReplay, run, vars, logVars
<1>2. /\ pc' \in {"begin", "run", "refused", "panicked", "returned"}
      /\ pc' = "panicked" => pc = "panicked"
      /\ pc' = "returned" => Len(events) = 19
  BY PlannedIs DEF RunInv, Begin, Return, ValidateReplay, run, vars
<1>3. Planned' = Planned /\ Ids' = Ids /\ Collides' = Collides
  BY <1>1, SamePlan
<1> QED BY <1>1, <1>2, <1>3 DEF RunInv, LogTypeOK, IdsOf

\* The log of a run is a beginning of the plan, with no id twice.
THEOREM RunInvariant == Spec => []RunInv
<1>1. Init => RunInv
  BY InitRun
<1>2. RunInv /\ [Next]_vars => RunInv'
  BY RecordKeepsRun, PanicKeepsRun, OthersKeepRun DEF Next
<1> QED BY <1>1, <1>2, PTL DEF Spec

\* run_prompt panics exactly if a configured id meets another: causes and required
\* fields are in order whatever the tasks are called.
THEOREM OnlyCollisionsPanic == Spec => []PanicsOnlyOnCollision
<1>1. ASSUME RunInv
      PROVE  PanicsOnlyOnCollision
  <2>1. pc = "panicked" => Collides
    BY <1>1 DEF RunInv
  <2>2. ASSUME pc = "returned"
        PROVE  ~Collides
    <3>1. Len(events) = 19 /\ config \in Config
          /\ \A n \in 1..Len(events) : \A j \in 1..(n - 1) : Ids[j] # Ids[n]
      BY <1>1, <2>2 DEF RunInv
    <3> QED BY <3>1, CollidesIs
  <2> QED BY <2>1, <2>2 DEF PanicsOnlyOnCollision, Collides
<1>2. RunInv => PanicsOnlyOnCollision
  BY <1>1
<1> QED BY <1>2, RunInvariant, PTL

-----------------------------------------------------------------------------
(* Validation, which goes over the log of the run. *)

LEMMA SameEvents == Validation!Event = Event /\ Validation!ByTask = [TaskId -> Event \cup {None}]
<1>1. Validation!Event = Event
  BY DEF Event, EventType, Schema, Validation!Event, Validation!EventType, Validation!Schema
<1> QED BY <1>1 DEF Validation!ByTask

LEMMA KeepKeepsType ==
  ASSUME NEW map \in [TaskId -> Event \cup {None}], NEW e \in Event, NEW type
  PROVE  Validation!Keep(map, e, type) \in [TaskId -> Event \cup {None}]
BY DEF Validation!Keep, Event

LEMMA ValidationKeepsType ==
  ASSUME Validation!TypeOK, NEW e \in Event,
         Validation!Admit(e) \/ Validation!Reject(e) \/ Validation!Finish
  PROVE  Validation!TypeOK'
<1>1. /\ replay_log \in Seq(Event) /\ replay_ids \subseteq EventId /\ children \in Seq(Event)
      /\ completed \in [TaskId -> Event \cup {None}]
      /\ decommissioned \in [TaskId -> Event \cup {None}]
      /\ integrated \in [TaskId -> Event \cup {None}]
      /\ verdict \in Validation!EventError \cup Validation!SliceError \cup {"Validating", "Valid"}
  BY SameEvents DEF Validation!TypeOK, Validation!LogTypeOK
<1>2. CASE Validation!Admit(e)
  <2>1. /\ replay_log' = Append(replay_log, e) /\ replay_ids' = replay_ids \cup {e.event_id}
        /\ verdict' = verdict
        /\ children' = children \/ children' = Append(children, e)
        /\ completed' = Validation!Keep(completed, e, "TaskCompleted")
        /\ decommissioned' = Validation!Keep(decommissioned, e, "AgentDecommissioned")
        /\ integrated' = Validation!Keep(integrated, e, "IntegrationRequested")
    BY <1>2 DEF Validation!Admit, Validation!AppendEvent
  <2>2. replay_log' \in Seq(Event) /\ children' \in Seq(Event)
    <3>1. Append(replay_log, e) \in Seq(Event) /\ Append(children, e) \in Seq(Event)
      BY <1>1, AppendFacts
    <3> QED BY <1>1, <2>1, <3>1
  <2>3. replay_ids' \subseteq EventId
    BY <1>1, <2>1 DEF Event
  <2> QED BY <1>1, <2>1, <2>2, <2>3, KeepKeepsType, SameEvents DEF Validation!TypeOK, Validation!LogTypeOK
<1>3. CASE Validation!Reject(e)
  <2>1. UNCHANGED <<replay_log, replay_ids, completed, decommissioned, integrated, children>>
    BY <1>3 DEF Validation!Reject, Validation!collected
  <2>2. Validation!Precheck(e) \in Validation!EventError \cup {""}
    BY DEF Validation!Precheck, Validation!AssignmentError, Validation!MemoryError,
           Validation!TelemetryError, Validation!ArtifactError, Validation!EventError
  <2>3. verdict' \in Validation!EventError
    BY <1>3, <2>2 DEF Validation!Reject, Validation!EventVerdict, Validation!EventError
  <2> QED BY <1>1, <2>1, <2>3, SameEvents DEF Validation!TypeOK, Validation!LogTypeOK
<1>4. CASE Validation!Finish
  <2>1. UNCHANGED <<replay_log, replay_ids, completed, decommissioned, integrated, children>>
        /\ verdict' = Validation!FinalChecks
    BY <1>4 DEF Validation!Finish, Validation!collected
  <2>2. Validation!FinalChecks \in Validation!SliceError \cup {"Valid"}
    BY DEF Validation!FinalChecks, Validation!SliceError
  <2> QED BY <1>1, <2>1, <2>2, SameEvents DEF Validation!TypeOK, Validation!LogTypeOK
<1> QED BY <1>2, <1>3, <1>4

\* The types of a run, and of the validation of its log.
THEOREM RunTypeCorrect == Spec => []TypeOK
<1>1. Init => Validation!TypeOK
  <2> SUFFICES ASSUME Init PROVE Validation!TypeOK
    OBVIOUS
  <2>1. /\ replay_log = <<>> /\ replay_ids = {} /\ children = <<>> /\ verdict = "Validating"
        /\ completed = [t \in TaskId |-> None] /\ decommissioned = [t \in TaskId |-> None]
        /\ integrated = [t \in TaskId |-> None]
    BY DEF Init, Validation!Init, Validation!LogInit
  <2> QED BY <2>1, SameEvents DEF Validation!TypeOK, Validation!LogTypeOK
<1>2. RunInv /\ Validation!TypeOK /\ [Next]_vars => Validation!TypeOK'
  <2> SUFFICES ASSUME RunInv, Validation!TypeOK, [Next]_vars
               PROVE  Validation!TypeOK'
    OBVIOUS
  <2>1. CASE UNCHANGED replay
    BY <2>1 DEF replay, Validation!TypeOK, Validation!LogTypeOK
  <2>2. CASE ValidateReplay
    <3>1. CASE Len(replay_log) < Len(events)
      <4>1. events \in Seq(Event) /\ replay_log \in Seq(Event)
        BY SameEvents DEF RunInv, LogTypeOK, Validation!TypeOK, Validation!LogTypeOK
      <4>2. events[Len(replay_log) + 1] \in Event
        BY <3>1, <4>1
      <4> QED BY <2>2, <3>1, <4>2, ValidationKeepsType DEF ValidateReplay
    <3>2. CASE ~(Len(replay_log) < Len(events))
      <4>1. Validation!Finish
        BY <2>2, <3>2 DEF ValidateReplay
      <4>2. config \in Config
        BY DEF RunInv
      <4>3. Planned[1] \in Event
        BY <4>2, PlannedAreValid
      <4> QED BY <4>1, <4>3, ValidationKeepsType
    <3> QED BY <3>1, <3>2
  <2> QED BY <2>1, <2>2 DEF Next, Begin, Record, Panic, Return, vars
<1>3. RunInv /\ Validation!TypeOK => TypeOK
  BY DEF RunInv, TypeOK
<1> QED BY <1>1, <1>2, <1>3, RunInvariant, PTL DEF Spec

-----------------------------------------------------------------------------
(* More of what the events say. *)

InRun(e) == e.root_task_id = config.root /\ e.correlation_id = Correlated

LEMMA SaidOfTasks ==
  ASSUME NEW i \in 0..1
  PROVE  /\ RootCreated.parent_task_id = None
         /\ ChildCreated(i).parent_task_id = config.root /\ ChildCreated(i).correlation_id = Correlated
         /\ Routed(i).payload_schema = "qtom.route_decision.v1"
         /\ Assigned(i).has_agent
BY DEF RootCreated, ChildCreated, Routed, Assigned, Recorded

LEMMA SaidOfWork ==
  ASSUME NEW i \in 0..1
  PROVE  /\ Build(i)[3].correlation_id = Correlated /\ Build(i)[4].correlation_id = Correlated
         /\ Joined.correlation_id = config.integration_correlation
         /\ Remembered(i).correlation_id = config.curator_correlation
         /\ Remembered(i).causation_id = 2003 + 10 * i
<1>1. /\ Build(i)[3] = Constructed(i, 2, "TaskCompleted", <<"artifact", 900 + i>>, None)
      /\ Build(i)[4] = Constructed(i, 3, "AgentDecommissioned", <<"decommission", Child(i)>>, None)
  BY DEF Build
<1>2. \A n, type, ref, cause : Constructed(i, n, type, ref, cause).correlation_id = Correlated
  BY DEF Constructed, Recorded
<1>3. Joined.correlation_id = config.integration_correlation
  BY DEF Joined, Recorded
<1>4. Remembered(i).correlation_id = config.curator_correlation
  BY DEF Remembered, Recorded
<1>5. Remembered(i).causation_id = 2003 + 10 * i
  BY DEF Remembered, Recorded
<1> QED BY <1>1, <1>2, <1>3, <1>4, <1>5

\* Their types, in their order.
Types ==
  << "TaskCreated", "TaskCreated", "TaskCreated", "IntegrationRequested",
     "RouteDecisionRecorded", "TaskAssigned", "ArtifactDeclared", "ArtifactReady",
     "TaskCompleted", "AgentDecommissioned",
     "RouteDecisionRecorded", "TaskAssigned", "ArtifactDeclared", "ArtifactReady",
     "TaskCompleted", "AgentDecommissioned",
     "IntegrationRequested", "MemoryNodeCreated", "MemoryNodeCreated" >>

LEMMA TypesAre ==
  ASSUME config \in Config, NEW n \in 1..19
  PROVE  Planned[n].event_type = Types[n]
<1> DEFINE Is(m, type) == Planned[m].event_type = type
<1>1. Is(1, "TaskCreated") /\ Is(4, "IntegrationRequested") /\ Is(17, "IntegrationRequested")
  BY PlannedIs, RootCreatedSays, PathRequestedSays, JoinedSays DEF Says
<1>2. /\ Is(2, "TaskCreated") /\ Is(3, "TaskCreated")
      /\ Is(5, "RouteDecisionRecorded") /\ Is(11, "RouteDecisionRecorded")
  BY PlannedIs, ChildCreatedSays, RoutedSays DEF Says
<1>3. /\ Is(6, "TaskAssigned") /\ Is(12, "TaskAssigned")
      /\ Is(7, "ArtifactDeclared") /\ Is(13, "ArtifactDeclared")
  BY PlannedIs, AssignedSays, DeclaredSays DEF Says
<1>4. /\ Is(8, "ArtifactReady") /\ Is(14, "ArtifactReady")
      /\ Is(9, "TaskCompleted") /\ Is(15, "TaskCompleted")
  BY PlannedIs, ReadySays, CompletedSays DEF Says
<1>5. /\ Is(10, "AgentDecommissioned") /\ Is(16, "AgentDecommissioned")
      /\ Is(18, "MemoryNodeCreated") /\ Is(19, "MemoryNodeCreated")
  BY PlannedIs, DecommissionedSays, RememberedSays DEF Says
<1> HIDE DEF Is
<1>6. Is(n, Types[n])
  BY <1>1, <1>2, <1>3, <1>4, <1>5, PlannedPlaces DEF Types
<1> QED BY <1>6 DEF Is

\* Where a type occurs.
LEMMA PlacesOfTypes ==
  ASSUME config \in Config, NEW n \in 1..19
  PROVE  /\ Planned[n].event_type = "TaskCreated" <=> n \in {1, 2, 3}
         /\ Planned[n].event_type = "IntegrationRequested" <=> n \in {4, 17}
         /\ Planned[n].event_type = "RouteDecisionRecorded" <=> n \in {5, 11}
         /\ Planned[n].event_type = "TaskAssigned" <=> n \in {6, 12}
         /\ Planned[n].event_type = "ArtifactDeclared" <=> n \in {7, 13}
         /\ Planned[n].event_type = "ArtifactReady" <=> n \in {8, 14}
         /\ Planned[n].event_type = "TaskCompleted" <=> n \in {9, 15}
         /\ Planned[n].event_type = "AgentDecommissioned" <=> n \in {10, 16}
         /\ Planned[n].event_type = "MemoryNodeCreated" <=> n \in {18, 19}
<1>1. Planned[n].event_type = Types[n]
  BY TypesAre
<1>2. /\ Types[n] = "TaskCreated" <=> n \in {1, 2, 3}
      /\ Types[n] = "IntegrationRequested" <=> n \in {4, 17}
      /\ Types[n] = "RouteDecisionRecorded" <=> n \in {5, 11}
      /\ Types[n] = "TaskAssigned" <=> n \in {6, 12}
      /\ Types[n] = "ArtifactDeclared" <=> n \in {7, 13}
      /\ Types[n] = "ArtifactReady" <=> n \in {8, 14}
      /\ Types[n] = "TaskCompleted" <=> n \in {9, 15}
      /\ Types[n] = "AgentDecommissioned" <=> n \in {10, 16}
      /\ Types[n] = "MemoryNodeCreated" <=> n \in {18, 19}
  BY PlannedPlaces DEF Types
<1> QED BY <1>1, <1>2

-----------------------------------------------------------------------------
(* The verdict on the log of a run. *)

\* What the pass over the log has to go by, after n events: the children are the
\* root's, of the run; its integration is the last one asked for; what is completed
\* is a child's, and decommissioned by the end of its turn.
Pass(n) ==
  /\ \A c \in Validation!Child : c.parent_task_id = config.root /\ InRun(c)
  /\ n >= 2 => Validation!Child # {}
  /\ n >= 17 => integrated[config.root] = Joined
  /\ \A t \in TaskId : completed[t] # None => t \in {Child(0), Child(1)} /\ InRun(completed[t])
  /\ \A t \in TaskId : decommissioned[t] # None => InRun(decommissioned[t])
  /\ n >= 10 => decommissioned[Child(0)] # None
  /\ n >= 16 => decommissioned[Child(1)] # None

ReplayedInv ==
  /\ Len(replay_log) <= 19 /\ \A j \in 1..Len(replay_log) : replay_log[j] = Planned[j]
  /\ replay_ids = IdsOf(replay_log)
  /\ pc # "returned" => replay_log = <<>> /\ verdict = "Validating"
  /\ Pass(Len(replay_log))
  /\ Len(replay_log) >= 18 => config.curator_correlation = Correlated
  /\ verdict = "Valid" =>
       /\ Len(replay_log) = 19
       /\ config.integration_correlation = Correlated /\ config.curator_correlation = Correlated
  /\ verdict \notin {"Valid", "Validating"} =>
       config.integration_correlation # Correlated \/ config.curator_correlation # Correlated

\* The vocabulary of the validation is that of the log.
LEMMA SameVocabulary ==
  /\ \A log, ids, e : Validation!Accepts(log, ids, e) <=> Accepts(log, ids, e)
  /\ \A e, c : Validation!SameContext(e, c) <=> SameContext(e, c)
  /\ \A e, c : Validation!AgreesWithCause(e, c) <=> AgreesWithCause(e, c)
<1>1. \A e, c : Validation!SameContext(e, c) <=> SameContext(e, c)
  BY DEF Validation!SameContext, SameContext
<1>2. \A e, c : Validation!AgreesWithCause(e, c) <=> AgreesWithCause(e, c)
  BY <1>1 DEF Validation!AgreesWithCause, AgreesWithCause
<1>3. Validation!RequiredCause = RequiredCause
  BY DEF Validation!RequiredCause, RequiredCause
<1>4. \A log, e : Validation!ValidCausation(log, e) <=> ValidCausation(log, e)
  BY <1>2, <1>3 DEF Validation!ValidCausation, ValidCausation, Validation!IsCause, IsCause
<1>5. \A e : Validation!Validates(e) <=> Validates(e)
  BY DEF Validation!Validates, Validates, Validation!RequiresTaskId, RequiresTaskId,
         Validation!RequiresAgentId, RequiresAgentId,
         Validation!RequiresTopologySnapshotId, RequiresTopologySnapshotId
<1>6. \A log, ids, e : Validation!Accepts(log, ids, e) <=> Accepts(log, ids, e)
  BY <1>4, <1>5 DEF Validation!Accepts, Accepts
<1> QED BY <1>1, <1>2, <1>6

\* What is known when the next event of a returned log is looked at.
Checking(n) ==
  /\ config \in Config /\ n \in 1..19
  /\ replay_log \in Seq(Event) /\ Len(replay_log) = n - 1
  /\ \A j \in 1..(n - 1) : replay_log[j] = Planned[j]
  /\ replay_ids = IdsOf(replay_log)
  /\ \A m \in 1..19 : \A j \in 1..(m - 1) : Ids[j] # Ids[m]

\* An id names one event of the log.
LEMMA NamedIs ==
  ASSUME NEW n, Checking(n), NEW k \in 1..(n - 1), NEW e, e.causation_id = Ids[k]
  PROVE  Validation!NamedBy(e) = {k} /\ replay_log[k] = Planned[k]
<1>1. \A j \in 1..(n - 1) : replay_log[j].event_id = Ids[j] /\ j \in 1..19
  <2>1. /\ config \in Config /\ n \in 1..19
        /\ \A j \in 1..(n - 1) : replay_log[j] = Planned[j]
    BY DEF Checking
  <2>2. \A j \in 1..(n - 1) : j \in 1..19
    BY <2>1
  <2> QED BY <2>1, <2>2, PlannedAreValid
<1>2. \A j \in 1..(n - 1) : Ids[j] = Ids[k] => j = k
  <2> SUFFICES ASSUME NEW j \in 1..(n - 1), Ids[j] = Ids[k]
               PROVE  j = k
    OBVIOUS
  <2>1. n \in 1..19 /\ \A m \in 1..19 : \A i \in 1..(m - 1) : Ids[i] # Ids[m]
    BY DEF Checking
  <2>2. j \in 1..19 /\ k \in 1..19 /\ (j = k \/ j \in 1..(k - 1) \/ k \in 1..(j - 1))
    BY <2>1
  <2> QED BY <2>1, <2>2
<1>3. Validation!Indices = 1..(n - 1)
  BY DEF Validation!Indices, Checking
<1>4. \A i : i \in Validation!NamedBy(e) <=> i = k
  BY <1>1, <1>2, <1>3 DEF Validation!NamedBy
<1>5. replay_log[k] = Planned[k]
  BY DEF Checking
<1> QED BY <1>4, <1>5

LEMMA NextIsAccepted ==
  ASSUME NEW n, Checking(n)
  PROVE  Validation!Accepts(replay_log, replay_ids, Planned[n])
<1>1. /\ config \in Config /\ replay_log \in Seq(Event) /\ Len(replay_log) < 19
      /\ Len(replay_log) + 1 = n /\ \A j \in 1..Len(replay_log) : replay_log[j] = Planned[j]
      /\ replay_ids = IdsOf(replay_log)
  BY DEF Checking
<1>2. \A j \in 1..Len(replay_log) : Ids[j] # Ids[n]
  BY DEF Checking
<1>3. Accepts(replay_log, IdsOf(replay_log), Planned[Len(replay_log) + 1])
  BY <1>1, <1>2, AcceptsByIdAlone
<1> QED BY <1>1, <1>3, SameVocabulary

LEMMA AssignmentPasses ==
  ASSUME NEW n, Checking(n), n \in {6, 12}
  PROVE  Validation!AssignmentError(Planned[n]) = ""
<1> DEFINE i == IF n = 6 THEN 0 ELSE 1
<1>1. /\ i \in 0..1 /\ n - 1 \in 1..(n - 1) /\ Planned[n] = Assigned(i) /\ Planned[n - 1] = Routed(i)
      /\ Ids[n - 1] = 100 + 2 * i
  BY PlannedIs, IdsAre
<1> HIDE DEF i
<1>2. Planned[n].causation_id = Ids[n - 1] /\ SameContext(Planned[n], Planned[n - 1])
  <2>1. config \in Config
    BY DEF Checking
  <2>2. /\ Says(Assigned(i), 101 + 2 * i, "TaskAssigned", Child(i), <<"assignment", Child(i)>>)
        /\ Assigned(i).correlation_id = Correlated /\ Assigned(i).causation_id = 100 + 2 * i
    BY <1>1, <2>1, AssignedSays
  <2>3. /\ Says(Routed(i), 100 + 2 * i, "RouteDecisionRecorded", Child(i), <<"route-decision", 500 + i>>)
        /\ Routed(i).correlation_id = Correlated
    BY <1>1, <2>1, RoutedSays
  <2> QED BY <1>1, <2>2, <2>3 DEF Says, SameContext
<1>3. Validation!NamedBy(Planned[n]) = {n - 1} /\ replay_log[n - 1] = Planned[n - 1]
  BY <1>1, <1>2, NamedIs
<1>4. \A j \in Validation!NamedBy(Planned[n]) : Validation!SameContext(Planned[n], replay_log[j])
  BY <1>2, <1>3, SameVocabulary
<1> QED BY <1>3, <1>4 DEF Validation!AssignmentError

LEMMA TelemetryPasses ==
  ASSUME NEW n, Checking(n), n \in {5, 11}
  PROVE  Validation!TelemetryError(Planned[n]) = ""
<1> DEFINE i == IF n = 5 THEN 0 ELSE 1
<1>1. i \in 0..1 /\ Planned[n] = Routed(i)
  BY PlannedIs
<1> HIDE DEF i
<1>2. Planned[n].payload_schema = "qtom.route_decision.v1" /\ Planned[n].payload_ref \in RouteRef
  <2>1. config \in Config
    BY DEF Checking
  <2>2. Says(Routed(i), 100 + 2 * i, "RouteDecisionRecorded", Child(i), <<"route-decision", 500 + i>>)
    BY <1>1, <2>1, RoutedSays
  <2>3. Routed(i).payload_schema = "qtom.route_decision.v1" /\ <<"route-decision", 500 + i>> \in RouteRef
    BY <1>1, <2>1, SaidOfTasks, References
  <2> QED BY <1>1, <2>2, <2>3 DEF Says
<1> QED BY <1>2 DEF Validation!TelemetryError

LEMMA ReadyPasses ==
  ASSUME NEW n, Checking(n), n \in {8, 14}
  PROVE  Validation!ArtifactError(Planned[n]) = ""
<1> DEFINE i == IF n = 8 THEN 0 ELSE 1
<1>1. /\ i \in 0..1 /\ n - 1 \in 1..(n - 1) /\ Planned[n] = Build(i)[2] /\ Planned[n - 1] = Build(i)[1]
      /\ Ids[n - 1] = 2000 + 10 * i
  BY PlannedIs, IdsAre
<1> HIDE DEF i
<1>2. Planned[n].causation_id = Ids[n - 1] /\ AgreesWithCause(Planned[n], Planned[n - 1])
  <2>1. config \in Config
    BY DEF Checking
  <2> DEFINE artifact == <<"artifact", 900 + i>>
  <2>2. /\ Says(Build(i)[2], 2000 + 10 * i + 1, "ArtifactReady", Child(i), artifact)
        /\ Build(i)[2].correlation_id = Correlated /\ Build(i)[2].causation_id = 2000 + 10 * i
    BY <1>1, <2>1, ReadySays
  <2>3. /\ Says(Build(i)[1], 2000 + 10 * i + 0, "ArtifactDeclared", Child(i), artifact)
        /\ Build(i)[1].correlation_id = Correlated
    BY <1>1, <2>1, DeclaredSays
  <2> HIDE DEF artifact
  <2>4. AgreesWithCause(Planned[n], Planned[n - 1])
    BY <1>1, <2>2, <2>3 DEF Says, AgreesWithCause, SameContext
  <2> QED BY <1>1, <2>2, <2>4
<1>3. Validation!NamedBy(Planned[n]) = {n - 1} /\ replay_log[n - 1] = Planned[n - 1]
  BY <1>1, <1>2, NamedIs
<1>4. \A j \in Validation!NamedBy(Planned[n]) : Validation!AgreesWithCause(Planned[n], replay_log[j])
  BY <1>2, <1>3, SameVocabulary
<1> QED BY <1>4 DEF Validation!ArtifactError

\* The curator's node names the decommission of the same child; only the
\* correlation may differ.
LEMMA MemoryPasses ==
  ASSUME NEW n, Checking(n), n \in {18, 19}
  PROVE  Validation!MemoryError(Planned[n]) = "" <=> config.curator_correlation = Correlated
<1> DEFINE i == IF n = 18 THEN 0 ELSE 1
           k == IF n = 18 THEN 10 ELSE 16
<1>1. /\ i \in 0..1 /\ k \in 1..(n - 1) /\ Planned[n] = Remembered(i) /\ Planned[k] = Build(i)[4]
      /\ Ids[k] = 2003 + 10 * i
  BY PlannedIs, IdsAre
<1> HIDE DEF i, k
<1>2. /\ Planned[n].causation_id = Ids[k] /\ Planned[k].event_type = "AgentDecommissioned"
      /\ SameContext(Planned[n], Planned[k]) <=> config.curator_correlation = Correlated
  <2>1. config \in Config
    BY DEF Checking
  <2>2. Says(Remembered(i), config.curator_event + i, "MemoryNodeCreated", Child(i), <<"memory", 1500 + i>>)
    BY <1>1, <2>1, RememberedSays
  <2>3. Says(Build(i)[4], 2000 + 10 * i + 3, "AgentDecommissioned", Child(i), <<"decommission", Child(i)>>)
    BY <1>1, <2>1, DecommissionedSays
  <2>4. /\ Build(i)[4].correlation_id = Correlated
        /\ Remembered(i).correlation_id = config.curator_correlation
        /\ Remembered(i).causation_id = 2003 + 10 * i
    BY <1>1, SaidOfWork
  <2> QED BY <1>1, <2>2, <2>3, <2>4 DEF Says, SameContext
<1>3. Validation!NamedBy(Planned[n]) = {k} /\ replay_log[k] = Planned[k]
  BY <1>1, <1>2, NamedIs
<1>4. Validation!Evidence(Planned[n]) = {k}
  BY <1>2, <1>3 DEF Validation!Evidence
<1>5. (\A j \in Validation!Evidence(Planned[n]) : Validation!SameContext(Planned[n], replay_log[j]))
        <=> config.curator_correlation = Correlated
  BY <1>2, <1>3, <1>4, SameVocabulary
<1> QED BY <1>4, <1>5 DEF Validation!MemoryError

\* The check before append asks nothing of a run but the curator's correlation.
LEMMA PrecheckIs ==
  ASSUME NEW n, Checking(n)
  PROVE  Validation!Precheck(Planned[n]) = "" <=>
           (n \in {18, 19} => config.curator_correlation = Correlated)
<1> DEFINE e == Planned[n]
           type == e.event_type
<1>1. config \in Config /\ n \in 1..19
  BY DEF Checking
<1>2. /\ type = "TaskAssigned" <=> n \in {6, 12}
      /\ type = "MemoryNodeCreated" <=> n \in {18, 19}
      /\ type = "RouteDecisionRecorded" <=> n \in {5, 11}
      /\ type = "ArtifactReady" <=> n \in {8, 14}
  BY <1>1, PlacesOfTypes
<1>3. /\ type = "TaskAssigned" => Validation!Precheck(e) = Validation!AssignmentError(e)
      /\ type = "MemoryNodeCreated" => Validation!Precheck(e) = Validation!MemoryError(e)
      /\ type = "RouteDecisionRecorded" => Validation!Precheck(e) = Validation!TelemetryError(e)
      /\ type = "ArtifactReady" => Validation!Precheck(e) = Validation!ArtifactError(e)
      /\ type \notin {"TaskAssigned", "MemoryNodeCreated", "RouteDecisionRecorded", "ArtifactReady"}
           => Validation!Precheck(e) = ""
  BY DEF Validation!Precheck
<1>4. /\ n \in {6, 12} => Validation!AssignmentError(e) = ""
      /\ n \in {5, 11} => Validation!TelemetryError(e) = ""
      /\ n \in {8, 14} => Validation!ArtifactError(e) = ""
      /\ n \in {18, 19} => (Validation!MemoryError(e) = "" <=> config.curator_correlation = Correlated)
  BY AssignmentPasses, TelemetryPasses, ReadyPasses, MemoryPasses
<1> HIDE DEF e, type
<1>5. Validation!Precheck(e) = "" <=> (n \in {18, 19} => config.curator_correlation = Correlated)
  BY <1>2, <1>3, <1>4
<1> QED BY <1>5 DEF e

LEMMA PlannedChildren ==
  ASSUME config \in Config, NEW n \in 1..19
  PROVE  /\ Validation!IsChild(Planned[n]) <=> n \in {2, 3}
         /\ n \in {2, 3} => Planned[n].parent_task_id = config.root /\ InRun(Planned[n])
<1>1. Planned[n].event_type = "TaskCreated" <=> n \in {1, 2, 3}
  BY PlacesOfTypes
<1>2. Planned[1].parent_task_id = None
  BY PlannedIs, SaidOfTasks
<1>3. ASSUME n \in {2, 3}
      PROVE  Planned[n].parent_task_id = config.root /\ InRun(Planned[n])
  <2> DEFINE i == IF n = 2 THEN 0 ELSE 1
  <2>1. i \in 0..1 /\ Planned[n] = ChildCreated(i)
    BY <1>3, PlannedIs
  <2> HIDE DEF i
  <2>2. ChildCreated(i).root_task_id = config.root
    BY <2>1, ChildCreatedSays DEF Says
  <2> QED BY <2>1, <2>2, SaidOfTasks DEF InRun
<1>4. config.root # None
  BY ConfigFacts, NoneAssumption
<1>5. Validation!IsChild(Planned[n]) <=> n \in {2, 3}
  BY <1>1, <1>2, <1>3, <1>4, PlannedPlaces DEF Validation!IsChild
<1> QED BY <1>3, <1>5

LEMMA PlannedWork ==
  ASSUME config \in Config
  PROVE  /\ Planned[9].task_id = Child(0) /\ Planned[15].task_id = Child(1)
         /\ Planned[10].task_id = Child(0) /\ Planned[16].task_id = Child(1)
         /\ \A n \in {9, 10, 15, 16} : InRun(Planned[n])
         /\ Planned[17] = Joined /\ Joined.task_id = config.root /\ Joined.root_task_id = config.root
         /\ Joined \in Event
<1>1. ASSUME NEW i \in 0..1
      PROVE  /\ Build(i)[3].task_id = Child(i) /\ Build(i)[4].task_id = Child(i)
             /\ InRun(Build(i)[3]) /\ InRun(Build(i)[4])
  BY CompletedSays, DecommissionedSays, SaidOfWork DEF Says, InRun
<1>2. Joined.task_id = config.root /\ Joined.root_task_id = config.root /\ Joined \in Event
  BY JoinedSays DEF Says
<1> QED BY <1>1, <1>2, PlannedIs

LEMMA KeepIs ==
  ASSUME NEW map \in [TaskId -> Event \cup {None}], NEW e \in Event, NEW type, NEW t \in TaskId
  PROVE  Validation!Keep(map, e, type)[t] =
           IF e.event_type = type /\ e.task_id = t THEN e ELSE map[t]
<1>1. t # None
  BY NoneAssumption
<1> QED BY <1>1 DEF Validation!Keep

\* The event admitted is collected if it is a child.
LEMMA ChildrenAfter ==
  ASSUME children \in Seq(Event), NEW e \in Event,
         children' = IF Validation!IsChild(e) THEN Append(children, e) ELSE children
  PROVE  /\ \A c \in Validation!Child' : c \in Validation!Child \/ (c = e /\ Validation!IsChild(e))
         /\ Validation!Child \subseteq Validation!Child'
         /\ Validation!IsChild(e) => e \in Validation!Child'
<1>1. CASE ~Validation!IsChild(e)
  <2>1. Validation!Child' = Validation!Child
    BY <1>1 DEF Validation!Child
  <2> QED BY <1>1, <2>1
<1>2. CASE Validation!IsChild(e)
  <2>1. /\ Len(children') = Len(children) + 1 /\ Len(children) \in Nat
        /\ children'[Len(children) + 1] = e
        /\ \A i \in 1..Len(children) : children'[i] = children[i]
    BY <1>2, AppendFacts
  <2>2. 1..Len(children') = 1..Len(children) \cup {Len(children) + 1}
    BY <2>1
  <2>3. \A c : c \in Validation!Child' <=> c \in Validation!Child \/ c = e
    BY <2>1, <2>2 DEF Validation!Child
  <2> QED BY <1>2, <2>3
<1> QED BY <1>1, <1>2

LEMMA AdmitKeepsPass ==
  ASSUME NEW n, Checking(n), Validation!TypeOK, Pass(n - 1), Validation!Admit(Planned[n]), UNCHANGED config
  PROVE  Pass(n)'
<1> DEFINE e == Planned[n]
<1>1. config \in Config /\ n \in 1..19
  BY DEF Checking
<1>2. e \in Event /\ e # None
  BY <1>1, PlannedAreValid, NoEventAssumption
<1>3. /\ completed \in [TaskId -> Event \cup {None}] /\ decommissioned \in [TaskId -> Event \cup {None}]
      /\ integrated \in [TaskId -> Event \cup {None}] /\ children \in Seq(Event)
  BY SameEvents DEF Validation!TypeOK
<1>4. /\ completed' = Validation!Keep(completed, e, "TaskCompleted")
      /\ decommissioned' = Validation!Keep(decommissioned, e, "AgentDecommissioned")
      /\ integrated' = Validation!Keep(integrated, e, "IntegrationRequested")
      /\ children' = IF Validation!IsChild(e) THEN Append(children, e) ELSE children
  BY DEF Validation!Admit
<1>5. Joined' = Joined /\ Child(0)' = Child(0) /\ Child(1)' = Child(1) /\ \A x : InRun(x)' <=> InRun(x)
  BY DEF Joined, Recorded, Child, InRun
<1>6. /\ e.event_type = "TaskCompleted" <=> n \in {9, 15}
      /\ e.event_type = "AgentDecommissioned" <=> n \in {10, 16}
      /\ e.event_type = "IntegrationRequested" <=> n \in {4, 17}
      /\ Validation!IsChild(e) <=> n \in {2, 3}
      /\ n \in {2, 3} => e.parent_task_id = config.root /\ InRun(e)
  BY <1>1, PlacesOfTypes, PlannedChildren
<1>7. /\ n \in {9, 10} => e.task_id = Child(0)
      /\ n \in {15, 16} => e.task_id = Child(1)
      /\ n \in {9, 10, 15, 16} => InRun(e)
      /\ n = 17 => e = Joined /\ e.task_id = config.root
  BY <1>1, PlannedWork
<1>8. Child(0) \in TaskId /\ Child(1) \in TaskId /\ config.root \in TaskId
  BY <1>1, ConfigFacts
<1> HIDE DEF e
<1>9. /\ \A c \in Validation!Child' : c.parent_task_id = config.root /\ InRun(c)
      /\ n >= 2 => Validation!Child' # {}
  <2>1. /\ \A c \in Validation!Child' : c \in Validation!Child \/ (c = e /\ Validation!IsChild(e))
        /\ Validation!Child \subseteq Validation!Child'
        /\ Validation!IsChild(e) => e \in Validation!Child'
    BY <1>2, <1>3, <1>4, ChildrenAfter
  <2>2. /\ \A c \in Validation!Child : c.parent_task_id = config.root /\ InRun(c)
        /\ n - 1 >= 2 => Validation!Child # {}
    BY DEF Pass
  <2>3. n >= 2 => n \in {2, 3} \/ n - 1 >= 2
    BY <1>1
  <2> QED BY <1>6, <2>1, <2>2, <2>3
<1>10. n >= 17 => integrated'[config.root] = Joined
  <2>1. integrated'[config.root] = IF e.event_type = "IntegrationRequested" /\ e.task_id = config.root
                                   THEN e ELSE integrated[config.root]
    BY <1>2, <1>3, <1>4, <1>8, KeepIs
  <2>2. n >= 17 => n = 17 \/ (n - 1 >= 17 /\ n \notin {4, 17})
    BY <1>1
  <2>3. n - 1 >= 17 => integrated[config.root] = Joined
    BY DEF Pass
  <2> QED BY <1>6, <1>7, <2>1, <2>2, <2>3
<1>11. \A t \in TaskId : completed'[t] # None => t \in {Child(0), Child(1)} /\ InRun(completed'[t])
  <2> SUFFICES ASSUME NEW t \in TaskId, completed'[t] # None
               PROVE  t \in {Child(0), Child(1)} /\ InRun(completed'[t])
    OBVIOUS
  <2>1. completed'[t] = IF e.event_type = "TaskCompleted" /\ e.task_id = t THEN e ELSE completed[t]
    BY <1>2, <1>3, <1>4, KeepIs
  <2>2. completed[t] # None => t \in {Child(0), Child(1)} /\ InRun(completed[t])
    BY DEF Pass
  <2> QED BY <1>6, <1>7, <2>1, <2>2
<1>12. \A t \in TaskId : /\ decommissioned'[t] # None => InRun(decommissioned'[t])
                         /\ decommissioned[t] # None => decommissioned'[t] # None
                         /\ e.event_type = "AgentDecommissioned" /\ e.task_id = t
                              => decommissioned'[t] # None
  <2> SUFFICES ASSUME NEW t \in TaskId
               PROVE  /\ decommissioned'[t] # None => InRun(decommissioned'[t])
                      /\ decommissioned[t] # None => decommissioned'[t] # None
                      /\ e.event_type = "AgentDecommissioned" /\ e.task_id = t
                           => decommissioned'[t] # None
    OBVIOUS
  <2>1. decommissioned'[t] = IF e.event_type = "AgentDecommissioned" /\ e.task_id = t
                             THEN e ELSE decommissioned[t]
    BY <1>2, <1>3, <1>4, KeepIs
  <2>2. decommissioned[t] # None => InRun(decommissioned[t])
    BY DEF Pass
  <2> QED BY <1>2, <1>6, <1>7, <2>1, <2>2
<1>13. /\ n >= 10 => decommissioned'[Child(0)] # None
       /\ n >= 16 => decommissioned'[Child(1)] # None
  <2>1. /\ n >= 10 => n = 10 \/ n - 1 >= 10
        /\ n >= 16 => n = 16 \/ n - 1 >= 16
    BY <1>1
  <2>2. /\ n - 1 >= 10 => decommissioned[Child(0)] # None
        /\ n - 1 >= 16 => decommissioned[Child(1)] # None
    BY DEF Pass
  <2> QED BY <1>6, <1>7, <1>8, <1>12, <2>1, <2>2
<1> QED BY <1>5, <1>9, <1>10, <1>11, <1>12, <1>13 DEF Pass

\* The checks at the end ask nothing but the integration's correlation.
LEMMA FinalChecksAre ==
  ASSUME config \in Config, Pass(19)
  PROVE  Validation!FinalChecks = IF config.integration_correlation = Correlated
                                  THEN "Valid" ELSE "MismatchedTaskIntegration"
<1>1. /\ integrated[config.root] = Joined /\ Joined # None
      /\ Joined.root_task_id = config.root
      /\ Joined.correlation_id = config.integration_correlation
  BY PlannedWork, SaidOfWork, NoEventAssumption DEF Pass
<1>2. \A c \in Validation!Child : /\ integrated[c.parent_task_id] = Joined
                                  /\ Validation!SameRun(c, Joined) <=>
                                       config.integration_correlation = Correlated
  BY <1>1 DEF Pass, InRun, Validation!SameRun
<1>3. Validation!Child # {}
  BY DEF Pass
<1>4. ASSUME NEW t \in TaskId, completed[t] # None
      PROVE  decommissioned[t] # None /\ Validation!SameRun(completed[t], decommissioned[t])
  <2>1. t \in {Child(0), Child(1)} /\ InRun(completed[t])
    BY <1>4 DEF Pass
  <2>2. decommissioned[t] # None
    BY <2>1 DEF Pass
  <2>3. InRun(decommissioned[t])
    BY <2>2 DEF Pass
  <2> QED BY <2>1, <2>2, <2>3 DEF InRun, Validation!SameRun
<1>5. ~\E c \in Validation!Child : integrated[c.parent_task_id] = None
  BY <1>1, <1>2
<1>6. (\E c \in Validation!Child : ~Validation!SameRun(c, integrated[c.parent_task_id])) <=>
        config.integration_correlation # Correlated
  BY <1>2, <1>3
<1>7. /\ ~\E t \in TaskId : completed[t] # None /\ decommissioned[t] = None
      /\ ~\E t \in TaskId : /\ completed[t] # None
                            /\ ~Validation!SameRun(completed[t], decommissioned[t])
  BY <1>4
<1> QED BY <1>5, <1>6, <1>7 DEF Validation!FinalChecks

LEMMA InitReplayed ==
  ASSUME Init
  PROVE  ReplayedInv
<1>1. /\ replay_log = <<>> /\ replay_ids = {} /\ children = <<>> /\ verdict = "Validating"
      /\ completed = [t \in TaskId |-> None] /\ decommissioned = [t \in TaskId |-> None]
      /\ pc = "begin"
  BY DEF Init, Validation!Init, Validation!LogInit
<1>2. Len(replay_log) = 0 /\ 1..Len(replay_log) = {} /\ Validation!Child = {}
  BY <1>1 DEF Validation!Child
<1>3. Pass(0)
  BY <1>1, <1>2 DEF Pass
<1>4. replay_ids = IdsOf(replay_log)
  BY <1>1, <1>2 DEF IdsOf
<1> QED BY <1>1, <1>2, <1>3, <1>4 DEF ReplayedInv

\* The pass looks at the next event of the plan.
LEMMA ChecksThePlan ==
  ASSUME RunInv, Validation!TypeOK, ReplayedInv, pc = "returned", Len(replay_log) < Len(events)
  PROVE  LET n == Len(replay_log) + 1 IN Checking(n) /\ events[n] = Planned[n]
<1> DEFINE n == Len(replay_log) + 1
<1>1. Len(events) = 19 /\ config \in Config /\ replay_log \in Seq(Event)
  BY SameEvents DEF RunInv, Validation!TypeOK, Validation!LogTypeOK
<1>2. n \in 1..19 /\ n \in 1..Len(events) /\ Len(replay_log) = n - 1
  BY <1>1
<1>3. events[n] = Planned[n]
  BY <1>2 DEF RunInv
<1>4. Checking(n)
  <2>1. \A m \in 1..19 : \A j \in 1..(m - 1) : Ids[j] # Ids[m]
    BY <1>1 DEF RunInv
  <2>2. (\A j \in 1..(n - 1) : replay_log[j] = Planned[j]) /\ replay_ids = IdsOf(replay_log)
    BY <1>2 DEF ReplayedInv
  <2> HIDE DEF n
  <2> QED BY <1>1, <1>2, <2>1, <2>2 DEF Checking
<1> QED BY <1>3, <1>4

LEMMA AdmitKeepsReplayed ==
  ASSUME NEW n, Checking(n), Validation!TypeOK, ReplayedInv, pc = "returned",
         Validation!Admit(Planned[n]), UNCHANGED run
  PROVE  ReplayedInv'
<1> DEFINE e == Planned[n]
<1>1. /\ config \in Config /\ n \in 1..19 /\ replay_log \in Seq(Event) /\ Len(replay_log) = n - 1
      /\ replay_ids = IdsOf(replay_log) /\ \A j \in 1..(n - 1) : replay_log[j] = Planned[j]
  BY DEF Checking
<1>2. /\ verdict = "Validating" /\ verdict' = verdict /\ Validation!Precheck(e) = ""
      /\ replay_log' = Append(replay_log, e) /\ replay_ids' = replay_ids \cup {e.event_id}
  BY DEF Validation!Admit, Validation!AppendEvent
<1>3. pc' = "returned" /\ config' = config /\ Planned' = Planned
  BY SamePlan DEF run
<1>4. e \in Event
  BY <1>1, PlannedAreValid
<1>5. /\ Len(replay_log') = n /\ replay_log'[n] = e
      /\ \A j \in 1..(n - 1) : replay_log'[j] = replay_log[j]
  <2> HIDE DEF e
  <2>1. /\ Len(replay_log') = Len(replay_log) + 1 /\ replay_log'[Len(replay_log) + 1] = e
        /\ \A j \in 1..Len(replay_log) : replay_log'[j] = replay_log[j]
    <3>1. /\ Len(Append(replay_log, e)) = Len(replay_log) + 1
          /\ Append(replay_log, e)[Len(replay_log) + 1] = e
          /\ \A j \in 1..Len(replay_log) : Append(replay_log, e)[j] = replay_log[j]
      BY <1>1, <1>4, AppendFacts
    <3> QED BY <1>2, <3>1
  <2>2. Len(replay_log) + 1 = n
    BY <1>1
  <2> QED BY <1>1, <2>1, <2>2
<1>6. replay_ids' = IdsOf(replay_log')
  BY <1>1, <1>2, <1>4, IdsOfAppend
<1>7. \A j \in 1..Len(replay_log') : replay_log'[j] = Planned'[j]
  <2>1. \A j \in 1..n : j = n \/ j \in 1..(n - 1)
    BY <1>1
  <2> QED BY <1>1, <1>3, <1>5, <2>1
<1>8. Pass(n - 1)
  BY <1>1 DEF ReplayedInv
<1>9. Pass(n)'
  BY <1>3, <1>8, AdmitKeepsPass
<1>10. Pass(Len(replay_log))'
  BY <1>5, <1>9 DEF Pass
<1>11. n >= 18 => config.curator_correlation = Correlated
  <2>1. n >= 18 => n \in {18, 19}
    BY <1>1
  <2> QED BY <1>2, <2>1, PrecheckIs
<1>12. Len(replay_log') <= 19
  BY <1>1, <1>5
<1> HIDE DEF e
<1> QED BY <1>2, <1>3, <1>5, <1>6, <1>7, <1>10, <1>11, <1>12 DEF ReplayedInv

\* Only a curator of another correlation is refused.
LEMMA RejectKeepsReplayed ==
  ASSUME NEW n, Checking(n), ReplayedInv, pc = "returned",
         Validation!Reject(Planned[n]), UNCHANGED run
  PROVE  ReplayedInv'
<1>1. Validation!Precheck(Planned[n]) # "" /\ config.curator_correlation # Correlated
  BY NextIsAccepted, PrecheckIs DEF Validation!Reject, Validation!Admits
<1>2. /\ UNCHANGED <<replay_log, replay_ids, completed, decommissioned, integrated, children>>
      /\ verdict' = Validation!Precheck(Planned[n])
  BY <1>1 DEF Validation!Reject, Validation!EventVerdict, Validation!collected
<1>3. verdict' # "Valid"
  BY <1>2 DEF Validation!Precheck, Validation!AssignmentError, Validation!MemoryError,
       Validation!TelemetryError, Validation!ArtifactError
<1>4. UNCHANGED <<config, pc>> /\ Planned' = Planned
  BY SamePlan DEF run
<1>5. Pass(Len(replay_log))' <=> Pass(Len(replay_log))
  BY <1>2, <1>4 DEF Pass, InRun, Child, Joined, Recorded, Validation!Child
<1>6. IdsOf(replay_log') = IdsOf(replay_log)
  BY <1>2
<1> QED BY <1>1, <1>2, <1>3, <1>4, <1>5, <1>6 DEF ReplayedInv

LEMMA FinishKeepsReplayed ==
  ASSUME RunInv, Validation!TypeOK, ReplayedInv, pc = "returned", ~(Len(replay_log) < Len(events)),
         Validation!Finish, UNCHANGED run
  PROVE  ReplayedInv'
<1>1. Len(replay_log) = 19 /\ config \in Config
  <2>1. Len(replay_log) \in Nat
    BY SameEvents DEF Validation!TypeOK, Validation!LogTypeOK
  <2>2. Len(events) = 19 /\ Len(replay_log) <= 19 /\ config \in Config
    BY DEF RunInv, ReplayedInv
  <2>3. \A m \in Nat : m <= 19 /\ ~(m < 19) => m = 19
    OBVIOUS
  <2>4. ~(Len(replay_log) < 19)
    BY <2>2, Zenon
  <2>5. Len(replay_log) = 19
    BY <2>1, <2>2, <2>3, <2>4, Zenon
  <2> QED BY <2>2, <2>5
<1>2. /\ UNCHANGED <<replay_log, replay_ids, completed, decommissioned, integrated, children>>
      /\ verdict' = Validation!FinalChecks
  BY DEF Validation!Finish, Validation!collected
<1>3. verdict' = IF config.integration_correlation = Correlated
                 THEN "Valid" ELSE "MismatchedTaskIntegration"
  BY <1>1, <1>2, FinalChecksAre DEF ReplayedInv
<1>4. UNCHANGED <<config, pc>> /\ Planned' = Planned
  BY SamePlan DEF run
<1>5. Pass(Len(replay_log))' <=> Pass(Len(replay_log))
  BY <1>2, <1>4 DEF Pass, InRun, Child, Joined, Recorded, Validation!Child
<1>6. IdsOf(replay_log') = IdsOf(replay_log)
  BY <1>2
<1>7. config.curator_correlation = Correlated
  BY <1>1 DEF ReplayedInv
<1>8. /\ verdict' = "Valid" => config.integration_correlation = Correlated
      /\ verdict' \notin {"Valid", "Validating"} => config.integration_correlation # Correlated
  BY <1>3
<1> QED BY <1>1, <1>2, <1>4, <1>5, <1>6, <1>7, <1>8 DEF ReplayedInv

\* The run itself leaves the validation alone.
LEMMA RunKeepsReplayed ==
  ASSUME ReplayedInv, UNCHANGED <<config, replay>>, pc' # "returned" => pc # "returned"
  PROVE  ReplayedInv'
<1>1. UNCHANGED <<replay_log, replay_ids, completed, decommissioned, integrated, children, verdict>>
  BY DEF replay
<1>2. UNCHANGED config /\ Planned' = Planned
  BY SamePlan
<1>3. Pass(Len(replay_log))' <=> Pass(Len(replay_log))
  BY <1>1, <1>2 DEF Pass, InRun, Child, Joined, Recorded, Validation!Child
<1>4. IdsOf(replay_log') = IdsOf(replay_log)
  BY <1>1
<1> QED BY <1>1, <1>2, <1>3, <1>4 DEF ReplayedInv

\* The pass over a run's log stops at the curator's first node, for another
\* correlation, or ends with a verdict on the integration's.
THEOREM ReplayedInvariant == Spec => []ReplayedInv
<1>1. Init => ReplayedInv
  BY InitReplayed
<1>2. RunInv /\ TypeOK /\ ReplayedInv /\ [Next]_vars => ReplayedInv'
  <2> SUFFICES ASSUME RunInv, TypeOK, ReplayedInv, [Next]_vars
               PROVE  ReplayedInv'
    OBVIOUS
  <2>0. Validation!TypeOK
    BY DEF TypeOK
  <2>1. CASE Begin \/ Record \/ Panic \/ Return \/ UNCHANGED vars
    <3>1. UNCHANGED <<config, replay>> /\ (pc' # "returned" => pc # "returned")
      BY <2>1 DEF Begin, Record, Recording, Panic, Return, vars, run
    <3> QED BY <3>1, RunKeepsReplayed
  <2>2. CASE ValidateReplay
    <3>1. pc = "returned" /\ UNCHANGED run
      BY <2>2 DEF ValidateReplay
    <3>2. CASE Len(replay_log) < Len(events)
      <4> DEFINE n == Len(replay_log) + 1
      <4>1. Checking(n) /\ events[n] = Planned[n]
        BY <2>0, <3>1, <3>2, ChecksThePlan
      <4>2. Validation!Admit(Planned[n]) \/ Validation!Reject(Planned[n])
        BY <2>2, <3>2, <4>1 DEF ValidateReplay
      <4> HIDE DEF n
      <4> QED BY <2>0, <3>1, <4>1, <4>2, AdmitKeepsReplayed, RejectKeepsReplayed
    <3>3. CASE ~(Len(replay_log) < Len(events))
      <4>1. Validation!Finish
        BY <2>2, <3>3 DEF ValidateReplay
      <4> QED BY <2>0, <3>1, <3>3, <4>1, FinishKeepsReplayed
    <3> QED BY <3>2, <3>3
  <2> QED BY <2>1, <2>2 DEF Next
<1> QED BY <1>1, <1>2, RunInvariant, RunTypeCorrect, PTL DEF Spec

-----------------------------------------------------------------------------
(* What the diagrams show of a whole run. *)

\* The validation draws what LoomProjections draws.
LEMMA SameDrawings ==
  \A log : /\ Validation!RouteTrace(log) = RouteTrace(log)
           /\ Validation!ArtifactProvenance(log) = ArtifactProvenance(log)
           /\ Validation!MemoryLineage(log) = MemoryLineage(log)
           /\ Validation!IntegrationGroup(log) = IntegrationGroup(log)
           /\ Validation!TaskDependencyTexts(log) = TaskDependencyTexts(log)
<1>1. /\ \A texts : Validation!Joint(texts) = Joint(texts)
      /\ \A log, hits : Validation!LastOf(log, hits) = LastOf(log, hits)
      /\ \A id : Validation!Task(id) = Task(id)
      /\ \A from, to : Validation!Drawn(from, to) = Drawn(from, to)
  BY DEF Validation!Joint, Joint, Validation!Sequence!FlattenSeq, Sequence!FlattenSeq,
         Validation!LastOf, LastOf, Validation!Task, Task, Validation!Drawn, Drawn
<1>2. \A from, e : Validation!AgentDrawn(from, e) = AgentDrawn(from, e)
  BY <1>1 DEF Validation!AgentDrawn, AgentDrawn
<1>3. \A from, next, name, with_agent :
        Validation!Caused(from, next, name, with_agent) = Caused(from, next, name, with_agent)
  BY <1>1, <1>2 DEF Validation!Caused, Caused
<1>4. \A log, type, id : Validation!LastCausedBy(log, type, id) = LastCausedBy(log, type, id)
  BY <1>1 DEF Validation!LastCausedBy, LastCausedBy, Validation!CausedBy, CausedBy
<1>5. \A log, e, type, name, next_type, next_name, with_agent :
        Validation!TraceOf(log, e, type, name, next_type, next_name, with_agent)
          = TraceOf(log, e, type, name, next_type, next_name, with_agent)
  <2> SUFFICES ASSUME NEW log, NEW e, NEW type, NEW name, NEW next_type, NEW next_name, NEW with_agent
               PROVE  Validation!TraceOf(log, e, type, name, next_type, next_name, with_agent)
                        = TraceOf(log, e, type, name, next_type, next_name, with_agent)
    OBVIOUS
  <2> DEFINE next == LastCausedBy(log, next_type, e.event_id)
             drawn == [i \in 1..Len(next) |->
                         Caused(<<name, e.event_id>>, next[i], next_name, with_agent)]
  <2>1. Validation!LastCausedBy(log, next_type, e.event_id) = next
    BY <1>4
  <2>2. drawn = [i \in 1..Len(next) |->
                   Validation!Caused(<<name, e.event_id>>, next[i], next_name, with_agent)]
    BY <1>3
  <2>3. /\ Validation!Task(e.task_id) = Task(e.task_id)
        /\ Validation!Drawn(Task(e.task_id), <<name, e.event_id>>)
             = Drawn(Task(e.task_id), <<name, e.event_id>>)
        /\ Validation!Joint(drawn) = Joint(drawn)
    BY <1>1
  <2>4. TraceOf(log, e, type, name, next_type, next_name, with_agent)
          = IF e.event_type # type \/ e.task_id = None THEN <<>>
            ELSE << <<Task(e.task_id)>> >> \o Drawn(Task(e.task_id), <<name, e.event_id>>) \o Joint(drawn)
    BY DEF TraceOf
  <2>5. Validation!TraceOf(log, e, type, name, next_type, next_name, with_agent)
          = IF e.event_type # type \/ e.task_id = None THEN <<>>
            ELSE << <<Task(e.task_id)>> >> \o Drawn(Task(e.task_id), <<name, e.event_id>>) \o Joint(drawn)
    <3> HIDE DEF next
    <3> QED BY <2>1, <2>2, <2>3, Zenon DEF Validation!TraceOf
  <2> QED BY <2>4, <2>5
<1>6. \A log, type, name, next_type, next_name, with_agent :
        Validation!Trace(log, type, name, next_type, next_name, with_agent)
          = Trace(log, type, name, next_type, next_name, with_agent)
  BY <1>1, <1>5 DEF Validation!Trace, Trace
<1>7. \A e, parent : Validation!IsChildOf(e, parent) <=> IsChildOf(e, parent)
  BY DEF Validation!IsChildOf, IsChildOf
<1>8. \A log, parent : Validation!IntegrationOf(log, parent) = IntegrationOf(log, parent)
  <2>1. \A e, parent : Validation!ChildIntegrated(e, parent) = ChildIntegrated(e, parent)
    BY <1>1, <1>7 DEF Validation!ChildIntegrated, ChildIntegrated
  <2> QED BY <1>1, <2>1 DEF Validation!IntegrationOf, IntegrationOf
<1>9. \A log : Validation!TaskDependencyTexts(log) = TaskDependencyTexts(log)
  <2>1. \A e : Validation!TaskOf(e) = TaskOf(e)
    BY <1>1 DEF Validation!TaskOf, TaskOf
  <2>2. \A log : Validation!IntegrationParents(log) = IntegrationParents(log)
    BY DEF Validation!IntegrationParents, IntegrationParents
  <2>3. \A S : Validation!Sequence!SetToSeqs(S) = Sequence!SetToSeqs(S)
    BY DEF Validation!Sequence!SetToSeqs, Sequence!SetToSeqs,
           Validation!Sequence!Cardinality, Sequence!Cardinality
  <2> QED BY <1>1, <1>8, <2>1, <2>2, <2>3 DEF Validation!TaskDependencyTexts, TaskDependencyTexts
<1>10. \A log, g : Validation!GroupOf(log, g) = GroupOf(log, g)
  <2>1. \A e, g : Validation!ChildGrouped(e, g) = ChildGrouped(e, g)
    BY <1>1, <1>7 DEF Validation!ChildGrouped, ChildGrouped
  <2>2. \A log, g : Validation!ReportsOf(log, g) = ReportsOf(log, g)
    BY DEF Validation!ReportsOf, ReportsOf, Validation!IsReportOf, IsReportOf
  <2>3. \A g : Validation!IsGroup(g) <=> IsGroup(g)
    BY DEF Validation!IsGroup, IsGroup
  <2> QED BY <1>1, <1>3, <2>1, <2>2, <2>3 DEF Validation!GroupOf, GroupOf
<1>11. \A log : Validation!IntegrationGroup(log) = IntegrationGroup(log)
  BY <1>1, <1>10 DEF Validation!IntegrationGroup, IntegrationGroup
<1>12. \A log : /\ Validation!RouteTrace(log) = RouteTrace(log)
                /\ Validation!ArtifactProvenance(log) = ArtifactProvenance(log)
                /\ Validation!MemoryLineage(log) = MemoryLineage(log)
  BY <1>6 DEF Validation!RouteTrace, RouteTrace, Validation!ArtifactProvenance, ArtifactProvenance,
              Validation!MemoryLineage, MemoryLineage
<1> QED BY <1>9, <1>11, <1>12

\* A log with all the run did.
Whole(log) ==
  /\ config \in Config /\ log \in Seq(Event) /\ Len(log) = 19
  /\ \A j \in 1..19 : log[j] = Planned[j]

LEMMA CausedOnce ==
  ASSUME NEW log, Whole(log), NEW type, NEW id, NEW a \in 1..19,
         \A j \in 1..19 : Planned[j].event_type = type /\ Planned[j].causation_id = id <=> j = a
  PROVE  LastAt(CausedBy(log, type, id), a)
<1>1. 1..Len(log) = 1..19 /\ \A j \in 1..19 : log[j] = Planned[j]
  BY DEF Whole
<1>2. \A j : j \in CausedBy(log, type, id) <=>
               j \in 1..19 /\ Planned[j].event_type = type /\ Planned[j].causation_id = id
  BY <1>1 DEF CausedBy
<1>3. \A j : j \in CausedBy(log, type, id) <=> j = a
  BY <1>2
<1>4. CausedBy(log, type, id) = {a}
  BY <1>3
<1> QED BY <1>4 DEF LastAt

\* What a trace shows of a cause and the one event it led to.
LEMMA TraceShows ==
  ASSUME NEW log, Whole(log), NEW type, NEW name \in NodeName, NEW next_type,
         NEW next_name \in NodeName, NEW with_agent \in BOOLEAN,
         NEW j \in 1..19, Planned[j].event_type = type, Planned[j].task_id # None,
         NEW k \in 1..19, LastAt(CausedBy(log, next_type, Planned[j].event_id), k)
  PROVE  LET lines == ElementsOf(Trace(log, type, name, next_type, next_name, with_agent))
             n == <<name, Planned[j].event_id>>
             m == <<next_name, Planned[k].event_id>>
         IN /\ <<Task(Planned[j].task_id), n>> \in lines /\ <<n, m>> \in lines
            /\ with_agent /\ Planned[k].has_agent =>
                 <<m, <<"agent", Planned[k].event_id>>>> \in lines
<1> DEFINE t == Task(Planned[j].task_id)
           n == <<name, Planned[j].event_id>>
           m == <<next_name, Planned[k].event_id>>
           agent == <<"agent", Planned[k].event_id>>
           own == TraceOf(log, log[j], type, name, next_type, next_name, with_agent)
           text == Trace(log, type, name, next_type, next_name, with_agent)
<1>1. /\ log \in Seq(Event) /\ j \in 1..Len(log) /\ k \in 1..Len(log)
      /\ log[j] = Planned[j] /\ log[k] = Planned[k] /\ Planned[j] \in Event /\ Planned[k] \in Event
  BY PlannedAreValid DEF Whole
<1>2. ElementsOf(Caused(n, log[k], next_name, with_agent)) =
        {<<m>>, <<n, m>>}
          \cup IF with_agent /\ Planned[k].has_agent THEN {<<agent>>, <<m, agent>>} ELSE {}
  <2>1. n \in Node
    BY <1>1, NodeFacts
  <2> HIDE DEF n
  <2> QED BY <1>1, <2>1, CausedElements
<1>3. \A l : l \in ElementsOf(own) <=>
               /\ Planned[j].event_type = type /\ Planned[j].task_id # None
               /\ \/ l \in {<<t>>, <<n>>, <<t, n>>}
                  \/ \E i \in 1..Len(log) :
                       /\ LastAt(CausedBy(log, next_type, Planned[j].event_id), i)
                       /\ l \in ElementsOf(Caused(n, log[i], next_name, with_agent))
  BY <1>1, TraceOfElements
<1>4. \A l : l \in ElementsOf(own) => l \in ElementsOf(text)
  BY <1>1, TraceElements
<1> HIDE DEF own, text, t, n, m, agent
<1>5. <<t, n>> \in ElementsOf(own)
  BY <1>3
<1>6. \A l \in ElementsOf(Caused(n, log[k], next_name, with_agent)) : l \in ElementsOf(own)
  BY <1>1, <1>3
<1>7. <<n, m>> \in ElementsOf(own)
  BY <1>2, <1>6
<1>8. with_agent /\ Planned[k].has_agent => <<m, agent>> \in ElementsOf(own)
  BY <1>2, <1>6
<1> QED BY <1>4, <1>5, <1>7, <1>8 DEF text, t, n, m, agent

\* What is done for a child, and where.
LEMMA WorkPlaces ==
  ASSUME config \in Config, NEW i \in 0..1
  PROVE  /\ 2 + i \in 1..19 /\ Planned[2 + i] = ChildCreated(i)
         /\ 5 + 6 * i \in 1..19 /\ Planned[5 + 6 * i] = Routed(i)
         /\ 6 + 6 * i \in 1..19 /\ Planned[6 + 6 * i] = Assigned(i)
         /\ 7 + 6 * i \in 1..19 /\ Planned[7 + 6 * i] = Build(i)[1]
         /\ 8 + 6 * i \in 1..19 /\ Planned[8 + 6 * i] = Build(i)[2]
         /\ 10 + 6 * i \in 1..19 /\ Planned[10 + 6 * i] = Build(i)[4]
         /\ 18 + i \in 1..19 /\ Planned[18 + i] = Remembered(i)
<1>1. CASE i = 0
  BY <1>1, PlannedIs
<1>2. CASE i = 1
  BY <1>2, PlannedIs
<1> QED BY <1>1, <1>2

\* From the route decision to the agent.
LEMMA RouteIsShown ==
  ASSUME NEW log, Whole(log), NEW i \in 0..1
  PROVE  LET route == <<"route", 100 + 2 * i>>
             assignment == <<"assignment", 101 + 2 * i>>
         IN { <<Task(Child(i)), route>>, <<route, assignment>>,
              <<assignment, <<"agent", 101 + 2 * i>>>> } \subseteq ElementsOf(RouteTrace(log))
<1> DEFINE j == 5 + 6 * i
           a == 6 + 6 * i
           b == 12 - 6 * i
<1>1. config \in Config /\ 1 - i \in 0..1 /\ Child(i) # None
  BY ConfigFacts, NoneAssumption DEF Whole
<1>2. /\ j \in 1..19 /\ a \in 1..19 /\ b \in 1..19 /\ {a, b} = {6, 12}
      /\ b = 6 + 6 * (1 - i) /\ 100 + 2 * i # 100 + 2 * (1 - i)
  OBVIOUS
<1>3. Planned[j] = Routed(i) /\ Planned[a] = Assigned(i) /\ Planned[b] = Assigned(1 - i)
  BY <1>1, <1>2, WorkPlaces
<1> HIDE DEF j, a, b
<1>4. /\ Planned[j].event_type = "RouteDecisionRecorded" /\ Planned[j].task_id = Child(i)
      /\ Planned[j].event_id = 100 + 2 * i
  BY <1>1, <1>3, RoutedSays DEF Says
<1>5. /\ Planned[a].event_id = 101 + 2 * i /\ Planned[a].causation_id = 100 + 2 * i
      /\ Planned[a].has_agent
  BY <1>1, <1>3, AssignedSays, SaidOfTasks DEF Says
<1>6. Planned[b].causation_id # 100 + 2 * i
  BY <1>1, <1>2, <1>3, AssignedSays
<1>7. \A n \in 1..19 : Planned[n].event_type = "TaskAssigned" <=> n \in {a, b}
  <2>1. config \in Config /\ {a, b} = {6, 12}
    BY <1>1, <1>2
  <2>2. \A n \in 1..19 : Planned[n].event_type = "TaskAssigned" <=> n \in {6, 12}
    BY <2>1, PlacesOfTypes
  <2> QED BY <2>1, <2>2, Zenon
<1>8. LastAt(CausedBy(log, "TaskAssigned", Planned[j].event_id), a)
  <2> DEFINE id == 100 + 2 * i
  <2>1. Planned[a].causation_id = id /\ Planned[b].causation_id # id /\ Planned[j].event_id = id
    BY <1>4, <1>5, <1>6
  <2> HIDE DEF id
  <2>2. \A n \in 1..19 :
          Planned[n].event_type = "TaskAssigned" /\ Planned[n].causation_id = id <=> n = a
    BY <1>2, <1>7, <2>1
  <2>3. LastAt(CausedBy(log, "TaskAssigned", id), a)
    BY <1>2, <2>2, CausedOnce
  <2> QED BY <2>1, <2>3
<1>9. "route" \in NodeName /\ "assignment" \in NodeName /\ Planned[j].task_id # None
  BY <1>1, <1>4 DEF NodeName
<1> DEFINE lines == ElementsOf(RouteTrace(log))
<1>10. LET n == <<"route", Planned[j].event_id>>
           m == <<"assignment", Planned[a].event_id>>
       IN /\ <<Task(Planned[j].task_id), n>> \in lines /\ <<n, m>> \in lines
          /\ TRUE /\ Planned[a].has_agent => <<m, <<"agent", Planned[a].event_id>>>> \in lines
  BY <1>2, <1>4, <1>8, <1>9, TraceShows DEF RouteTrace
<1> HIDE DEF lines
<1>11. { <<Task(Child(i)), <<"route", 100 + 2 * i>>>>,
         <<<<"route", 100 + 2 * i>>, <<"assignment", 101 + 2 * i>>>>,
         <<<<"assignment", 101 + 2 * i>>, <<"agent", 101 + 2 * i>>>> } \subseteq lines
  BY <1>4, <1>5, <1>10
<1> QED BY <1>11 DEF lines

\* From the artifact to its readiness.
LEMMA ArtifactIsShown ==
  ASSUME NEW log, Whole(log), NEW i \in 0..1
  PROVE  LET declared == <<"artifact_declared", 2000 + 10 * i>>
             ready == <<"artifact_ready", 2001 + 10 * i>>
         IN {<<Task(Child(i)), declared>>, <<declared, ready>>} \subseteq ElementsOf(ArtifactProvenance(log))
<1> DEFINE j == 7 + 6 * i
           a == 8 + 6 * i
           b == 14 - 6 * i
           id == 2000 + 10 * i
           lines == ElementsOf(ArtifactProvenance(log))
<1>1. config \in Config /\ 1 - i \in 0..1 /\ Child(i) # None
  BY ConfigFacts, NoneAssumption DEF Whole
<1>2. /\ j \in 1..19 /\ a \in 1..19 /\ b \in 1..19 /\ {a, b} = {8, 14}
      /\ b = 8 + 6 * (1 - i) /\ id # 2000 + 10 * (1 - i)
      /\ 2000 + 10 * i + 0 = id /\ 2000 + 10 * i + 1 = 2001 + 10 * i
  OBVIOUS
<1>3. Planned[j] = Build(i)[1] /\ Planned[a] = Build(i)[2] /\ Planned[b] = Build(1 - i)[2]
  BY <1>1, <1>2, WorkPlaces
<1> HIDE DEF j, a, b
<1>4. /\ Planned[j].event_type = "ArtifactDeclared" /\ Planned[j].task_id = Child(i)
      /\ Planned[j].event_id = id
  BY <1>1, <1>2, <1>3, DeclaredSays DEF Says
<1>5. Planned[a].event_id = 2001 + 10 * i /\ Planned[a].causation_id = id
  BY <1>1, <1>2, <1>3, ReadySays DEF Says
<1>6. Planned[b].causation_id # id
  BY <1>1, <1>2, <1>3, ReadySays
<1>7. \A n \in 1..19 : Planned[n].event_type = "ArtifactReady" <=> n \in {a, b}
  <2>1. config \in Config /\ {a, b} = {8, 14}
    BY <1>1, <1>2
  <2>2. \A n \in 1..19 : Planned[n].event_type = "ArtifactReady" <=> n \in {8, 14}
    BY <2>1, PlacesOfTypes
  <2> QED BY <2>1, <2>2, Zenon
<1> HIDE DEF id
<1>8. \A n \in 1..19 :
        Planned[n].event_type = "ArtifactReady" /\ Planned[n].causation_id = id <=> n = a
  BY <1>2, <1>5, <1>6, <1>7
<1>9. LastAt(CausedBy(log, "ArtifactReady", Planned[j].event_id), a)
  <2>1. LastAt(CausedBy(log, "ArtifactReady", id), a)
    BY <1>2, <1>8, CausedOnce
  <2> QED BY <1>4, <2>1
<1>10. "artifact_declared" \in NodeName /\ "artifact_ready" \in NodeName /\ Planned[j].task_id # None
  BY <1>1, <1>4 DEF NodeName
<1>11. LET n == <<"artifact_declared", Planned[j].event_id>>
           m == <<"artifact_ready", Planned[a].event_id>>
       IN /\ <<Task(Planned[j].task_id), n>> \in lines /\ <<n, m>> \in lines
          /\ TRUE /\ Planned[a].has_agent => <<m, <<"agent", Planned[a].event_id>>>> \in lines
  <2>1. j \in 1..19 /\ a \in 1..19 /\ Whole(log)
    BY <1>2
  <2> QED BY <1>4, <1>9, <1>10, <2>1, TraceShows DEF ArtifactProvenance
<1> HIDE DEF lines
<1>12. { <<Task(Child(i)), <<"artifact_declared", id>>>>,
         <<<<"artifact_declared", id>>, <<"artifact_ready", 2001 + 10 * i>>>> } \subseteq lines
  BY <1>4, <1>5, <1>11
<1> QED BY <1>12 DEF lines, id

\* From decommission to memory.
LEMMA MemoryIsShown ==
  ASSUME NEW log, Whole(log), NEW i \in 0..1
  PROVE  LET decommission == <<"decommission", 2003 + 10 * i>>
         IN { <<Task(Child(i)), decommission>>,
              <<decommission, <<"memory", config.curator_event + i>>>> }
              \subseteq ElementsOf(MemoryLineage(log))
<1> DEFINE j == 10 + 6 * i
           a == 18 + i
           b == 19 - i
           id == 2003 + 10 * i
           lines == ElementsOf(MemoryLineage(log))
<1>1. config \in Config /\ 1 - i \in 0..1 /\ Child(i) # None
  BY ConfigFacts, NoneAssumption DEF Whole
<1>2. /\ j \in 1..19 /\ a \in 1..19 /\ b \in 1..19 /\ {a, b} = {18, 19}
      /\ b = 18 + (1 - i) /\ id # 2003 + 10 * (1 - i)
      /\ 2000 + 10 * i + 3 = id
  OBVIOUS
<1>3. Planned[j] = Build(i)[4] /\ Planned[a] = Remembered(i) /\ Planned[b] = Remembered(1 - i)
  BY <1>1, <1>2, WorkPlaces
<1> HIDE DEF j, a, b
<1>4. /\ Planned[j].event_type = "AgentDecommissioned" /\ Planned[j].task_id = Child(i)
      /\ Planned[j].event_id = id
  BY <1>1, <1>2, <1>3, DecommissionedSays DEF Says
<1>5. Planned[a].event_id = config.curator_event + i /\ Planned[a].causation_id = id
  BY <1>1, <1>3, RememberedSays, SaidOfWork DEF Says
<1>6. Planned[b].causation_id # id
  BY <1>1, <1>2, <1>3, SaidOfWork
<1>7. \A n \in 1..19 : Planned[n].event_type = "MemoryNodeCreated" <=> n \in {a, b}
  <2>1. config \in Config /\ {a, b} = {18, 19}
    BY <1>1, <1>2
  <2>2. \A n \in 1..19 : Planned[n].event_type = "MemoryNodeCreated" <=> n \in {18, 19}
    BY <2>1, PlacesOfTypes
  <2> QED BY <2>1, <2>2, Zenon
<1> HIDE DEF id
<1>8. \A n \in 1..19 :
        Planned[n].event_type = "MemoryNodeCreated" /\ Planned[n].causation_id = id <=> n = a
  BY <1>2, <1>5, <1>6, <1>7
<1>9. LastAt(CausedBy(log, "MemoryNodeCreated", Planned[j].event_id), a)
  <2>1. LastAt(CausedBy(log, "MemoryNodeCreated", id), a)
    BY <1>2, <1>8, CausedOnce
  <2> QED BY <1>4, <2>1
<1>10. "decommission" \in NodeName /\ "memory" \in NodeName /\ Planned[j].task_id # None
  BY <1>1, <1>4 DEF NodeName
<1>11. LET n == <<"decommission", Planned[j].event_id>>
           m == <<"memory", Planned[a].event_id>>
       IN /\ <<Task(Planned[j].task_id), n>> \in lines /\ <<n, m>> \in lines
          /\ FALSE /\ Planned[a].has_agent => <<m, <<"agent", Planned[a].event_id>>>> \in lines
  <2>1. j \in 1..19 /\ a \in 1..19 /\ Whole(log)
    BY <1>2
  <2> QED BY <1>4, <1>9, <1>10, <2>1, TraceShows DEF MemoryLineage
<1> HIDE DEF lines
<1>12. { <<Task(Child(i)), <<"decommission", id>>>>,
         <<<<"decommission", id>>, <<"memory", config.curator_event + i>>>> } \subseteq lines
  BY <1>4, <1>5, <1>11
<1> QED BY <1>12 DEF lines, id

\* From the root to its children, and on to its integration.
LEMMA TasksAreShown ==
  ASSUME NEW log, Whole(log), NEW i \in 0..1, NEW text \in TaskDependencyTexts(log)
  PROVE  { <<Task(config.root), Task(Child(i))>>,
           <<Task(Child(i)), <<"integration", config.root>>>> } \subseteq ElementsOf(text)
<1> DEFINE c == ChildCreated(i)
<1>1. config \in Config /\ log \in Seq(Event) /\ Len(log) = 19
  BY DEF Whole
<1>2. 2 + i \in 1..19 /\ log[2 + i] = c /\ 4 \in 1..19 /\ log[4] = PathRequested
  BY <1>1, WorkPlaces, PlannedIs DEF Whole
<1>3. config.root \in TaskId /\ config.root # None /\ Child(i) # None
  BY <1>1, ConfigFacts, NoneAssumption
<1>4. c \in Event /\ c.event_type = "TaskCreated" /\ c.task_id = Child(i)
  BY <1>1, ChildCreatedSays DEF Says
<1>5. c.parent_task_id = config.root
  BY SaidOfTasks
<1>6. PathRequested.event_type = "IntegrationRequested" /\ PathRequested.task_id = config.root
  BY <1>1, PathRequestedSays DEF Says
<1> HIDE DEF c
<1>7. config.root \in IntegrationParents(log)
  BY <1>1, <1>2, <1>3, <1>6 DEF IntegrationParents
<1>8. <<Task(config.root), Task(Child(i))>> \in ElementsOf(TaskOf(c))
  BY <1>3, <1>4, <1>5, TaskOfElements
<1>9. <<Task(Child(i)), <<"integration", config.root>>>> \in ElementsOf(IntegrationOf(log, config.root))
  <2>1. IsChildOf(c, config.root)
    BY <1>3, <1>4, <1>5 DEF IsChildOf
  <2> QED BY <1>1, <1>2, <1>3, <1>4, <2>1, IntegrationOfElements
<1>10. \A l : l \in ElementsOf(text) <=>
                \/ \E n \in 1..Len(log) : l \in ElementsOf(TaskOf(log[n]))
                \/ \E p \in IntegrationParents(log) : l \in ElementsOf(IntegrationOf(log, p))
  BY <1>1, TaskDependencyElements
<1>11. <<Task(config.root), Task(Child(i))>> \in ElementsOf(text)
  BY <1>1, <1>2, <1>8, <1>10
<1>12. <<Task(Child(i)), <<"integration", config.root>>>> \in ElementsOf(text)
  BY <1>7, <1>9, <1>10
<1> QED BY <1>11, <1>12

\* From the children to their group, and on to its report.
LEMMA GroupIsShown ==
  ASSUME NEW log, Whole(log)
  PROVE  /\ \A i \in 0..1 :
              <<Task(Child(i)), <<"integration_group", 10>>>> \in ElementsOf(IntegrationGroup(log))
         /\ <<<<"integration_group", 10>>, <<"integration_report", config.integration_event>>>>
              \in ElementsOf(IntegrationGroup(log))
<1> DEFINE g == PathRequested
           group == <<"integration_group", 10>>
           report == <<"integration_report", config.integration_event>>
           own == ElementsOf(GroupOf(log, g))
           lines == ElementsOf(IntegrationGroup(log))
<1>1. config \in Config /\ log \in Seq(Event) /\ Len(log) = 19
      /\ \A j \in 1..19 : log[j] = Planned[j]
  BY DEF Whole
<1>2. 4 \in 1..19 /\ log[4] = g /\ 17 \in 1..19 /\ log[17] = Joined
  BY <1>1, PlannedIs
<1>3. /\ g \in Event /\ g.event_id = 10 /\ g.event_type = "IntegrationRequested"
      /\ g.task_id = config.root /\ g.payload_ref = <<"group", 0>>
  BY <1>1, PathRequestedSays DEF Says
<1>4. /\ Joined \in Event /\ Joined.event_id = config.integration_event
      /\ Joined.event_type = "IntegrationRequested" /\ Joined.payload_ref = <<"report", 0>>
  BY <1>1, JoinedSays DEF Says
<1>5. config.root # None
  BY <1>1, ConfigFacts, NoneAssumption
<1> HIDE DEF g
<1>6. IsGroup(g)
  BY <1>3, VocabularyAssumption DEF IsGroup
<1>7. <<"integration_group", g.event_id>> = group
  BY <1>3
<1>8. \A l : l \in own <=>
        \/ l \in {<<Task(g.task_id)>>, <<group>>, <<Task(g.task_id), group>>}
        \/ \E i \in 1..Len(log) : l \in ElementsOf(ChildGrouped(log[i], g))
        \/ \E m \in 1..Len(log) :
             /\ LastAt(ReportsOf(log, g), m)
             /\ l \in ElementsOf(Caused(group, log[m], "integration_report", TRUE))
  BY <1>1, <1>3, <1>5, <1>6, <1>7, GroupOfElements
<1>9. \A l : l \in own => l \in lines
  BY <1>1, <1>2, GroupElements
<1>10. ASSUME NEW i \in 0..1
       PROVE  <<Task(Child(i)), group>> \in own
  <2> DEFINE c == ChildCreated(i)
  <2>1. 2 + i \in 1..19 /\ log[2 + i] = c
    BY <1>1, WorkPlaces
  <2>2. c \in Event /\ c.event_type = "TaskCreated" /\ c.task_id = Child(i)
    BY <1>1, ChildCreatedSays DEF Says
  <2>3. c.parent_task_id = config.root /\ Child(i) # None
    BY <1>1, SaidOfTasks, ConfigFacts, NoneAssumption
  <2> HIDE DEF c
  <2>4. IsChildOf(c, g.task_id)
    BY <1>3, <2>2, <2>3 DEF IsChildOf
  <2>5. ChildGrouped(c, g) = << <<Task(Child(i))>>, <<Task(Child(i)), group>> >>
    BY <1>7, <2>2, <2>4 DEF ChildGrouped
  <2>6. <<Task(Child(i)), group>> \in ElementsOf(ChildGrouped(c, g))
    BY <2>5, FewElements
  <2>7. <<Task(Child(i)), group>> \in ElementsOf(ChildGrouped(log[2 + i], g)) /\ 2 + i \in 1..Len(log)
    BY <1>1, <2>1, <2>6
  <2> HIDE DEF own, group
  <2> QED BY <1>8, <2>7
<1>11. <<group, report>> \in own
  <2>1. LastAt(ReportsOf(log, g), 17)
    <3>0. \A j : j \in ReportsOf(log, g) <=> j \in 1..19 /\ IsReportOf(g, log[j])
      BY <1>1 DEF ReportsOf
    <3>1. 17 \in ReportsOf(log, g)
      <4>1. <<"report", 0>> \in ReportRef /\ RefTail[<<"group", 0>>] = RefTail[<<"report", 0>>]
        BY VocabularyAssumption
      <4>2. IsReportOf(g, Joined)
        BY <1>3, <1>4, <4>1 DEF IsReportOf
      <4> QED BY <1>2, <3>0, <4>2
    <3>2. \A j \in ReportsOf(log, g) : j \in {4, 17}
      <4>1. \A j \in 1..19 : Planned[j].event_type = "IntegrationRequested" => j \in {4, 17}
        BY <1>1, PlacesOfTypes
      <4>2. \A j \in ReportsOf(log, g) :
              j \in 1..19 /\ Planned[j].event_type = "IntegrationRequested"
        BY <1>1, <3>0 DEF IsReportOf
      <4> QED BY <4>1, <4>2
    <3> QED BY <3>1, <3>2 DEF LastAt
  <2>2. group \in Node /\ "integration_report" \in NodeName
    BY <1>3, <1>7, NodeFacts DEF NodeName
  <2> HIDE DEF group
  <2>3. <<group, <<"integration_report", Joined.event_id>>>>
          \in ElementsOf(Caused(group, Joined, "integration_report", TRUE))
    <3> DEFINE e == Joined
               name == "integration_report"
               n == <<name, e.event_id>>
               with_agent == TRUE
    <3>1. e \in Event /\ name \in NodeName /\ with_agent \in BOOLEAN
      BY <1>4, <2>2
    <3> HIDE DEF e, name, with_agent
    <3>2. ElementsOf(Caused(group, e, name, with_agent)) =
            {<<n>>, <<group, n>>} \cup IF with_agent /\ e.has_agent
                                      THEN {<<<<"agent", e.event_id>>>>, <<n, <<"agent", e.event_id>>>>} ELSE {}
      BY <2>2, <3>1, CausedElements
    <3>3. <<group, n>> \in ElementsOf(Caused(group, e, name, with_agent))
      BY <3>2
    <3> QED BY <3>3 DEF e, name, with_agent
  <2>4. <<group, report>> \in ElementsOf(Caused(group, log[17], "integration_report", TRUE))
    BY <1>2, <1>4, <2>3
  <2>5. 17 \in 1..Len(log)
    BY <1>1
  <2> HIDE DEF own, report
  <2> QED BY <1>8, <2>1, <2>4, <2>5
<1> HIDE DEF own, lines, group, report
<1>12. (\A i \in 0..1 : <<Task(Child(i)), group>> \in lines) /\ <<group, report>> \in lines
  BY <1>9, <1>10, <1>11
<1> QED BY <1>12 DEF lines, group, report

\* A report on a whole run shows all of it.
LEMMA RunIsShown ==
  ASSUME Whole(replay_log), verdict = "Valid", NEW report \in Validation!Reports
  PROVE  RunShows(report)
<1> DEFINE log == replay_log
<1>1. Whole(log) /\ log # <<>>
  <2>1. Len(log) = 19
    BY DEF Whole
  <2>2. Len(<<>>) = 0 /\ 0 # 19
    OBVIOUS
  <2> QED BY <2>1, <2>2, Zenon
<1>2. report \in Validation!Bundles(log)
  BY <1>1 DEF Validation!Reports
<1> HIDE DEF log
<1>3. report \in
        [ task_dependency : Validation!TaskDependencyTexts(log),
          route_trace : {Validation!RouteTrace(log)},
          artifact_provenance : {Validation!ArtifactProvenance(log)},
          integration_group : {Validation!IntegrationGroup(log)},
          memory_lineage : {Validation!MemoryLineage(log)},
          topology_governance : {Validation!TopologyGovernance(log)} ]
  BY <1>2 DEF Validation!Bundles
<1>4. /\ report.task_dependency \in Validation!TaskDependencyTexts(log)
      /\ report.route_trace = Validation!RouteTrace(log)
      /\ report.artifact_provenance = Validation!ArtifactProvenance(log)
      /\ report.integration_group = Validation!IntegrationGroup(log)
      /\ report.memory_lineage = Validation!MemoryLineage(log)
  BY <1>3
<1>5. /\ report.task_dependency \in TaskDependencyTexts(log)
      /\ report.route_trace = RouteTrace(log)
      /\ report.artifact_provenance = ArtifactProvenance(log)
      /\ report.integration_group = IntegrationGroup(log)
      /\ report.memory_lineage = MemoryLineage(log)
  BY <1>4, SameDrawings
<1>6. \A text : Validation!LinesOf(text) = ElementsOf(text)
  BY DEF Validation!LinesOf, ElementsOf
<1> DEFINE Work(i) == Task(Child(i))
<1>7. ASSUME NEW i \in 0..1
      PROVE  LET route == <<"route", 100 + 2 * i>>
                 assignment == <<"assignment", 101 + 2 * i>>
                 declared == <<"artifact_declared", 2000 + 10 * i>>
                 ready == <<"artifact_ready", 2001 + 10 * i>>
                 decommission == <<"decommission", 2003 + 10 * i>>
             IN /\ { <<Work(i), route>>, <<route, assignment>>,
                     <<assignment, <<"agent", 101 + 2 * i>>>> }
                     \subseteq Validation!LinesOf(report.route_trace)
                /\ {<<Work(i), declared>>, <<declared, ready>>}
                     \subseteq Validation!LinesOf(report.artifact_provenance)
                /\ { <<Work(i), decommission>>,
                     <<decommission, <<"memory", config.curator_event + i>>>> }
                     \subseteq Validation!LinesOf(report.memory_lineage)
                /\ { <<Task(config.root), Work(i)>>,
                     <<Work(i), <<"integration", config.root>>>> }
                     \subseteq Validation!LinesOf(report.task_dependency)
                /\ <<Work(i), <<"integration_group", 10>>>>
                     \in Validation!LinesOf(report.integration_group)
  <2>1. { <<Work(i), <<"route", 100 + 2 * i>>>>,
          <<<<"route", 100 + 2 * i>>, <<"assignment", 101 + 2 * i>>>>,
          <<<<"assignment", 101 + 2 * i>>, <<"agent", 101 + 2 * i>>>> }
          \subseteq Validation!LinesOf(report.route_trace)
    BY <1>1, <1>5, <1>6, RouteIsShown
  <2>2. { <<Work(i), <<"artifact_declared", 2000 + 10 * i>>>>,
          <<<<"artifact_declared", 2000 + 10 * i>>, <<"artifact_ready", 2001 + 10 * i>>>> }
          \subseteq Validation!LinesOf(report.artifact_provenance)
    BY <1>1, <1>5, <1>6, ArtifactIsShown
  <2>3. { <<Work(i), <<"decommission", 2003 + 10 * i>>>>,
          <<<<"decommission", 2003 + 10 * i>>, <<"memory", config.curator_event + i>>>> }
          \subseteq Validation!LinesOf(report.memory_lineage)
    BY <1>1, <1>5, <1>6, MemoryIsShown
  <2>4. { <<Task(config.root), Work(i)>>, <<Work(i), <<"integration", config.root>>>> }
          \subseteq Validation!LinesOf(report.task_dependency)
    BY <1>1, <1>5, <1>6, TasksAreShown
  <2>5. <<Work(i), <<"integration_group", 10>>>> \in Validation!LinesOf(report.integration_group)
    BY <1>1, <1>5, <1>6, GroupIsShown
  <2> HIDE DEF Work
  <2> QED BY <2>1, <2>2, <2>3, <2>4, <2>5
<1>8. <<<<"integration_group", 10>>, <<"integration_report", config.integration_event>>>>
        \in Validation!LinesOf(report.integration_group)
  BY <1>1, <1>5, <1>6, GroupIsShown
<1> QED BY <1>7, <1>8, Zenon DEF RunShows

\* The log of a run gives a report exactly when integration and curator work under
\* the run's correlation, and the report shows the whole run.
THEOREM RunIsValidated == Spec => []RunValidates
<1>1. ASSUME RunInv, TypeOK, ReplayedInv
      PROVE  RunValidates
  <2> DEFINE correlations == {config.integration_correlation, config.curator_correlation}
             correlated == correlations = {Correlated}
  <2>1. correlated <=> /\ config.integration_correlation = Correlated
                       /\ config.curator_correlation = Correlated
    OBVIOUS
  <2>2. ASSUME verdict = "Valid"
        PROVE  correlated /\ \A report \in Validation!Reports : RunShows(report)
    <3>1. /\ Len(replay_log) = 19 /\ \A j \in 1..Len(replay_log) : replay_log[j] = Planned[j]
          /\ config.integration_correlation = Correlated /\ config.curator_correlation = Correlated
      BY <1>1, <2>2 DEF ReplayedInv
    <3>2. config \in Config /\ replay_log \in Seq(Event)
      BY <1>1, SameEvents DEF RunInv, TypeOK, Validation!TypeOK, Validation!LogTypeOK
    <3>3. Whole(replay_log)
      BY <3>1, <3>2 DEF Whole
    <3> QED BY <2>1, <2>2, <3>1, <3>3, RunIsShown
  <2>3. verdict \notin {"Valid", "Validating"} => ~correlated
    BY <1>1, <2>1 DEF ReplayedInv
  <2> QED BY <2>2, <2>3 DEF RunValidates
<1>2. RunInv /\ TypeOK /\ ReplayedInv => RunValidates
  BY <1>1
<1> QED BY <1>2, RunInvariant, RunTypeCorrect, ReplayedInvariant, PTL
===============================================================================
