-------------------------------- MODULE TaskLoom --------------------------------
(***************************************************************************)
(* MockTaskLoom::run_prompt: director, router, constructors, integration and *)
(* curator, one after the other, record what they do in one event log, which  *)
(* the caller then hands to loom_replay_report.                               *)
(*                                                                         *)
(* Most ids and the correlation are fixed in the code; those of the integration*)
(* and the curator, and the task ids, come from outside.  Each part keeps a log *)
(* of its own whose events run_prompt appends to its log, and panics (`expect`) *)
(* where that is refused; a part's own log is refused for no other event.      *)
(*                                                                         *)
(* Prompts, plans, artifacts' content and the agents chosen are left out: no   *)
(* event depends on them but by its presence.                                *)
(***************************************************************************)
EXTENDS EventLog, LoomProjections

CONSTANT Config   \* what callers may configure

Correlated == 77

ASSUME ConfigAssumption ==
  Config \subseteq
    [ summary : BOOLEAN, root : RootId, first_child : TaskId,
      integration_event : EventId, integration_correlation : Correlation,
      curator_event : EventId, curator_correlation : Correlation ]
ASSUME RootAssumption == RootId \subseteq TaskId /\ Correlated \in Correlation

\* The ids the code itself gives.
FixedIds == {1, 2, 3, 10} \cup (100..103) \cup (2000..2003) \cup (2010..2013)

\* What the events of a run are made of: any u64 is an id, any text a reference, and
\* the ids counted on from a configured one are within 64 bits.  The group's
\* reference and its report's end in the same id.
ASSUME VocabularyAssumption ==
  /\ ({"artifact"} \X (900..901)) \cup ({"memory"} \X (1500..1501))
       \cup ({"group", "report"} \X {0}) \subseteq OtherRef
  /\ {"route-decision"} \X (500..501) \subseteq RouteRef
  /\ <<"group", 0>> \in GroupRef /\ <<"report", 0>> \in ReportRef
  /\ RefTail[<<"group", 0>>] = RefTail[<<"report", 0>>]
  /\ \A c \in Config :
       LET task == {c.root, c.first_child, c.first_child + 1} IN
       /\ c.first_child \in Nat /\ task \subseteq TaskId
       /\ {"task", "assignment", "decommission"} \X task \subseteq OtherRef
       /\ FixedIds \cup {c.curator_event, c.curator_event + 1} \subseteq EventId

VARIABLES
  config,         \* of this run
  pc,             \* "begin", "run", "refused", "panicked", "returned"
  replay_log, replay_ids, completed, decommissioned, integrated, children,
  verdict         \* of validate_replay on the log returned

run == <<config, pc, events, event_ids>>
replay == <<replay_log, replay_ids, completed, decommissioned, integrated, children, verdict>>
vars == <<run, replay>>

Validation == INSTANCE LoomReplay WITH events <- replay_log, event_ids <- replay_ids

TypeOK ==
  /\ LogTypeOK
  /\ Validation!TypeOK
  /\ config \in Config
  /\ pc \in {"begin", "run", "refused", "panicked", "returned"}

Init ==
  /\ LogInit
  /\ Validation!Init
  /\ config \in Config
  /\ pc = "begin"

-----------------------------------------------------------------------------
(* The events of a run. *)

\* What all events of a run have in common.
Recorded(id, type, task, ref) ==
  [ event_id |-> id, event_type |-> type, root_task_id |-> config.root,
    task_id |-> task, parent_task_id |-> None, has_agent |-> FALSE,
    has_snapshot |-> FALSE, payload_schema |-> "other", payload_ref |-> ref,
    causation_id |-> None, correlation_id |-> Correlated ]

\* MockDirector::split_root_task: two children, numbered on.
Child(i) == config.first_child + i

\* task_created_event
RootCreated == Recorded(1, "TaskCreated", config.root, <<"task", config.root>>)
ChildCreated(i) ==
  [ Recorded(2 + i, "TaskCreated", Child(i), <<"task", Child(i)>>)
      EXCEPT !.parent_task_id = config.root ]

\* The integration path every decomposition must have.
PathRequested ==
  [ Recorded(10, "IntegrationRequested", config.root, <<"group", 0>>)
      EXCEPT !.has_agent = TRUE ]

\* route_decision_recorded_event
Routed(i) ==
  [ Recorded(100 + 2 * i, "RouteDecisionRecorded", Child(i), <<"route-decision", 500 + i>>)
      EXCEPT !.has_snapshot = TRUE, !.payload_schema = "qtom.route_decision.v1" ]

\* Faulty: an assignment without its route decision.
AssignedUnexplained(i) ==
  [ Recorded(101 + 2 * i, "TaskAssigned", Child(i), <<"assignment", Child(i)>>)
      EXCEPT !.parent_task_id = config.root, !.has_agent = TRUE ]

\* task_assigned_event
Assigned(i) ==
  [ Recorded(101 + 2 * i, "TaskAssigned", Child(i), <<"assignment", Child(i)>>)
      EXCEPT !.parent_task_id = config.root, !.has_agent = TRUE,
             !.causation_id = 100 + 2 * i ]

\* MockConstructor::build_child_task, with ids from 2000 + 10 i.
Constructed(i, n, type, ref, cause) ==
  [ Recorded(2000 + 10 * i + n, type, Child(i), ref)
      EXCEPT !.parent_task_id = config.root, !.has_agent = TRUE, !.causation_id = cause ]

Build(i) ==
  LET artifact == <<"artifact", 900 + i>> IN
  << Constructed(i, 0, "ArtifactDeclared", artifact, None),
     Constructed(i, 1, "ArtifactReady", artifact, 2000 + 10 * i),
     Constructed(i, 2, "TaskCompleted", artifact, None),
     Constructed(i, 3, "AgentDecommissioned", <<"decommission", Child(i)>>, None) >>

\* MockIntegration::integrate_completed_children.  Both children have their
\* artifact by then.
Joined ==
  [ Recorded(config.integration_event, "IntegrationRequested", config.root, <<"report", 0>>)
      EXCEPT !.has_agent = TRUE, !.correlation_id = config.integration_correlation ]

\* Faulty: the memory node rests on the completion; or on the id after the
\* decommission's.
RemembersCompletion(i) ==
  [ Recorded(config.curator_event + i, "MemoryNodeCreated", Child(i), <<"memory", 1500 + i>>)
      EXCEPT !.has_agent = TRUE, !.causation_id = 2002 + 10 * i,
             !.correlation_id = config.curator_correlation ]
RemembersNext(i) ==
  [ Recorded(config.curator_event + i, "MemoryNodeCreated", Child(i), <<"memory", 1500 + i>>)
      EXCEPT !.has_agent = TRUE, !.causation_id = 2004 + 10 * i,
             !.correlation_id = config.curator_correlation ]

\* MockCurator::curate_decommission_packet
Remembered(i) ==
  [ Recorded(config.curator_event + i, "MemoryNodeCreated", Child(i), <<"memory", 1500 + i>>)
      EXCEPT !.has_agent = TRUE, !.causation_id = 2003 + 10 * i,
             !.correlation_id = config.curator_correlation ]

\* The events in the order run_prompt appends them.
Planned ==
  << RootCreated, ChildCreated(0), ChildCreated(1), PathRequested >>
    \o << Routed(0), Assigned(0) >> \o Build(0)
    \o << Routed(1), Assigned(1) >> \o Build(1)
    \o << Joined, Remembered(0), Remembered(1) >>

-----------------------------------------------------------------------------
\* A blank summary is refused: TaskEnvelope::root is the first to look.
Begin ==
  /\ pc = "begin"
  /\ pc' = IF config.summary THEN "run" ELSE "refused"
  /\ UNCHANGED <<config, logVars, replay>>

Recording == pc = "run" /\ Len(events) < Len(Planned)
NextEvent == Planned[Len(events) + 1]

Record ==
  /\ Recording
  /\ AppendEvent(NextEvent)
  /\ UNCHANGED <<config, pc, replay>>

\* expect("mock loom should merge valid ... event")
Panic ==
  /\ Recording
  /\ ~Accepts(events, event_ids, NextEvent)
  /\ pc' = "panicked"
  /\ UNCHANGED <<config, logVars, replay>>

Return ==
  /\ pc = "run" /\ Len(events) = Len(Planned)
  /\ pc' = "returned"
  /\ UNCHANGED <<config, logVars, replay>>

\* The caller's event_log.validate_replay(), which goes over the whole log.
ValidateReplay ==
  /\ pc = "returned"
  /\ IF Len(replay_log) < Len(events)
     THEN LET e == events[Len(replay_log) + 1] IN Validation!Admit(e) \/ Validation!Reject(e)
     ELSE Validation!Finish
  /\ UNCHANGED run

Next == Begin \/ Record \/ Panic \/ Return \/ ValidateReplay

Spec == Init /\ [][Next]_vars

-----------------------------------------------------------------------------
\* run_prompt panics for one reason only, and always for it: an id configured for
\* the integration or the curator (who numbers on) is already in the log.  Causes
\* and required fields are in order whatever the tasks are called.
PanicsOnlyOnCollision ==
  LET curated == {config.curator_event, config.curator_event + 1}
      collides == \/ config.integration_event \in FixedIds \cup curated
                  \/ curated \cap FixedIds # {}
  IN /\ pc = "panicked" => collides
     /\ pc = "returned" => ~collides

\* All a run does is in the diagrams: both children on their way from the route
\* decision to an agent, from an artifact to its readiness, from decommission to
\* memory, and into the one group whose report is drawn.
RunShows(report) ==
  LET Lines(text) == Validation!LinesOf(text)
      Work(i) == Task(Child(i))
  IN /\ \A i \in 0..1 :
          LET route == <<"route", 100 + 2 * i>>
              assignment == <<"assignment", 101 + 2 * i>>
              declared == <<"artifact_declared", 2000 + 10 * i>>
              ready == <<"artifact_ready", 2001 + 10 * i>>
              decommission == <<"decommission", 2003 + 10 * i>>
          IN /\ { <<Work(i), route>>, <<route, assignment>>,
                  <<assignment, <<"agent", 101 + 2 * i>>>> } \subseteq Lines(report.route_trace)
             /\ {<<Work(i), declared>>, <<declared, ready>>} \subseteq Lines(report.artifact_provenance)
             /\ { <<Work(i), decommission>>,
                  <<decommission, <<"memory", config.curator_event + i>>>> }
                  \subseteq Lines(report.memory_lineage)
             /\ { <<Task(config.root), Work(i)>>,
                  <<Work(i), <<"integration", config.root>>>> } \subseteq Lines(report.task_dependency)
             /\ <<Work(i), <<"integration_group", 10>>>> \in Lines(report.integration_group)
     /\ <<<<"integration_group", 10>>, <<"integration_report", config.integration_event>>>>
          \in Lines(report.integration_group)

\* The log of a run gives a replay report exactly when integration and curator
\* work under the run's correlation, and the report shows the whole run: each
\* part's events agree with what the rules for whole logs, and the diagrams, ask of
\* the others', even if a child is called like its root.
RunValidates ==
  LET correlated == {config.integration_correlation, config.curator_correlation} = {Correlated} IN
  /\ verdict = "Valid" =>
       correlated /\ \A report \in Validation!Reports : RunShows(report)
  /\ verdict \notin {"Valid", "Validating"} => ~correlated
===============================================================================
