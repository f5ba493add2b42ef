--------------------------- MODULE ReplayValidation ---------------------------
(***************************************************************************)
(* validate_events: one pass over a slice of events, each checked against the *)
(* replay log built so far and appended to it, then four checks on what the   *)
(* pass collected.  The slice may hold any events (a log in memory, a file, a *)
(* test's vector), so the next one is chosen from all those Offered.          *)
(*                                                                         *)
(* The pass keeps the last completion and the last decommission of a task,     *)
(* the last integration request of a parent and all child tasks.  Counters of  *)
(* the report, and the ids an error reports, are left out; task id 0, which    *)
(* the code also uses for an absent one, does not occur.                       *)
(***************************************************************************)
EXTENDS EventLog

VARIABLES
  completed,       \* completed_task_events_by_task_id
  decommissioned,  \* decommission_events_by_task_id
  integrated,      \* integration_events_by_parent_task_id
  children,        \* child_task_events
  verdict          \* the Result, "Validating" until there is one

collected == <<completed, decommissioned, integrated, children>>
vars == <<events, event_ids, collected, verdict>>

EventError ==
  { "MissingTaskRouteDecision", "MismatchedRouteDecision", "MissingMemoryEvidence",
    "MismatchedMemoryEvidence", "InvalidRouteDecisionTelemetry",
    "MismatchedArtifactReady", "RefusedByAppend" }
SliceError ==
  { "MissingTaskIntegration", "MismatchedTaskIntegration",
    "MissingTaskDecommission", "MismatchedTaskDecommission" }

ByTask == [TaskId -> Event \cup {None}]

TypeOK ==
  /\ LogTypeOK
  /\ completed \in ByTask /\ decommissioned \in ByTask /\ integrated \in ByTask
  /\ children \in Seq(Event)
  /\ verdict \in EventError \cup SliceError \cup {"Validating", "Valid"}

Init ==
  /\ LogInit
  /\ completed = [t \in TaskId |-> None]
  /\ decommissioned = [t \in TaskId |-> None]
  /\ integrated = [t \in TaskId |-> None]
  /\ children = <<>>
  /\ verdict = "Validating"

-----------------------------------------------------------------------------
(* Checks on one event, before it is handed to append.  "" is no error. *)

Indices == 1..Len(events)
NamedBy(e) == {i \in Indices : events[i].event_id = e.causation_id}

\* validate_assignment_route_decision.  The type of the cause is left to append.
AssignmentError(e) ==
  IF e.causation_id = None THEN ""
  ELSE IF NamedBy(e) = {} THEN "MissingTaskRouteDecision"
  ELSE IF \A i \in NamedBy(e) : SameContext(e, events[i]) THEN ""
  ELSE "MismatchedRouteDecision"

\* The decommission a memory node names, if the log has it.
Evidence(e) == {i \in NamedBy(e) : events[i].event_type = "AgentDecommissioned"}

\* validate_memory_evidence
MemoryError(e) ==
  IF Evidence(e) = {} THEN "MissingMemoryEvidence"
  ELSE IF \A i \in Evidence(e) : SameContext(e, events[i]) THEN ""
  ELSE "MismatchedMemoryEvidence"

\* A faulty telemetry check looks at the schema alone.
TelemetryBySchema(e) ==
  IF e.payload_schema = "qtom.route_decision.v1"
  THEN "" ELSE "InvalidRouteDecisionTelemetry"

\* validate_route_decision_telemetry
TelemetryError(e) ==
  IF e.payload_schema = "qtom.route_decision.v1" /\ e.payload_ref \in RouteRef
  THEN "" ELSE "InvalidRouteDecisionTelemetry"

\* Faulty: whatever event a ready artifact names must agree with it.
ArtifactAgreesWithAny(e) ==
  IF \E i \in NamedBy(e) : ~AgreesWithCause(e, events[i])
  THEN "MismatchedArtifactReady" ELSE ""

\* validate_artifact_ready
ArtifactError(e) ==
  IF \E i \in NamedBy(e) :
       events[i].event_type = "ArtifactDeclared" /\ ~AgreesWithCause(e, events[i])
  THEN "MismatchedArtifactReady" ELSE ""

Precheck(e) ==
  CASE e.event_type = "TaskAssigned"          -> AssignmentError(e)
    [] e.event_type = "MemoryNodeCreated"     -> MemoryError(e)
    [] e.event_type = "RouteDecisionRecorded" -> TelemetryError(e)
    [] e.event_type = "ArtifactReady"         -> ArtifactError(e)
    [] OTHER                                  -> ""

Admits(e) == Precheck(e) = "" /\ Accepts(events, event_ids, e)

-----------------------------------------------------------------------------
(* The pass over the slice. *)

\* HashMap::insert under the event's task id, for events of one type.
Keep(map, e, type) ==
  IF e.event_type = type /\ e.task_id # None
  THEN [map EXCEPT ![e.task_id] = e] ELSE map

IsChild(e) == e.event_type = "TaskCreated" /\ e.parent_task_id # None

\* The next event of the slice passes: it joins the replay log and is collected.
Admit(e) ==
  /\ verdict = "Validating"
  /\ Precheck(e) = ""
  /\ AppendEvent(e)
  /\ completed' = Keep(completed, e, "TaskCompleted")
  /\ decommissioned' = Keep(decommissioned, e, "AgentDecommissioned")
  /\ integrated' = Keep(integrated, e, "IntegrationRequested")
  /\ children' = IF IsChild(e) THEN Append(children, e) ELSE children
  /\ UNCHANGED verdict

\* The error for an event that is not admitted: the first failing check's.
EventVerdict(e) == IF Precheck(e) # "" THEN Precheck(e) ELSE "RefusedByAppend"

\* The next event fails.
Reject(e) ==
  /\ verdict = "Validating"
  /\ ~Admits(e)
  /\ verdict' = EventVerdict(e)
  /\ UNCHANGED <<events, event_ids, collected>>

-----------------------------------------------------------------------------
(* The checks at the end of the slice. *)

SameRun(e, o) == e.root_task_id = o.root_task_id /\ e.correlation_id = o.correlation_id

Child == {children[i] : i \in 1..Len(children)}

\* Faulty: completions are looked at before the children.
CompletionsFirst ==
  IF \E t \in TaskId : completed[t] # None /\ decommissioned[t] = None
    THEN "MissingTaskDecommission"
  ELSE IF \E t \in TaskId : /\ completed[t] # None
                            /\ ~SameRun(completed[t], decommissioned[t])
    THEN "MismatchedTaskDecommission"
  ELSE IF \E c \in Child : integrated[c.parent_task_id] = None
    THEN "MissingTaskIntegration"
  ELSE IF \E c \in Child : ~SameRun(c, integrated[c.parent_task_id])
    THEN "MismatchedTaskIntegration"
  ELSE "Valid"

\* The first of the four final checks that fails.
FinalChecks ==
  IF \E c \in Child : integrated[c.parent_task_id] = None
    THEN "MissingTaskIntegration"
  ELSE IF \E c \in Child : ~SameRun(c, integrated[c.parent_task_id])
    THEN "MismatchedTaskIntegration"
  ELSE IF \E t \in TaskId : completed[t] # None /\ decommissioned[t] = None
    THEN "MissingTaskDecommission"
  ELSE IF \E t \in TaskId : /\ completed[t] # None
                            /\ ~SameRun(completed[t], decommissioned[t])
    THEN "MismatchedTaskDecommission"
  ELSE "Valid"

Finish ==
  /\ verdict = "Validating"
  /\ verdict' = FinalChecks
  /\ UNCHANGED <<events, event_ids, collected>>

Next ==
  \/ \E e \in Offered : Admit(e) \/ Reject(e)
  \/ Finish

Spec == Init /\ [][Next]_vars

-----------------------------------------------------------------------------
(* The rules on one event, said of a whole slice s and not of the pass. *)

\* The earlier events of the slice that event j names as its cause.
Causes(s, j) == {s[i] : i \in {i \in 1..(j - 1) : s[i].event_id = s[j].causation_id}}

OfType(s, type) == {j \in 1..Len(s) : s[j].event_type = type}

\* The rule whose breach each error of validate_events reports.
RuleBehind(error, s) ==
  CASE error = "MissingTaskRouteDecision" ->
         \A j \in OfType(s, "TaskAssigned") : s[j].causation_id # None => Causes(s, j) # {}
    [] error = "MismatchedRouteDecision" ->
         \A j \in OfType(s, "TaskAssigned") : \A c \in Causes(s, j) : SameContext(s[j], c)
    [] error = "MissingMemoryEvidence" ->
         \A j \in OfType(s, "MemoryNodeCreated") :
           \E c \in Causes(s, j) : c.event_type = "AgentDecommissioned"
    [] error = "MismatchedMemoryEvidence" ->
         \A j \in OfType(s, "MemoryNodeCreated") : \A c \in Causes(s, j) :
           c.event_type = "AgentDecommissioned" => SameContext(s[j], c)
    [] error = "InvalidRouteDecisionTelemetry" ->
         \A j \in OfType(s, "RouteDecisionRecorded") :
           s[j].payload_schema = "qtom.route_decision.v1" /\ s[j].payload_ref \in RouteRef
    [] error = "MismatchedArtifactReady" ->
         \A j \in OfType(s, "ArtifactReady") : \A c \in Causes(s, j) :
           c.event_type = "ArtifactDeclared" => AgreesWithCause(s[j], c)
    [] error = "RefusedByAppend" -> Appendable(s)

\* No event is refused without need: with it the slice would break the very rule
\* its error names.  And none passes that breaks any of them: so a memory node rests
\* on an earlier decommission of its own task, root and correlation.
RefusalsNameRules ==
  verdict = "Validating" =>
    /\ \A error \in EventError : RuleBehind(error, events)
    /\ \A e \in Offered :
         ~Admits(e) => ~RuleBehind(EventVerdict(e), Append(events, e))

-----------------------------------------------------------------------------
(* The rules on the end of the slice, said without the maps: of all events of a *)
(* type and task, not only the last.                                         *)

OfTask(type, t) ==
  {events[i] : i \in {i \in Indices : events[i].event_type = type /\ events[i].task_id = t}}

RequestsFor(e) == OfTask("IntegrationRequested", e.parent_task_id)
PacketsFor(e) == OfTask("AgentDecommissioned", e.task_id)

ChildEvents == {events[i] : i \in {i \in Indices : IsChild(events[i])}}
CompletionEvents == {events[i] : i \in {i \in Indices : events[i].event_type = "TaskCompleted"}}

\* Every child task's parent has an integration requested, ... by the child's own run.
ChildrenAreIntegrated == \A c \in ChildEvents : RequestsFor(c) # {}
ChildrenJoinTheirRun == \A c \in ChildEvents : \E r \in RequestsFor(c) : SameRun(c, r)

\* Every completed task has a packet, and some completion of it one of its own run.
CompletedAreDecommissioned == \A c \in CompletionEvents : PacketsFor(c) # {}
PacketsMatch ==
  \A c \in CompletionEvents : \E o \in OfTask("TaskCompleted", c.task_id) :
    \E d \in PacketsFor(c) : SameRun(o, d)

\* What the end of the slice tells.  A slice that is valid has an integration of
\* the child's own run for every child, and for every completed task a completion
\* with its packet.  One that is refused lacks what its error says is missing, or
\* has two events that do not match, and keeps the rules that are checked before.
\* Where a task is completed, decommissioned and integrated once, this is exactly
\* the rules; where it is more than once, see CompletionsHavePackets.
VerdictFollowsRules ==
  /\ verdict \in {"Valid", "MissingTaskDecommission", "MismatchedTaskDecommission"} =>
       ChildrenJoinTheirRun
  /\ verdict = "Valid" => CompletedAreDecommissioned /\ PacketsMatch
  /\ verdict = "MissingTaskIntegration" => ~ChildrenAreIntegrated
  /\ verdict = "MismatchedTaskIntegration" =>
       /\ ChildrenAreIntegrated
       /\ \E c \in ChildEvents : \E r \in RequestsFor(c) : ~SameRun(c, r)
  /\ verdict = "MissingTaskDecommission" => ~CompletedAreDecommissioned
  /\ verdict = "MismatchedTaskDecommission" =>
       /\ CompletedAreDecommissioned
       /\ \E c \in CompletionEvents : \E d \in PacketsFor(c) : ~SameRun(c, d)

\* docs/mvp-roadmap.md: "Validate every completion has a decommission packet."
\* Each completion in a valid slice has one of its own run.
CompletionsHavePackets ==
  verdict = "Valid" => \A c \in CompletionEvents : \E d \in PacketsFor(c) : SameRun(c, d)

\* Every assignment can be explained: the route decision it names comes before
\* it, is about the same task and carries route telemetry.
AssignmentsAreExplained ==
  \A j \in Indices : events[j].event_type = "TaskAssigned" =>
    \E i \in 1..(j - 1) :
      /\ events[i].event_type = "RouteDecisionRecorded"
      /\ events[i].event_id = events[j].causation_id
      /\ SameContext(events[j], events[i])
      /\ events[i].payload_schema = "qtom.route_decision.v1"
      /\ events[i].payload_ref \in RouteRef
===============================================================================
