------------------------------ MODULE MCJsonlFile ------------------------------
(* A chain of three causes and two records that compete for their ids; files       *)
(* that start out missing, with one record and with two.                         *)
EXTENDS JsonlFile, TLC

MCEventIds == 1..3

Topology(id, type, cause) ==
  [ event_id |-> id, event_type |-> type, root_task_id |-> "r1",
    task_id |-> None, parent_task_id |-> None, has_agent |-> FALSE,
    has_snapshot |-> TRUE, payload_schema |-> "other", payload_ref |-> "a1",
    causation_id |-> cause, correlation_id |-> "c1" ]

MCOffered ==
  { Topology(1, "TopologyProposed", None), Topology(2, "TopologyProposed", None),
    Topology(2, "TopologyCommitted", 1), Topology(3, "TopologyCommitted", 2),
    Topology(3, "TopologyRolledBack", 2) }

MCGiven ==
  { <<>>, <<Topology(1, "TopologyProposed", None)>>,
    <<Topology(1, "TopologyProposed", None), Topology(2, "TopologyCommitted", 1)>>,
    <<Topology(3, "TopologyRolledBack", 2), Topology(3, "TopologyCommitted", 2)>> }

Symmetry == Permutations(Writer)
===============================================================================
