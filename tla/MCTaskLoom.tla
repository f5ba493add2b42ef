------------------------------ MODULE MCTaskLoom ------------------------------
(* Instances of TaskLoom: default ids, and ids that meet others. *)
EXTENDS TaskLoom

MCRootId == {10, 1000, 1001}
MCTaskId == {10, 1000, 1001}
MCCorrelation == {77, 78}
MCIntegrationEvent == {3, 2012, 3000, 4001}
MCCuratorEvent == {9, 2013, 2999, 4000}
MCEventId ==
  {1, 2, 3, 10} \cup (100..103) \cup (2000..2003) \cup (2010..2013)
    \cup UNION { {id, id + 1} : id \in MCIntegrationEvent \cup MCCuratorEvent }
MCConfig ==
  [ summary : BOOLEAN, root : MCRootId, first_child : {1000},
    integration_event : MCIntegrationEvent, integration_correlation : MCCorrelation,
    curator_event : MCCuratorEvent, curator_correlation : MCCorrelation ]
MCRouteRef == { <<"route-decision", 500 + i>> : i \in 0..1 }
MCOtherRef ==
  ({"task", "assignment", "decommission"} \X MCTaskId)
    \cup ({"artifact"} \X (900..901)) \cup ({"memory"} \X (1500..1501))
    \cup ({"group", "report"} \X {0})
MCGroupRef == {<<"group", 0>>}
MCReportRef == {<<"report", 0>>}
MCRefTail == [ref \in MCRouteRef \cup MCOtherRef |-> ref[2]]
===============================================================================
