--------------------------- MODULE MCRouteSelection ---------------------------
(* Agents that are near and busy or far and idle, so that the two orders differ, *)
(* with equal distances and equal ids, the kernel's sentinel 0 among them, a NaN  *)
(* of either sign, and unavailable agents: nearer than all others, by little, or   *)
(* infinitely far.  The kernel rounds an agent's two distances apart, either way.   *)
EXTENDS CudaSelection

MCNaN == {-1, 101}

MCRounding == {[base |-> 1, effective |-> -1], [base |-> -1, effective |-> 1]}

MCScannable ==
  { [agent_id |-> i, base |-> 2, effective |-> 8, available |-> TRUE] : i \in 0..2 }
  \cup { [agent_id |-> i, base |-> 5, effective |-> 5, available |-> TRUE] : i \in {1, 3} }
  \cup { [agent_id |-> 2, base |-> d, effective |-> d, available |-> TRUE] : d \in MCNaN }
  \cup { [agent_id |-> 4, base |-> d, effective |-> 100, available |-> FALSE] : d \in {1, 100} }
===============================================================================
