------------------------- MODULE MCTopologyGovernance -------------------------
(* Small stores.  Proposals and rollback ids are interchangeable; snapshots are *)
(* not, their ids break ties.                                                  *)
EXTENDS TopologyGovernance, TLC

Symmetry == Permutations(ProposalId) \cup Permutations(RollbackId)
===============================================================================
