-------------------------- MODULE MCTopologyLedgers --------------------------
(* A small store: a proposal that is tested anew once it was committed, and    *)
(* committed again, which gives two snapshots; a rollback and one back.       *)
EXTENDS TopologyLedgers
===============================================================================
