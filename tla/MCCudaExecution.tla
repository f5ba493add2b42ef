---------------------------- MODULE MCCudaExecution ----------------------------
(* Two inputs, so that one can be new and the other old, and two outputs, so that *)
(* one can be copied and the other not. *)
EXTENDS CudaMemory, TLC

CONSTANTS agent_vectors, request_vectors, small, large

\* With a usize of 60 and indexes modulo 8: counts below, at and above a block of
\* 2 threads; tables whose offsets wrap; sizes that no plan (8 by 5), no buffer (4
\* by 5) and no kernel (8 by 1) takes.
MCShapes == [agents : {1, 4, 8}, requests : {1, 3, 4}, dimensions : {0, 1, 3, 5}, k : {1}]

Symmetry == Permutations(Inputs) \cup Permutations(Plans)
===============================================================================
