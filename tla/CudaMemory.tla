------------------------------- MODULE CudaMemory -------------------------------
(***************************************************************************)
(* The driver's run of CudaExecution with the sizes of CudaBuffers: whatever   *)
(* shapes the plans stand for, and however workspaces were kept or replaced,   *)
(* is what the kernel touches the batch's?                                   *)
(*                                                                         *)
(* A plan of CudaExecution stands for any shape.  Nothing it does depends on    *)
(* the shape but whether a call fails, and any may; two plans are two shapes.  *)
(***************************************************************************)
EXTENDS CudaExecution, CudaBuffers

CONSTANT Shapes   \* the shapes considered

ASSUME ShapesAssumption == Shapes \subseteq BatchShape

Launched == { s \in Shapes : Launchable(s) }

\* A launch over a workspace of shape s stays in the workspace's buffers.
StaysInside(s) ==
  \A r \in 0 .. s.requests - 1 : \A b \in DOMAIN Length(s) :
    Touched(r, s)[b] \subseteq 0 .. Length(s)[b] - 1

\* Every request has one thread, and no thread works for a request beyond.
OneThreadEach(own, held) ==
  /\ \A t \in Working(held) : TaskIdx(t) < own.requests
  /\ \A r \in 0 .. own.requests - 1 :
       \E t \in Working(held) : \A u \in Working(held) : TaskIdx(u) = r <=> u = t

\* Vector i of a table or of requests is found where the host packed it: for all of
\* them unless the last starts beyond what 32 bits count.
FindsVectors(count, own, held) ==
  count # 0 /\ (count - 1) * own.dimensions < U32Modulus =>
    \A i \in 0 .. count - 1 : Offset(i, held) = i * own.dimensions

\* A kernel launched on a workspace of shape held for a batch of shape own.
Serves(own, held) ==
  /\ StaysInside(held)
  /\ OneThreadEach(own, held)
  /\ FindsVectors(own.agents, own, held)
  /\ FindsVectors(own.requests, own, held)

\* A launch stays inside the buffers of its workspace even when offsets wrap; each
\* request of the batch is worked on by one thread; and every vector is read where
\* the batch has it, unless offsets do wrap: a table beyond 2^32 floats, which the
\* plan accepts, is read from its beginning again.
KernelServesBatch ==
  pc = "record_stop" =>
    \A own \in Launched :
      \A held \in IF workspace.plan = plan THEN {own} ELSE Launched \ {own} :
        Serves(own, held)
===============================================================================
