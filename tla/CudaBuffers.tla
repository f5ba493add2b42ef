------------------------------ MODULE CudaBuffers ------------------------------
(***************************************************************************)
(* The sizes of a batch on the device: CudaBufferPlan, which checks them in    *)
(* usize, RouteAgentsKernelArgs, which passes them on as u32, and the indexes   *)
(* the kernel makes of them, which wrap as u32 does.                          *)
(***************************************************************************)
EXTENDS Integers

CONSTANTS
  UsizeMax,     \* usize::MAX
  U32Modulus,   \* 2^32
  BlockDim      \* ROUTE_AGENTS_K1_BLOCK_DIM_X

\* A whole number of blocks makes up all u32 indexes.
ASSUME WidthAssumption ==
  /\ UsizeMax \in Nat /\ U32Modulus \in Nat \ {0} /\ BlockDim \in Nat \ {0}
  /\ U32Modulus % BlockDim = 0

Element == 4   \* size_of::<f32>() and size_of::<u32>()

BatchShape == [agents : Nat, requests : Nat, dimensions : Nat, k : Nat]

\* The length of every device buffer.
Length(s) ==
  [ agent_vectors              |-> s.agents * s.dimensions,
    agent_ids                  |-> s.agents,
    request_vectors            |-> s.requests * s.dimensions,
    agent_score_weights        |-> s.agents,
    availability               |-> s.agents,
    output_agent_ids           |-> s.requests * s.k,
    output_effective_distances |-> s.requests * s.k,
    output_base_distances      |-> s.requests * s.k,
    output_flags               |-> s.requests ]

TotalF32(len) ==
  len.agent_vectors + len.request_vectors + len.agent_score_weights
    + len.output_effective_distances + len.output_base_distances

TotalU32(len) ==
  len.agent_ids + len.availability + len.output_agent_ids + len.output_flags

\* CudaBufferPlan::try_new: no product and no sum overflows.
Planned(s) ==
  LET len == Length(s) IN
  /\ \A b \in DOMAIN len : len[b] <= UsizeMax
  /\ TotalF32(len) <= UsizeMax /\ TotalU32(len) <= UsizeMax

\* CudaDeviceBuffer::checked_byte_len, for every buffer of the workspace.
Allocatable(s) == \A b \in DOMAIN Length(s) : Length(s)[b] * Element <= UsizeMax

\* RouteAgentsKernelArgs::new: one candidate per request, and counts of 32 bits.
TakenAsArgs(s) ==
  s.k = 1 /\ \A n \in {s.agents, s.requests, s.dimensions} : n < U32Modulus

\* A batch of this shape may get to the kernel.
Launchable(s) == Planned(s) /\ Allocatable(s) /\ TakenAsArgs(s)

-----------------------------------------------------------------------------
(* The launch: CudaKernelLaunchConfig::for_1d_thread_count, and the kernel. *)

\* Faulty: a last block that is not full is left out.
FullBlocks(count) == IF count < BlockDim THEN 1 ELSE count \div BlockDim

Grid(count) == IF count = 0 THEN 1 ELSE (count + BlockDim - 1) \div BlockDim

Threads(s) == (0 .. Grid(s.requests) - 1) \X (0 .. BlockDim - 1)

TaskIdx(thread) == (thread[1] * BlockDim + thread[2]) % U32Modulus

\* The threads that work on a request.
Working(s) == { t \in Threads(s) : TaskIdx(t) < s.requests }

\* Where the kernel finds vector i.
Offset(i, s) == (i * s.dimensions) % U32Modulus

\* What the thread of request r reads and writes.
Touched(r, s) ==
  [ agent_vectors   |-> { Offset(a, s) + d : a \in 0 .. s.agents - 1, d \in 0 .. s.dimensions - 1 },
    agent_ids       |-> 0 .. s.agents - 1,
    request_vectors |-> { Offset(r, s) + d : d \in 0 .. s.dimensions - 1 },
    agent_score_weights        |-> 0 .. s.agents - 1,
    availability               |-> 0 .. s.agents - 1,
    output_agent_ids           |-> {r},
    output_effective_distances |-> {r},
    output_base_distances      |-> {r},
    output_flags               |-> {r} ]
===============================================================================
