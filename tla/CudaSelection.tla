----------------------------- MODULE CudaSelection -----------------------------
(***************************************************************************)
(* One request on the GPU, beside the CPU's answer for the same table: the     *)
(* loop of qtom_route_agents_k1, which a thread runs over all agents in their   *)
(* order, and decode_k_one_results.  The kernel has no accumulators to compare  *)
(* with the CPU's: it starts from infinity and from agent id 0, and compares    *)
(* with <, not by the total order.  Its distances may be rounded differently.    *)
(***************************************************************************)
EXTENDS RouteSelection

CONSTANTS
  Epsilon,   \* score_abs_epsilon; by how much the kernel's distances may be off
  Rounding   \* how far the two distances of an agent may be off together

ASSUME EpsilonAssumption == Epsilon \in Nat
ASSUME RoundingAssumption ==
  \A off \in Rounding : off.base \in (-Epsilon)..Epsilon /\ off.effective \in (-Epsilon)..Epsilon
ASSUME NoneAssumption == None \notin Nat \cup Seq(Candidate) \cup Seq(Result)

\* No number is above Infinity, and rounding makes neither infinity nor a NaN of one.
\* The effective distance of an available agent is a multiple of its base distance (score_agent):
\* it is not a number if that is none.
ASSUME NumberAssumption ==
  \A c \in Scannable :
    /\ \A d \in {c.base, c.effective} \ (NaN \cup {Infinity}) :
         \A off \in (-Epsilon)..Epsilon : d + off < Infinity /\ d + off \notin NaN
    /\ c.available /\ c.effective \notin NaN => c.base \notin NaN

P == INSTANCE BackendParity

\* The comparisons of the kernel: false when either is not a number.
Lower(a, b) == {a, b} \cap NaN = {} /\ a < b
Equal(a, b) == {a, b} \cap NaN = {} /\ a = b

\* The registers of a thread.
KernelStart ==
  [ best |-> 0, effective |-> Infinity, base |-> Infinity, seen |-> FALSE,
    observed |-> 0, observed_base |-> Infinity, observed_available |-> TRUE ]

\* A faulty kernel breaks ties by the order of the table.
ImprovesFirst(r, c) ==
  c.available /\ (~r.seen \/ Lower(c.effective, r.effective))

Improves(r, c) ==
  /\ c.available
  /\ \/ ~r.seen
     \/ Lower(c.effective, r.effective)
     \/ Equal(c.effective, r.effective) /\ c.agent_id < r.best

ObservesNearer(r, c) ==
  \/ Lower(c.base, r.observed_base)
  \/ Equal(c.base, r.observed_base) /\ c.agent_id < r.observed

\* One turn of the loop.
KernelTurn(r, c) ==
  LET o == IF ObservesNearer(r, c)
           THEN [r EXCEPT !.observed = c.agent_id, !.observed_base = c.base,
                          !.observed_available = c.available]
           ELSE r
  IN IF Improves(r, c)
     THEN [o EXCEPT !.best = c.agent_id, !.effective = c.effective,
                    !.base = c.base, !.seen = TRUE]
     ELSE o

Kernel(table) ==
  LET turn[i \in 0..Len(table)] ==
        IF i = 0 THEN KernelStart ELSE KernelTurn(turn[i - 1], table[i])
  IN turn[Len(table)]

\* decode_k_one_results: agent id 0 means that there is no candidate.
Decode(r) ==
  LET found == IF r.best = 0 THEN <<>>
               ELSE << [ agent_id |-> r.best, base |-> r.base,
                         effective |-> r.effective, available |-> TRUE ] >>
      far   == found = <<>> \/ TooFar(found[1])
  IN [ candidates        |-> IF far THEN Append(found, FallbackCandidate) ELSE found,
       used_fallback     |-> far,
       ideal_unavailable |-> ~r.observed_available,
       debug             |-> None ]

\* A batch of this one request: validate_k_one_inputs refuses every other k.
Validated == k = 1
CudaBatch(table) == IF Validated THEN <<Decode(Kernel(table))>> ELSE None

-----------------------------------------------------------------------------
\* The table as the kernel computes its distances: exactly, or each finite one a
\* little off, up or down.
Off(d, off) == IF d \in NaN \cup {Infinity} THEN d ELSE d + off
Rounded(c, off) == [c EXCEPT !.base = Off(@, off.base), !.effective = Off(@, off.effective)]
KernelTables ==
  {scanned} \cup
  { [i \in DOMAIN scanned |-> Rounded(scanned[i], off[i])] : off \in [DOMAIN scanned -> Rounding] }

\* The CPU's choice, and the agent that is nearest, if there is one.
Chosen == SubSeq(Ranked(Usable, "Available"), 1, IF Usable = {} THEN 0 ELSE 1)
Nearest == Ranked(1..Len(scanned), "Observed")[1]

\* Where < tells as much as the order of the CPU: the first of the available
\* distances is a number, and so is the nearest of all, and finite.
Comparable ==
  /\ \A i \in Usable : (\A j \in Usable : i <= j) => scanned[i].effective \notin NaN
  /\ Nearest.base < Infinity /\ Nearest.base \notin NaN

\* Where rounding cannot change a decision.
Clear ==
  /\ \A i \in Usable :
       scanned[i] = Chosen[1] \/ scanned[i].effective > Chosen[1].effective + 2 * Epsilon
  /\ \A i \in 1..Len(scanned) :
       scanned[i] = Nearest \/ scanned[i].base > Nearest.base + 2 * Epsilon
  /\ Chosen # <<>> => Chosen[1].base + Epsilon <= radius \/ Chosen[1].base - Epsilon > radius

\* What the parity check says of CPU and CUDA on one request.  It passes on every
\* table of unique ids (decoding takes the penalties of the last agent of an id)
\* whose distances compare alike, if agent 0 is not the answer, and rounding decides
\* nothing; the order of the table is of no account.
\* An answer of agent 0 does not get past it, nor one whose distance is not a
\* number, nor a CPU that keeps debug information; k other than 1 is refused.  What
\* passes exactly passes with tolerance, and a batch cut short is found out.
CudaAgreesWithCpu ==
  result # None =>
    \A table \in KernelTables :
      LET cuda == CudaBatch(table)
          parity == P!Parity(<<result>>, cuda, Epsilon)
          sound == Chosen = <<>> \/ (Chosen[1].agent_id # 0 /\ Chosen[1].effective \notin NaN)
      IN /\ k # 1 => parity.error = "CandidateRoute"
         /\ k = 1 /\ ~debug /\ DistinctIds /\ Comparable /\ sound /\ (table = scanned \/ Clear)
              => parity.error = ""
         /\ k = 1 /\ (debug \/ ~sound) => parity.error = "Mismatch"
         /\ P!Parity(<<result>>, cuda, None).error = "" => parity.error = ""
         /\ parity.error = "" =>
              /\ P!Parity(<<result>> \o cuda, cuda, Epsilon).first_mismatch_index = 1
              /\ P!Parity(cuda, <<result>> \o cuda, Epsilon).first_mismatch_index = 1
===============================================================================
