------------------------------ MODULE RouteBatch ------------------------------
(***************************************************************************)
(* CpuRouter::route_batch_with_workers: one batch cut into chunks, a scoped     *)
(* thread for each, joined and put together in the order of the chunks.  A     *)
(* thread routes its chunk request by request, or on the production path block *)
(* by block.  How one request is routed is RouteSelection; here its result is   *)
(* the request's own number.                                                 *)
(***************************************************************************)
EXTENDS Integers, Sequences

CONSTANTS
  MaxRequests,   \* bound: requests in the batch
  MaxWorkers,    \* bound: workers asked for
  Block          \* PRODUCTION_REQUEST_BLOCK

ASSUME MaxAssumption == MaxRequests \in Nat /\ MaxWorkers \in Nat
ASSUME BlockAssumption == Block \in Nat \ {0}

VARIABLES
  requests,   \* how many requests the batch has
  workers,    \* the workers asked for; 0 is taken for 1
  servable,   \* validate_batch succeeds
  blocked,    \* the production path: no debug information, a large table
  phase,      \* of the calling thread
  spawned,    \* how many threads were started
  partial,    \* what each worker has routed, in order
  joined,     \* how many threads were joined
  collected,  \* how many partial results were taken over
  results     \* what the call has put together

call == <<requests, workers, servable, blocked>>
vars == <<call, phase, spawned, partial, joined, collected, results>>

Least(a, b) == IF a < b THEN a ELSE b

WorkerCount == Least(IF workers = 0 THEN 1 ELSE workers, requests)

\* A faulty size leaves out the remainder.
FloorSize == requests \div WorkerCount

\* requests.len().div_ceil(worker_count)
ChunkSize == (requests + WorkerCount - 1) \div WorkerCount

\* How many chunks requests.chunks(chunk_size) has, one thread each.
Chunks == (requests + ChunkSize - 1) \div ChunkSize

ChunkEnd(w) == Least(w * ChunkSize, requests)

\* The w-th chunk: requests ChunkStart(w)..ChunkEnd(w).
ChunkStart(w) == (w - 1) * ChunkSize + 1
ChunkLen(w) == ChunkEnd(w) - ChunkStart(w) + 1

Phase == {"Called", "Alone", "Threads", "Collecting", "Returned", "Refused"}
Worker == 1..MaxWorkers

TypeOK ==
  /\ requests \in 0..MaxRequests /\ workers \in 0..MaxWorkers
  /\ servable \in BOOLEAN /\ blocked \in BOOLEAN
  /\ phase \in Phase
  /\ spawned \in 0..MaxWorkers
  /\ partial \in [Worker -> Seq(1..MaxRequests)]
  /\ joined \in 0..spawned /\ collected \in 0..joined
  /\ results \in Seq(1..MaxRequests)

Init ==
  /\ requests \in 0..MaxRequests /\ workers \in 0..MaxWorkers
  /\ servable \in BOOLEAN /\ blocked \in BOOLEAN
  /\ phase = "Called"
  /\ spawned = 0 /\ joined = 0 /\ collected = 0
  /\ partial = [w \in Worker |-> <<>>]
  /\ results = <<>>

-----------------------------------------------------------------------------
(* The calling thread. *)

\* Requests first..last as routed.
Routed(first, last) == [i \in 1..(last - first + 1) |-> first + i - 1]

\* One more request, or one more block, after the first done of a chunk.
StepLen(done, len) == Least(IF blocked THEN Block ELSE 1, len - done)

AnswerEmpty ==
  /\ phase = "Called" /\ requests = 0
  /\ phase' = "Returned"
  /\ UNCHANGED <<call, spawned, partial, joined, collected, results>>

Refuse ==
  /\ phase = "Called" /\ requests # 0 /\ ~servable
  /\ phase' = "Refused"
  /\ UNCHANGED <<call, spawned, partial, joined, collected, results>>

Begin ==
  /\ phase = "Called" /\ requests # 0 /\ servable
  /\ phase' = IF WorkerCount = 1 THEN "Alone" ELSE "Threads"
  /\ UNCHANGED <<call, spawned, partial, joined, collected, results>>

\* route_batch_validated_sequential: a single worker is the caller itself.
RouteAlone ==
  /\ phase = "Alone" /\ Len(results) < requests
  /\ LET done == Len(results) IN
     results' = results \o Routed(done + 1, done + StepLen(done, requests))
  /\ UNCHANGED <<call, phase, spawned, partial, joined, collected>>

ReturnAlone ==
  /\ phase = "Alone" /\ Len(results) = requests
  /\ phase' = "Returned"
  /\ UNCHANGED <<call, spawned, partial, joined, collected, results>>

Spawn ==
  /\ phase = "Threads" /\ spawned < Chunks
  /\ spawned' = spawned + 1
  /\ UNCHANGED <<call, phase, partial, joined, collected, results>>

Finished(w) == w <= spawned /\ Len(partial[w]) = ChunkLen(w)

\* The handles are joined in order, once all threads were started.
Join ==
  /\ phase = "Threads" /\ spawned = Chunks /\ joined < Chunks
  /\ Finished(joined + 1)
  /\ joined' = joined + 1
  /\ UNCHANGED <<call, phase, spawned, partial, collected, results>>

EndScope ==
  /\ phase = "Threads" /\ spawned = Chunks /\ joined = Chunks
  /\ phase' = "Collecting"
  /\ UNCHANGED <<call, spawned, partial, joined, collected, results>>

\* A faulty loop takes the partial results from the last to the first.
CollectBackwards ==
  /\ phase = "Collecting" /\ collected < Chunks
  /\ results' = results \o partial[Chunks - collected]
  /\ collected' = collected + 1
  /\ UNCHANGED <<call, phase, spawned, partial, joined>>

Collect ==
  /\ phase = "Collecting" /\ collected < Chunks
  /\ results' = results \o partial[collected + 1]
  /\ collected' = collected + 1
  /\ UNCHANGED <<call, phase, spawned, partial, joined>>

Return ==
  /\ phase = "Collecting" /\ collected = Chunks
  /\ phase' = "Returned"
  /\ UNCHANGED <<call, spawned, partial, joined, collected, results>>

Caller ==
  \/ AnswerEmpty \/ Refuse \/ Begin \/ RouteAlone \/ ReturnAlone
  \/ Spawn \/ Join \/ EndScope \/ Collect \/ Return

-----------------------------------------------------------------------------
\* route_batch_validated_worker_chunk in thread w.
RouteChunk(w) ==
  /\ phase = "Threads" /\ w <= spawned
  /\ Len(partial[w]) < ChunkLen(w)
  /\ LET done == Len(partial[w])
         next == ChunkStart(w) + done
     IN partial' = [partial EXCEPT ![w] =
                      @ \o Routed(next, next + StepLen(done, ChunkLen(w)) - 1)]
  /\ UNCHANGED <<call, phase, spawned, joined, collected, results>>

Next == Caller \/ \E w \in Worker : RouteChunk(w)

\* The operating system runs the caller and every thread that can run.
Fairness == WF_vars(Caller) /\ \A w \in Worker : WF_vars(RouteChunk(w))

Safety == Init /\ [][Next]_vars
Spec == Safety /\ Fairness

-----------------------------------------------------------------------------
\* The batch is answered as the trait promises: each request's result in its
\* place, whatever the number of workers, the order in which threads run and the
\* size of blocks; and the call returns.
Backend == INSTANCE RouterBackend WITH
  status <- IF phase = "Refused" THEN "Err"
            ELSE IF phase = "Returned" THEN "Ok" ELSE "Pending",
  answer <- IF phase = "Returned" THEN results ELSE <<>>
ImplementsBackend == Backend!BackendSpec

\* No request is routed twice, by two workers or by one.
RoutedOnce ==
  \A v, w \in Worker :
    \A i \in 1..Len(partial[v]), j \in 1..Len(partial[w]) :
      partial[v][i] = partial[w][j] => v = w /\ i = j

\* The call starts no more threads than it was asked for and none without work,
\* though rounding the chunks up may leave fewer chunks than workers.
NoIdleThread ==
  phase = "Threads" =>
    /\ spawned <= WorkerCount
    /\ \A w \in 1..spawned : ChunkLen(w) > 0
===============================================================================
