--------------------------- MODULE RouteBatchProofs ---------------------------
(***************************************************************************)
(* For every number of requests, workers and requests per block: a batch is    *)
(* cut without gap or overlap, no thread is started in vain, and what the call *)
(* returns is what the RouterBackend trait promises.                          *)
(***************************************************************************)
EXTENDS RouteBatch, SequenceTheorems, TLAPS

\* Rounding up: q parts of d cover n, and q - 1 do not.
LEMMA DivUp ==
  ASSUME NEW n \in Nat \ {0}, NEW d \in Nat \ {0}
  PROVE  LET q == (n + d - 1) \div d IN
         /\ q \in Nat \ {0} /\ n <= q * d /\ (q - 1) * d < n
<1> DEFINE q == (n + d - 1) \div d
<1>1. q \in Int /\ d * q <= n + d - 1 /\ n + d - 1 < d * (q + 1)
  BY SMTT(30)
<1>2. d * (q + 1) = d * q + d /\ (q - 1) * d = d * q - d /\ q * d = d * q
  BY <1>1, SMTT(30)
<1>3. n <= q * d /\ (q - 1) * d < n
  BY <1>1, <1>2
<1>4. q >= 1
  BY <1>1, <1>3, SMTT(30)
<1> QED BY <1>1, <1>3, <1>4

\* Multiples of a positive size keep their order.
LEMMA Multiples ==
  ASSUME NEW q \in Nat \ {0}, NEW a \in Nat, NEW b \in Nat, a <= b
  PROVE  a * q \in Nat /\ a * q <= b * q
<1>1. a * q \in Nat /\ b * q \in Nat /\ (b - a) * q \in Nat
  BY SMTT(30)
<1>2. b * q = a * q + (b - a) * q
  BY SMTT(30)
<1> QED BY <1>1, <1>2

LEMMA Offset ==
  ASSUME NEW first \in Nat, NEW last \in Nat, NEW i \in 1..(last - first + 1)
  PROVE  first + i - 1 \in first..last
OBVIOUS

-----------------------------------------------------------------------------
\* How the requests of a batch are cut.
Batch == requests \in 0..MaxRequests /\ workers \in 0..MaxWorkers

LEMMA Workers ==
  ASSUME Batch, requests # 0
  PROVE  /\ requests \in Nat \ {0}
         /\ WorkerCount \in 1..requests
         /\ WorkerCount = 1 \/ WorkerCount <= MaxWorkers
  BY MaxAssumption DEF Batch, WorkerCount, Least

LEMMA Cut ==
  ASSUME Batch, requests # 0
  PROVE  /\ ChunkSize \in Nat \ {0}
         /\ Chunks \in Nat \ {0}
         /\ Chunks <= WorkerCount
         /\ requests <= Chunks * ChunkSize
         /\ (Chunks - 1) * ChunkSize < requests
<1>1. /\ ChunkSize \in Nat \ {0}
      /\ requests <= ChunkSize * WorkerCount
  BY Workers, DivUp DEF ChunkSize
<1>2. /\ Chunks \in Nat \ {0}
      /\ requests <= Chunks * ChunkSize
      /\ (Chunks - 1) * ChunkSize < requests
  BY Workers, <1>1, DivUp DEF Chunks
<1>3. Chunks <= WorkerCount
  <2>1. SUFFICES ASSUME WorkerCount <= Chunks - 1 PROVE FALSE
    BY <1>2, Workers
  <2>2. WorkerCount * ChunkSize <= (Chunks - 1) * ChunkSize
    BY <2>1, <1>1, <1>2, Workers, Multiples
  <2>3. WorkerCount * ChunkSize = ChunkSize * WorkerCount
    BY <1>1, Workers, SMTT(30)
  <2> QED BY <1>1, <1>2, <2>2, <2>3, Workers
<1> QED BY <1>1, <1>2, <1>3

\* Each chunk has work, ends where the next one begins, and the last one ends
\* with the batch.
LEMMA ChunkBounds ==
  ASSUME Batch, requests # 0, NEW w \in 1..Chunks
  PROVE  /\ ChunkStart(w) \in 1..requests
         /\ ChunkEnd(w) \in ChunkStart(w)..requests
         /\ ChunkLen(w) \in 1..requests
         /\ w = 1 => ChunkStart(w) = 1
         /\ w = Chunks => ChunkEnd(w) = requests
         /\ w # Chunks => ChunkStart(w + 1) = ChunkEnd(w) + 1
<1>1. /\ ChunkSize \in Nat \ {0} /\ Chunks \in Nat \ {0} /\ requests \in Nat \ {0}
      /\ requests <= Chunks * ChunkSize /\ (Chunks - 1) * ChunkSize < requests
  BY Cut, Workers
<1>2. (w - 1) * ChunkSize \in Nat /\ (w - 1) * ChunkSize <= (Chunks - 1) * ChunkSize
  BY <1>1, Multiples
<1>3. w * ChunkSize = (w - 1) * ChunkSize + ChunkSize
  BY <1>1, SMTT(30)
<1>4. w # Chunks => w * ChunkSize <= (Chunks - 1) * ChunkSize
  BY <1>1, Multiples
<1>5. w = 1 => (w - 1) * ChunkSize = 0
  BY <1>1, SMTT(30)
<1>6. (Chunks - 1) * ChunkSize \in Nat
  BY <1>1, Multiples
<1>7. ((w + 1) - 1) * ChunkSize = w * ChunkSize
  BY <1>1
<1> QED
  BY <1>1, <1>2, <1>3, <1>4, <1>5, <1>6, <1>7 DEF ChunkStart, ChunkEnd, ChunkLen, Least

\* Chunks that are not the same do not meet.
LEMMA ChunksApart ==
  ASSUME Batch, requests # 0, NEW v \in 1..Chunks, NEW w \in 1..Chunks, v < w
  PROVE  ChunkEnd(v) < ChunkStart(w)
<1>1. /\ ChunkSize \in Nat \ {0} /\ Chunks \in Nat \ {0} /\ requests \in Nat \ {0}
  BY Cut, Workers
<1>2. v * ChunkSize \in Nat /\ v * ChunkSize <= (w - 1) * ChunkSize
  BY <1>1, Multiples
<1>3. (w - 1) * ChunkSize \in Nat
  BY <1>1, Multiples
<1> QED BY <1>1, <1>2, <1>3 DEF ChunkEnd, ChunkStart, Least

-----------------------------------------------------------------------------
\* s is the results of successive requests, from first on.
InOrder(s, first) == \A i \in 1..Len(s) : s[i] = first + i - 1

LEMMA RoutedInOrder ==
  ASSUME NEW m \in Nat, NEW first \in 1..(m + 1), NEW last \in 0..m, first <= last + 1
  PROVE  /\ Routed(first, last) \in Seq(1..m)
         /\ Len(Routed(first, last)) = last - first + 1
         /\ InOrder(Routed(first, last), first)
<1> DEFINE n == last - first + 1
           f(i) == first + i - 1
<1>1. n \in Nat /\ \A i \in 1..n : f(i) \in 1..m
  OBVIOUS
<1>2. Routed(first, last) = [i \in 1..n |-> f(i)]
  BY DEF Routed
<1> HIDE DEF n, f
<1>3. /\ [i \in 1..n |-> f(i)] \in Seq(1..m)
      /\ Len([i \in 1..n |-> f(i)]) = n
  BY <1>1
<1> QED BY <1>2, <1>3 DEF InOrder, n, f

\* Results that go on where others end.
LEMMA InOrderConcat ==
  ASSUME NEW S, NEW s \in Seq(S), NEW t \in Seq(S), NEW first \in Nat,
         InOrder(s, first), InOrder(t, first + Len(s))
  PROVE  /\ s \o t \in Seq(S)
         /\ Len(s \o t) = Len(s) + Len(t)
         /\ InOrder(s \o t, first)
<1>1. /\ s \o t \in Seq(S)
      /\ Len(s \o t) = Len(s) + Len(t)
      /\ \A i \in 1..(Len(s) + Len(t)) :
           (s \o t)[i] = IF i <= Len(s) THEN s[i] ELSE t[i - Len(s)]
  BY ConcatProperties
<1>2. Len(s) \in Nat /\ Len(t) \in Nat
  BY LenProperties
<1>3. ASSUME NEW i \in 1..Len(s \o t) PROVE (s \o t)[i] = first + i - 1
  <2>1. CASE i <= Len(s)
    BY <1>1, <1>2, <2>1 DEF InOrder
  <2>2. CASE ~(i <= Len(s))
    <3>1. i - Len(s) \in 1..Len(t)
      BY <1>1, <1>2, <2>2
    <3>2. t[i - Len(s)] = first + Len(s) + (i - Len(s)) - 1
      BY <3>1 DEF InOrder
    <3> QED BY <1>1, <1>2, <2>2, <3>1, <3>2
  <2> QED BY <2>1, <2>2
<1> QED BY <1>1, <1>3 DEF InOrder

LEMMA Continue ==
  ASSUME NEW m \in Nat, NEW first \in 1..m, NEW s \in Seq(1..m), InOrder(s, first),
         NEW last \in 0..m, first + Len(s) <= last + 1
  PROVE  /\ s \o Routed(first + Len(s), last) \in Seq(1..m)
         /\ Len(s \o Routed(first + Len(s), last)) = last - first + 1
         /\ InOrder(s \o Routed(first + Len(s), last), first)
<1> DEFINE next == first + Len(s)
<1>1. Len(s) \in Nat
  BY LenProperties
<1>2. next \in 1..(m + 1) /\ next <= last + 1
  BY <1>1
<1>3. next = first + Len(s)
  OBVIOUS
<1> HIDE DEF next
<1>4. /\ Routed(next, last) \in Seq(1..m)
      /\ Len(Routed(next, last)) = last - next + 1
      /\ InOrder(Routed(next, last), next)
  BY <1>2, RoutedInOrder
<1>5. /\ s \o Routed(next, last) \in Seq(1..m)
      /\ Len(s \o Routed(next, last)) = Len(s) + Len(Routed(next, last))
      /\ InOrder(s \o Routed(next, last), first)
  BY <1>3, <1>4, InOrderConcat
<1>6. Len(s \o Routed(next, last)) = last - first + 1
  BY <1>1, <1>2, <1>3, <1>4, <1>5
<1> QED BY <1>3, <1>5, <1>6

-----------------------------------------------------------------------------
\* What each worker holds is the beginning of its chunk.
WorkerHolds(w) ==
  /\ InOrder(partial[w], ChunkStart(w))
  /\ partial[w] # <<>> => w <= spawned /\ Len(partial[w]) <= ChunkLen(w)
  /\ w <= joined => w <= spawned /\ Len(partial[w]) = ChunkLen(w)

\* What the caller holds is the beginning of the batch.
CallerHolds ==
  /\ InOrder(results, 1)
  /\ phase \in {"Called", "Threads"} => results = <<>> /\ collected = 0
  /\ phase = "Alone" => Len(results) <= requests
  /\ phase = "Collecting" =>
       /\ joined = Chunks
       /\ Len(results) = IF collected = 0 THEN 0 ELSE ChunkEnd(collected)
  /\ phase = "Returned" => Len(results) = requests

Progress ==
  /\ phase \in {"Alone", "Threads", "Collecting"} => requests # 0 /\ servable
  /\ phase = "Refused" => requests # 0 /\ ~servable
  /\ phase = "Returned" => requests = 0 \/ servable
  /\ phase = "Called" => spawned = 0
  /\ phase = "Threads" => WorkerCount # 1
  /\ spawned > 0 => requests # 0 /\ spawned <= Chunks

IInv ==
  /\ TypeOK
  /\ Progress
  /\ CallerHolds
  /\ \A w \in Worker : WorkerHolds(w)

LEMMA InitIInv == Init => IInv
<1> SUFFICES ASSUME Init PROVE IInv
  OBVIOUS
<1>1. TypeOK
  BY MaxAssumption DEF Init, TypeOK, Phase
<1>2. Progress /\ CallerHolds /\ \A w \in Worker : WorkerHolds(w)
  BY DEF Init, Progress, CallerHolds, WorkerHolds, InOrder, Worker
<1> QED BY <1>1, <1>2 DEF IInv

\* The cut of a batch is settled when it is called.
LEMMA CutStays ==
  ASSUME UNCHANGED call
  PROVE  /\ ChunkSize' = ChunkSize /\ Chunks' = Chunks /\ WorkerCount' = WorkerCount
         /\ \A w \in Nat : /\ ChunkStart(w)' = ChunkStart(w)
                          /\ ChunkEnd(w)' = ChunkEnd(w)
                          /\ ChunkLen(w)' = ChunkLen(w)
  BY DEF call, ChunkSize, Chunks, WorkerCount, ChunkStart, ChunkEnd, ChunkLen, Least

\* A step that leaves the threads and what they hold alone.
LEMMA WorkersStay ==
  ASSUME IInv, UNCHANGED <<call, spawned, partial, joined>>
  PROVE  \A w \in Worker : WorkerHolds(w)'
<1> SUFFICES ASSUME NEW w \in Worker PROVE WorkerHolds(w)'
  OBVIOUS
<1>1. w \in Nat /\ WorkerHolds(w)
  BY DEF IInv, Worker
<1>2. ChunkStart(w)' = ChunkStart(w) /\ ChunkLen(w)' = ChunkLen(w)
  BY <1>1, CutStays
<1> QED BY <1>1, <1>2 DEF WorkerHolds, InOrder

LEMMA AnswerEmptyStep == IInv /\ AnswerEmpty => IInv'
<1> SUFFICES ASSUME IInv, AnswerEmpty PROVE IInv'
  OBVIOUS
<1>1. TypeOK'
  BY DEF IInv, TypeOK, AnswerEmpty, call, Phase
<1>2. Progress' /\ CallerHolds'
  BY DEF IInv, TypeOK, AnswerEmpty, call, Progress, CallerHolds, InOrder
<1>3. \A w \in Worker : WorkerHolds(w)'
  BY WorkersStay DEF AnswerEmpty
<1> QED BY <1>1, <1>2, <1>3 DEF IInv

LEMMA RefuseStep == IInv /\ Refuse => IInv'
<1> SUFFICES ASSUME IInv, Refuse PROVE IInv'
  OBVIOUS
<1>1. TypeOK'
  BY DEF IInv, TypeOK, Refuse, call, Phase
<1>2. Progress' /\ CallerHolds'
  BY DEF IInv, TypeOK, Refuse, call, Progress, CallerHolds, InOrder
<1>3. \A w \in Worker : WorkerHolds(w)'
  BY WorkersStay DEF Refuse
<1> QED BY <1>1, <1>2, <1>3 DEF IInv

LEMMA BeginStep == IInv /\ Begin => IInv'
<1> SUFFICES ASSUME IInv, Begin PROVE IInv'
  OBVIOUS
<1>1. TypeOK'
  BY DEF IInv, TypeOK, Begin, call, Phase
<1>2. Progress'
  BY CutStays DEF IInv, TypeOK, Begin, call, Progress
<1>3. CallerHolds'
  BY DEF IInv, TypeOK, Begin, call, CallerHolds, InOrder
<1>4. \A w \in Worker : WorkerHolds(w)'
  BY WorkersStay DEF Begin
<1> QED BY <1>1, <1>2, <1>3, <1>4 DEF IInv

LEMMA StepLenBounds ==
  ASSUME TypeOK, NEW done \in Nat, NEW len \in Nat, done < len
  PROVE  StepLen(done, len) \in 1..(len - done)
  BY BlockAssumption DEF TypeOK, StepLen, Least

LEMMA RouteAloneStep == IInv /\ RouteAlone => IInv'
<1> SUFFICES ASSUME IInv, RouteAlone PROVE IInv'
  OBVIOUS
<1> DEFINE done == Len(results)
           last == done + StepLen(done, requests)
<1>1. /\ TypeOK /\ InOrder(results, 1) /\ results \in Seq(1..MaxRequests)
      /\ requests \in 0..MaxRequests /\ MaxRequests \in Nat
  BY MaxAssumption DEF IInv, TypeOK, CallerHolds
<1>2. done \in Nat /\ done < requests
  BY <1>1 DEF RouteAlone
<1>3. StepLen(done, requests) \in 1..(requests - done)
  BY <1>1, <1>2, StepLenBounds
<1>4. last \in 0..MaxRequests /\ last <= requests /\ 1 + done <= last + 1 /\ 1 \in 1..MaxRequests
  BY <1>1, <1>2, <1>3
<1>5. results' = results \o Routed(1 + done, last)
  BY <1>2 DEF RouteAlone
<1> HIDE DEF last
<1>6. results' \in Seq(1..MaxRequests) /\ Len(results') = last /\ InOrder(results', 1)
  <2>1. /\ results \o Routed(1 + done, last) \in Seq(1..MaxRequests)
        /\ Len(results \o Routed(1 + done, last)) = last - 1 + 1
        /\ InOrder(results \o Routed(1 + done, last), 1)
    BY <1>1, <1>4, Continue
  <2>2. last - 1 + 1 = last
    BY <1>4
  <2> QED BY <1>5, <2>1, <2>2
<1>7. TypeOK'
  BY <1>6 DEF IInv, TypeOK, RouteAlone, call, Phase
<1>8. Progress'
  BY CutStays DEF IInv, RouteAlone, call, Progress
<1>9. CallerHolds'
  BY <1>4, <1>6 DEF RouteAlone, call, CallerHolds
<1>10. \A w \in Worker : WorkerHolds(w)'
  BY WorkersStay DEF RouteAlone
<1> QED BY <1>7, <1>8, <1>9, <1>10 DEF IInv

LEMMA ReturnAloneStep == IInv /\ ReturnAlone => IInv'
<1> SUFFICES ASSUME IInv, ReturnAlone PROVE IInv'
  OBVIOUS
<1>1. TypeOK'
  BY DEF IInv, TypeOK, ReturnAlone, call, Phase
<1>2. Progress' /\ CallerHolds'
  BY CutStays DEF IInv, TypeOK, ReturnAlone, call, Progress, CallerHolds, InOrder
<1>3. \A w \in Worker : WorkerHolds(w)'
  BY WorkersStay DEF ReturnAlone
<1> QED BY <1>1, <1>2, <1>3 DEF IInv

-----------------------------------------------------------------------------
(* The steps with threads. *)

LEMMA SpawnStep == IInv /\ Spawn => IInv'
<1> SUFFICES ASSUME IInv, Spawn PROVE IInv'
  OBVIOUS
<1>1. Batch /\ requests # 0 /\ WorkerCount # 1 /\ spawned \in Nat
  BY DEF IInv, TypeOK, Progress, Spawn, Batch
<1>2. Chunks \in Nat /\ spawned + 1 <= Chunks /\ Chunks <= MaxWorkers
  BY <1>1, Cut, Workers, MaxAssumption DEF Spawn
<1>3. TypeOK'
  BY <1>1, <1>2, MaxAssumption DEF IInv, TypeOK, Spawn, call, Phase
<1>4. Chunks' = Chunks /\ WorkerCount' = WorkerCount
  BY CutStays DEF Spawn
<1>5. Progress'
  BY <1>1, <1>2, <1>4 DEF IInv, Spawn, call, Progress
<1>6. CallerHolds'
  BY DEF IInv, Spawn, call, CallerHolds, InOrder
<1>7. ASSUME NEW w \in Worker PROVE WorkerHolds(w)'
  <2>1. w \in Nat /\ WorkerHolds(w)
    BY DEF IInv, Worker
  <2>2. ChunkStart(w)' = ChunkStart(w) /\ ChunkLen(w)' = ChunkLen(w)
    BY <2>1, CutStays DEF Spawn
  <2>3. partial' = partial /\ joined' = joined /\ spawned' = spawned + 1
    BY DEF Spawn
  <2> QED BY <1>1, <2>1, <2>2, <2>3 DEF WorkerHolds, InOrder
<1> QED BY <1>3, <1>5, <1>6, <1>7 DEF IInv

LEMMA JoinStep == IInv /\ Join => IInv'
<1> SUFFICES ASSUME IInv, Join PROVE IInv'
  OBVIOUS
<1>1. TypeOK'
  BY DEF IInv, TypeOK, Join, Finished, call, Phase
<1>2. Progress'
  BY CutStays DEF IInv, Join, call, Progress
<1>3. CallerHolds'
  BY DEF IInv, Join, call, CallerHolds, InOrder
<1>4. ASSUME NEW w \in Worker PROVE WorkerHolds(w)'
  <2>1. w \in Nat /\ WorkerHolds(w)
    BY DEF IInv, Worker
  <2>2. ChunkStart(w)' = ChunkStart(w) /\ ChunkLen(w)' = ChunkLen(w)
    BY <2>1, CutStays DEF Join
  <2>3. /\ partial' = partial /\ spawned' = spawned /\ joined' = joined + 1
        /\ joined + 1 <= spawned /\ Len(partial[joined + 1]) = ChunkLen(joined + 1)
    BY DEF Join, Finished
  <2>4. joined \in Nat
    BY DEF IInv, TypeOK
  <2>5. w <= joined + 1 => w <= joined \/ w = joined + 1
    BY <2>1, <2>4
  <2> QED BY <2>1, <2>2, <2>3, <2>5 DEF WorkerHolds, InOrder
<1> QED BY <1>1, <1>2, <1>3, <1>4 DEF IInv

LEMMA EndScopeStep == IInv /\ EndScope => IInv'
<1> SUFFICES ASSUME IInv, EndScope PROVE IInv'
  OBVIOUS
<1>1. TypeOK'
  BY DEF IInv, TypeOK, EndScope, call, Phase
<1>2. Progress'
  BY CutStays DEF IInv, EndScope, call, Progress
<1>3. Chunks' = Chunks
  BY CutStays DEF EndScope
<1>4. CallerHolds'
  BY <1>3 DEF IInv, EndScope, call, CallerHolds, InOrder
<1>5. \A w \in Worker : WorkerHolds(w)'
  BY WorkersStay DEF EndScope
<1> QED BY <1>1, <1>2, <1>4, <1>5 DEF IInv

LEMMA CollectStep == IInv /\ Collect => IInv'
<1> SUFFICES ASSUME IInv, Collect PROVE IInv'
  OBVIOUS
<1> DEFINE c == collected + 1
<1>1. Batch /\ requests # 0 /\ joined = Chunks /\ collected \in Nat /\ c <= Chunks
  BY DEF IInv, TypeOK, Progress, CallerHolds, Collect, Batch
<1>2. Chunks \in Nat /\ c \in 1..Chunks /\ Chunks <= MaxWorkers
  <2>1. Chunks \in Nat
    BY <1>1, Cut
  <2>2. joined <= spawned /\ spawned <= MaxWorkers /\ spawned \in Nat /\ MaxWorkers \in Nat
    BY MaxAssumption DEF IInv, TypeOK
  <2> QED BY <1>1, <2>1, <2>2
<1>3. c \in Worker /\ c <= joined
  BY <1>1, <1>2, MaxAssumption DEF Worker
<1>4. /\ partial[c] \in Seq(1..MaxRequests)
      /\ InOrder(partial[c], ChunkStart(c))
      /\ Len(partial[c]) = ChunkLen(c)
  BY <1>3 DEF IInv, TypeOK, WorkerHolds
<1>5. /\ ChunkStart(c) \in 1..requests /\ ChunkEnd(c) \in ChunkStart(c)..requests
      /\ ChunkLen(c) = ChunkEnd(c) - ChunkStart(c) + 1
  BY <1>1, <1>2, ChunkBounds DEF ChunkLen
<1>6. ChunkStart(c) = 1 + Len(results)
  <2>1. CASE collected = 0
    BY <1>1, <1>2, <2>1, ChunkBounds DEF IInv, CallerHolds, Collect
  <2>2. CASE collected # 0
    <3>1. collected \in 1..Chunks /\ collected # Chunks
      BY <1>1, <1>2, <2>2
    <3>2. Len(results) = ChunkEnd(collected)
      BY <2>2 DEF IInv, CallerHolds, Collect
    <3>3. ChunkStart(c) = ChunkEnd(collected) + 1
      BY <1>1, <3>1, ChunkBounds
    <3>4. ChunkEnd(collected) \in Int
      BY <1>1, <3>1, ChunkBounds
    <3> QED BY <3>2, <3>3, <3>4
  <2> QED BY <2>1, <2>2
<1>7. results \in Seq(1..MaxRequests) /\ InOrder(results, 1)
  BY DEF IInv, TypeOK, CallerHolds
<1>8. results' = results \o partial[c]
  BY DEF Collect
<1> HIDE DEF c
<1>9. /\ results' \in Seq(1..MaxRequests)
      /\ Len(results') = Len(results) + Len(partial[c])
      /\ InOrder(results', 1)
  BY <1>4, <1>6, <1>7, <1>8, InOrderConcat
<1>10. Len(results') = ChunkEnd(c)
  BY <1>1, <1>4, <1>5, <1>6, <1>7, <1>9, LenProperties DEF Batch
<1>11. collected' = c /\ c # 0
  BY <1>1 DEF Collect, c
<1>12. TypeOK'
  BY <1>1, <1>2, <1>3, <1>9, <1>11 DEF IInv, TypeOK, Collect, call, Phase
<1>13. Progress'
  BY CutStays DEF IInv, Collect, call, Progress
<1>14. CallerHolds'
  <2>1. Chunks' = Chunks
    BY CutStays DEF Collect
  <2>2. ChunkEnd(collected)' = ChunkEnd(c)
    BY <1>11 DEF Collect, call, ChunkEnd, ChunkSize, WorkerCount, Least
  <2> QED BY <1>1, <1>9, <1>10, <1>11, <2>1, <2>2 DEF Collect, CallerHolds
<1>15. \A w \in Worker : WorkerHolds(w)'
  BY WorkersStay DEF Collect
<1> QED BY <1>12, <1>13, <1>14, <1>15 DEF IInv

LEMMA ReturnStep == IInv /\ Return => IInv'
<1> SUFFICES ASSUME IInv, Return PROVE IInv'
  OBVIOUS
<1>1. TypeOK'
  BY DEF IInv, TypeOK, Return, call, Phase
<1>2. Progress'
  BY CutStays DEF IInv, Return, call, Progress
<1>3. Batch /\ requests # 0 /\ collected = Chunks
  BY DEF IInv, TypeOK, Progress, Return, Batch
<1>4. Len(results) = requests
  BY <1>3, Cut, ChunkBounds DEF IInv, CallerHolds, Return
<1>5. CallerHolds'
  BY <1>4 DEF IInv, Return, call, CallerHolds, InOrder
<1>6. \A w \in Worker : WorkerHolds(w)'
  BY WorkersStay DEF Return
<1> QED BY <1>1, <1>2, <1>5, <1>6 DEF IInv

LEMMA RouteChunkStep ==
  ASSUME IInv, NEW w \in Worker, RouteChunk(w)
  PROVE  IInv'
<1> DEFINE done == Len(partial[w])
           first == ChunkStart(w)
           more == StepLen(done, ChunkLen(w))
           last == first + done + more - 1
<1>1. Batch /\ requests # 0 /\ w \in 1..Chunks /\ TypeOK /\ WorkerHolds(w) /\ w <= spawned
  <2>1. Batch /\ requests # 0 /\ w <= spawned /\ spawned <= Chunks /\ spawned \in Nat /\ w \in Nat \ {0}
    BY DEF IInv, TypeOK, Progress, RouteChunk, Batch, Worker
  <2>2. Chunks \in Nat
    BY <2>1, Cut
  <2> QED BY <2>1, <2>2 DEF IInv
<1>2. /\ first \in 1..requests /\ ChunkEnd(w) \in first..requests
      /\ ChunkLen(w) = ChunkEnd(w) - first + 1 /\ ChunkLen(w) \in Nat
  BY <1>1, ChunkBounds DEF ChunkLen
<1>3. /\ partial[w] \in Seq(1..MaxRequests) /\ InOrder(partial[w], first)
      /\ done \in Nat /\ done < ChunkLen(w)
  BY <1>1 DEF TypeOK, WorkerHolds, RouteChunk
<1>4. more \in 1..(ChunkLen(w) - done)
  BY <1>1, <1>2, <1>3, StepLenBounds
<1> HIDE DEF done, more, first
<1>5. /\ first \in 1..MaxRequests /\ last \in 0..MaxRequests /\ MaxRequests \in Nat
      /\ first + done <= last + 1 /\ last - first + 1 <= ChunkLen(w)
  BY <1>1, <1>2, <1>3, <1>4, MaxAssumption DEF Batch
<1>6. partial' = [partial EXCEPT ![w] = @ \o Routed(first + done, last)]
  BY DEF RouteChunk, last, more, first, done
<1> HIDE DEF last
<1>7. /\ partial[w] \o Routed(first + done, last) \in Seq(1..MaxRequests)
      /\ Len(partial[w] \o Routed(first + done, last)) = last - first + 1
      /\ InOrder(partial[w] \o Routed(first + done, last), first)
  BY <1>3, <1>5, Continue DEF done
<1>8. TypeOK'
  BY <1>1, <1>6, <1>7 DEF TypeOK, RouteChunk, call, Phase
<1>9. Progress'
  BY CutStays DEF IInv, RouteChunk, call, Progress
<1>10. CallerHolds'
  BY DEF IInv, RouteChunk, call, CallerHolds, InOrder
<1>11. ASSUME NEW v \in Worker PROVE WorkerHolds(v)'
  <2>1. v \in Nat /\ WorkerHolds(v)
    BY DEF IInv, Worker
  <2>2. ChunkStart(v)' = ChunkStart(v) /\ ChunkLen(v)' = ChunkLen(v)
    BY <2>1, CutStays DEF RouteChunk
  <2>3. spawned' = spawned /\ joined' = joined
    BY DEF RouteChunk
  <2>4. CASE v # w
    <3>1. partial'[v] = partial[v]
      BY <1>1, <1>6, <2>4 DEF TypeOK
    <3> QED BY <2>1, <2>2, <2>3, <3>1 DEF WorkerHolds, InOrder
  <2>5. CASE v = w
    <3>1. partial'[w] = partial[w] \o Routed(first + done, last)
      BY <1>1, <1>6 DEF TypeOK
    <3>2. ~(w <= joined)
      BY <1>1, <1>2, <1>3 DEF WorkerHolds, done
    <3>3. first = ChunkStart(w)
      BY DEF first
    <3> QED BY <1>1, <1>5, <1>7, <2>2, <2>3, <2>5, <3>1, <3>2, <3>3 DEF WorkerHolds, InOrder
  <2> QED BY <2>4, <2>5
<1> QED BY <1>8, <1>9, <1>10, <1>11 DEF IInv

LEMMA StepIInv == IInv /\ [Next]_vars => IInv'
<1> SUFFICES ASSUME IInv, [Next]_vars PROVE IInv'
  OBVIOUS
<1>1. CASE UNCHANGED vars
  <2>1. TypeOK' /\ Progress' /\ CallerHolds'
    BY <1>1, CutStays DEF IInv, vars, call, TypeOK, Progress, CallerHolds, InOrder,
                          ChunkEnd, ChunkSize, WorkerCount, Least
  <2>2. \A w \in Worker : WorkerHolds(w)'
    BY <1>1, WorkersStay DEF vars
  <2> QED BY <2>1, <2>2 DEF IInv
<1>2. CASE Caller
  BY <1>2, AnswerEmptyStep, RefuseStep, BeginStep, RouteAloneStep, ReturnAloneStep,
     SpawnStep, JoinStep, EndScopeStep, CollectStep, ReturnStep DEF Caller
<1>3. ASSUME NEW w \in Worker, RouteChunk(w) PROVE IInv'
  BY <1>3, RouteChunkStep
<1> QED BY <1>1, <1>2, <1>3 DEF Next

\* Type correctness, the cut of the batch, and what caller and threads hold.
THEOREM BatchInvariant == Safety => []IInv
<1>1. Init => IInv
  BY InitIInv
<1>2. IInv /\ [Next]_vars => IInv'
  BY StepIInv
<1> QED BY <1>1, <1>2, PTL DEF Safety

THEOREM BatchTypeCorrect == Safety => []TypeOK
<1>1. IInv => TypeOK
  BY DEF IInv
<1> QED BY <1>1, BatchInvariant, PTL

\* Threads route disjoint parts of the batch, and no thread repeats itself.
THEOREM NothingRoutedTwice == Safety => []RoutedOnce
<1>1. ASSUME IInv PROVE RoutedOnce
  <2>1. SUFFICES ASSUME NEW v \in Worker, NEW w \in Worker,
                        NEW i \in 1..Len(partial[v]), NEW j \in 1..Len(partial[w]),
                        partial[v][i] = partial[w][j]
                 PROVE  v = w /\ i = j
    BY DEF RoutedOnce
  <2>2. /\ WorkerHolds(v) /\ WorkerHolds(w) /\ spawned \in Nat
        /\ v \in Nat \ {0} /\ w \in Nat \ {0}
        /\ partial[v] \in Seq(1..MaxRequests) /\ partial[w] \in Seq(1..MaxRequests)
    BY <1>1 DEF IInv, TypeOK, Worker
  <2>3. partial[v] # <<>> /\ partial[w] # <<>>
    BY <2>2
  <2>4. Batch /\ requests # 0 /\ v \in 1..Chunks /\ w \in 1..Chunks
    <3>1. v <= spawned /\ w <= spawned
      BY <2>2, <2>3 DEF WorkerHolds
    <3>2. Batch /\ requests # 0 /\ spawned <= Chunks
      BY <1>1, <2>2, <3>1 DEF IInv, Progress, TypeOK, Batch
    <3>3. Chunks \in Nat
      BY <3>2, Cut
    <3> QED BY <2>2, <3>1, <3>2, <3>3
  <2>5. /\ partial[v][i] = ChunkStart(v) + i - 1 /\ i \in 1..ChunkLen(v)
        /\ partial[w][j] = ChunkStart(w) + j - 1 /\ j \in 1..ChunkLen(w)
    <3>1. ChunkLen(v) \in Nat /\ ChunkLen(w) \in Nat
      BY <2>4, ChunkBounds
    <3>2. Len(partial[v]) <= ChunkLen(v) /\ Len(partial[w]) <= ChunkLen(w)
      BY <2>2, <2>3 DEF WorkerHolds
    <3>3. Len(partial[v]) \in Nat /\ Len(partial[w]) \in Nat
      BY <2>2, LenProperties
    <3> QED BY <2>2, <3>1, <3>2, <3>3 DEF WorkerHolds, InOrder
  <2>6. /\ ChunkStart(v) \in Nat /\ ChunkEnd(v) \in Nat /\ ChunkStart(w) \in Nat
        /\ ChunkEnd(w) \in Nat
    BY <2>4, ChunkBounds DEF Batch
  <2>7. /\ partial[v][i] \in ChunkStart(v)..ChunkEnd(v)
        /\ partial[w][j] \in ChunkStart(w)..ChunkEnd(w)
    <3>1. ChunkStart(v) + i - 1 \in ChunkStart(v)..ChunkEnd(v)
      BY <2>5, <2>6, Offset DEF ChunkLen
    <3>2. ChunkStart(w) + j - 1 \in ChunkStart(w)..ChunkEnd(w)
      BY <2>5, <2>6, Offset DEF ChunkLen
    <3> QED BY <2>5, <3>1, <3>2
  <2>8. ~(v < w) /\ ~(w < v)
    BY <2>1, <2>4, <2>6, <2>7, ChunksApart
  <2>9. v = w
    BY <2>2, <2>8
  <2>10. i \in Int /\ j \in Int
    BY <2>5
  <2>11. ChunkStart(v) + i - 1 = ChunkStart(v) + j - 1
    BY <2>1, <2>5, <2>9, Zenon
  <2>12. i = j
    BY <2>6, <2>10, <2>11
  <2> QED BY <2>9, <2>12
<1> QED BY <1>1, BatchInvariant, PTL

\* No more threads than asked for, and none without work.
THEOREM ThreadsHaveWork == Safety => []NoIdleThread
<1>1. ASSUME IInv PROVE NoIdleThread
  <2>1. SUFFICES ASSUME phase = "Threads"
                 PROVE  spawned <= WorkerCount /\ \A w \in 1..spawned : ChunkLen(w) > 0
    BY DEF NoIdleThread
  <2>2. Batch /\ requests # 0 /\ spawned \in Nat /\ (spawned > 0 => spawned <= Chunks)
    BY <1>1, <2>1 DEF IInv, TypeOK, Progress, Batch
  <2>3. Chunks \in Nat /\ Chunks <= WorkerCount /\ WorkerCount \in Nat
    BY <2>2, Cut, Workers
  <2> QED BY <2>2, <2>3, ChunkBounds
<1> QED BY <1>1, BatchInvariant, PTL

\* The call answers as the RouterBackend trait promises: every step of the
\* caller or of a thread is the one answer of the trait or none.
THEOREM BatchRefinesBackend == Safety => Backend!BackendSafety
<1>1. Init => Backend!BackendInit
  BY MaxAssumption DEF Init, Backend!BackendInit
<1>2. ASSUME IInv, IInv', [Next]_vars PROVE [Backend!BackendNext]_(Backend!backendVars)
  <2> USE DEF Backend!backendVars
  <2>1. CASE UNCHANGED vars
    BY <2>1 DEF vars, call
  <2>2. CASE AnswerEmpty
    <3>1. results' = <<>> /\ requests = 0 /\ requests' = 0 /\ servable' = servable
      BY <1>2, <2>2 DEF AnswerEmpty, call, IInv, CallerHolds
    <3>2. <<>> = [i \in 1..requests |-> i]
      BY <3>1
    <3> QED BY <2>2, <3>1, <3>2 DEF AnswerEmpty, Backend!BackendNext, Backend!Answer
  <2>3. CASE Refuse
    BY <2>3 DEF Refuse, call, Backend!BackendNext, Backend!Refuse
  <2>4. CASE ReturnAlone \/ Return
    <3>1. /\ phase \in {"Alone", "Collecting"} /\ phase' = "Returned"
          /\ requests' = requests /\ servable' = servable
      BY <2>4 DEF ReturnAlone, Return, call
    <3>2. servable
      BY <1>2, <3>1 DEF IInv, Progress
    <3>3. results' \in Seq(1..MaxRequests) /\ Len(results') = requests /\ InOrder(results', 1)
      BY <1>2, <3>1 DEF IInv, TypeOK, CallerHolds
    <3>4. requests \in Nat
      BY <1>2 DEF IInv, TypeOK
    <3>5. results' = [i \in 1..requests |-> i]
      BY <3>3, <3>4 DEF InOrder
    <3> QED BY <3>1, <3>2, <3>5 DEF Backend!BackendNext, Backend!Answer
  <2>5. CASE Begin \/ RouteAlone \/ Spawn \/ Join \/ EndScope \/ Collect
    BY <2>5 DEF Begin, RouteAlone, Spawn, Join, EndScope, Collect, call
  <2>6. CASE \E w \in Worker : RouteChunk(w)
    BY <2>6 DEF RouteChunk, call
  <2> QED BY <1>2, <2>1, <2>2, <2>3, <2>4, <2>5, <2>6 DEF Next, Caller
<1> QED BY <1>1, <1>2, BatchInvariant, PTL DEF Safety, Backend!BackendSafety
===============================================================================
