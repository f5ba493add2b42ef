--------------------------------- MODULE TopK ---------------------------------
(***************************************************************************)
(* The accumulators of the CPU router: BestCandidate keeps the best candidate *)
(* pushed, BoundedTopK the k best with the index of the worst of them, and     *)
(* both compare by distance, then agent id.                                  *)
(*                                                                         *)
(* Distances stand for f32 values under total_cmp: any integers, of which the  *)
(* NaNs are the least or the greatest by their sign.                          *)
(***************************************************************************)
EXTENDS Integers, Sequences, FiniteSets

Sort == {"Observed", "Available"}

\* CompactCandidate, without the penalties that only travel along.
Candidate == [agent_id : Nat, base : Int, effective : Int, available : BOOLEAN]

Key(c, sort) == IF sort = "Observed" THEN c.base ELSE c.effective

\* compare_candidate(a, b, sort).is_lt()
Less(a, b, sort) ==
  \/ Key(a, sort) < Key(b, sort)
  \/ Key(a, sort) = Key(b, sort) /\ a.agent_id < b.agent_id

-----------------------------------------------------------------------------
\* BestCandidate::push, with at most one candidate held.  A faulty form prefers
\* the newer of equals and compares distances alone.
PushBestByKey(held, enabled, c, sort) ==
  IF enabled /\ (held = <<>> \/ Key(c, sort) <= Key(held[1], sort)) THEN <<c>> ELSE held

PushBest(held, enabled, c, sort) ==
  IF enabled /\ (held = <<>> \/ Less(c, held[1], sort)) THEN <<c>> ELSE held

-----------------------------------------------------------------------------
\* BoundedTopK: the candidates held, in no order, and worst_idx (0: none).
EmptyTopK == [held |-> <<>>, worst |-> 0]

\* recompute_worst: max_by returns the last of the greatest.
IsWorst(held, i, sort) ==
  \A j \in 1..Len(held) :
    /\ ~Less(held[i], held[j], sort)
    /\ j > i => Less(held[j], held[i], sort)

RecomputeWorst(held, sort) == CHOOSE i \in 1..Len(held) : IsWorst(held, i, sort)

\* A faulty push replaces the worst without looking for the next worst.
PushKeepsWorst(top, k, c, sort) ==
  CASE k = 0 -> top
    [] k # 0 /\ Len(top.held) < k ->
         LET held == Append(top.held, c) IN
         [ held  |-> held,
           worst |-> IF top.worst = 0 \/ Less(held[top.worst], c, sort)
                     THEN Len(held) ELSE top.worst ]
    [] OTHER ->
         IF Less(c, top.held[top.worst], sort)
         THEN [top EXCEPT !.held = [@ EXCEPT ![top.worst] = c]] ELSE top

\* Another one holds a candidate too many.
PushOverfills(top, k, c, sort) ==
  CASE k = 0 -> top
    [] k # 0 /\ Len(top.held) <= k ->
         LET held == Append(top.held, c) IN
         [ held  |-> held,
           worst |-> IF top.worst = 0 \/ Less(held[top.worst], c, sort)
                     THEN Len(held) ELSE top.worst ]
    [] OTHER ->
         IF Less(c, top.held[top.worst], sort)
         THEN LET held == [top.held EXCEPT ![top.worst] = c] IN
              [held |-> held, worst |-> RecomputeWorst(held, sort)]
         ELSE top

\* BoundedTopK::push, with update_worst_after_push.
PushTopK(top, k, c, sort) ==
  CASE k = 0 -> top
    [] k # 0 /\ Len(top.held) < k ->
         LET held == Append(top.held, c) IN
         [ held  |-> held,
           worst |-> IF top.worst = 0 \/ Less(held[top.worst], c, sort)
                     THEN Len(held) ELSE top.worst ]
    [] OTHER ->
         IF Less(c, top.held[top.worst], sort)
         THEN LET held == [top.held EXCEPT ![top.worst] = c] IN
              [held |-> held, worst |-> RecomputeWorst(held, sort)]
         ELSE top

\* The elements of s at some of its places, in order and stable: the element of
\* place i comes after as many as are less, or equal and earlier.
Before(s, i, places, sort) ==
  { j \in places : \/ Less(s[j], s[i], sort)
                   \/ ~Less(s[i], s[j], sort) /\ j < i }

InOrder(s, places, sort) ==
  [ r \in 1..Cardinality(places) |->
      s[CHOOSE i \in places : Cardinality(Before(s, i, places, sort)) = r - 1] ]

\* sort_candidates
Sorted(s, sort) == InOrder(s, 1..Len(s), sort)
===============================================================================
