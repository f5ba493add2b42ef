---------------------------- MODULE RouteSelection ----------------------------
(***************************************************************************)
(* One request routed by the CPU router: a scan over all agents that feeds    *)
(* the candidates to an observed and an available accumulator, and the result. *)
(* Which accumulators are used depends on k and on debug_observed; the blocked *)
(* production scan uses those of a request without debug information.          *)
(*                                                                         *)
(* The scan may meet any candidates: profiles and runtime states are whatever   *)
(* the caller passes, agent ids are not checked to be unique, and a distance    *)
(* may be NaN.  The agents of a table are chosen as the scan gets to them.      *)
(***************************************************************************)
EXTENDS TopK

CONSTANTS
  Scannable,   \* candidates the scan may meet
  MaxAgents,   \* bound: agents in a table
  MaxK,        \* bound: candidates a request asks for
  NaN,         \* the distances that are not numbers
  Infinity,    \* the greatest number
  Radius,      \* values of radius_max_threshold
  Fallback,    \* fallback_generalist_id
  None

ASSUME ScannableAssumption == Scannable \subseteq Candidate
ASSUME BoundsAssumption == MaxAgents \in Nat /\ MaxK \in Nat
ASSUME DistanceAssumption == NaN \cup Radius \subseteq Int /\ Infinity \in Int \ NaN
ASSUME FallbackAssumption == Fallback \in Nat

VARIABLES
  k, radius,   \* of the request
  debug,       \* CpuRouter.debug_observed
  scanned,     \* the candidates met so far, in the order of the table
  observed,    \* the accumulator of all candidates
  available,   \* the accumulator of available candidates
  result       \* None until the scan ends

vars == <<k, radius, debug, scanned, observed, available, result>>
request == <<k, radius, debug>>

Accumulator == [held : Seq(Candidate), worst : Nat]

Result ==
  [ candidates : Seq(Candidate), used_fallback : BOOLEAN,
    ideal_unavailable : BOOLEAN, debug : {None} \cup Seq(Candidate) ]

TypeOK ==
  /\ k \in 0..MaxK /\ radius \in Radius /\ debug \in BOOLEAN
  /\ scanned \in Seq(Scannable) /\ Len(scanned) <= MaxAgents
  /\ observed \in Accumulator /\ available \in Accumulator
  /\ Len(observed.held) <= k /\ Len(available.held) <= k
  /\ result \in Result \cup {None}

Init ==
  /\ k \in 0..MaxK /\ radius \in Radius /\ debug \in BOOLEAN
  /\ scanned = <<>>
  /\ observed = EmptyTopK
  /\ available = EmptyTopK
  /\ result = None

-----------------------------------------------------------------------------
ObservesTopK == debug /\ k # 1

PushObserved(c) ==
  IF ObservesTopK THEN PushTopK(observed, k, c, "Observed")
  ELSE [observed EXCEPT !.held = PushBest(@, k > 0, c, "Observed")]

PushAvailable(c) ==
  IF ~c.available THEN available
  ELSE IF k = 1 THEN [available EXCEPT !.held = PushBest(@, TRUE, c, "Available")]
  ELSE PushTopK(available, k, c, "Available")

\* scan_candidates meets one more agent.
Scan(c) ==
  /\ result = None
  /\ Len(scanned) < MaxAgents
  /\ scanned' = Append(scanned, c)
  /\ observed' = PushObserved(c)
  /\ available' = PushAvailable(c)
  /\ UNCHANGED <<request, result>>

\* The best available candidate is too far for the request.  A distance that is
\* NaN compares false: it is never too far.
TooFar(c) == c.base \notin NaN /\ c.base > radius

FallbackCandidate ==
  [agent_id |-> Fallback, base |-> Infinity, effective |-> Infinity, available |-> TRUE]

\* A faulty result judges by the effective distance.
SelectByEffective ==
  LET best == Sorted(available.held, "Available")
      all  == Sorted(observed.held, "Observed")
      far  == best = <<>> \/ best[1].effective > radius
  IN [ candidates        |-> IF far THEN Append(best, FallbackCandidate) ELSE best,
       used_fallback     |-> far,
       ideal_unavailable |-> all # <<>> /\ ~all[1].available,
       debug             |-> IF debug THEN all ELSE None ]

\* The result: the available candidates in order, the fallback generalist after
\* them when there is none near enough.
Select ==
  LET best == Sorted(available.held, "Available")
      all  == Sorted(observed.held, "Observed")
      far  == best = <<>> \/ TooFar(best[1])
  IN [ candidates        |-> IF far THEN Append(best, FallbackCandidate) ELSE best,
       used_fallback     |-> far,
       ideal_unavailable |-> all # <<>> /\ ~all[1].available,
       debug             |-> IF debug THEN all ELSE None ]

\* validate_batch refuses an empty table.
Finish ==
  /\ result = None
  /\ scanned # <<>>
  /\ result' = Select
  /\ UNCHANGED <<request, scanned, observed, available>>

Next == (\E c \in Scannable : Scan(c)) \/ Finish

Spec == Init /\ [][Next]_vars

-----------------------------------------------------------------------------
(* What a full sort of the table would give. *)

\* The places of the table with an available agent, and the best k of some places.
Usable == {i \in 1..Len(scanned) : scanned[i].available}
Ranked(places, sort) ==
  LET n == Cardinality(places) IN SubSeq(InOrder(scanned, places, sort), 1, IF k < n THEN k ELSE n)

Rank(s, sort) == [i \in 1..Len(s) |-> <<Key(s[i], sort), s[i].agent_id>>]

\* During the whole scan the accumulators hold the best k of what was met: they
\* rank like the head of a full sort, whatever came in whatever order.
HoldsTheBest ==
  /\ Rank(Sorted(available.held, "Available"), "Available")
       = Rank(Ranked(Usable, "Available"), "Available")
  /\ ObservesTopK =>
       Rank(Sorted(observed.held, "Observed"), "Observed")
         = Rank(Ranked(1..Len(scanned), "Observed"), "Observed")

DistinctIds == \A i, j \in 1..Len(scanned) : scanned[i].agent_id = scanned[j].agent_id => i = j

\* With unique agent ids every combination of accumulators answers as the full
\* sort: the same candidates in the same order, the fallback after them exactly
\* when none is near enough, and whether the ideal candidate is unavailable.
\* debug_observed and the single-winner path change nothing.
AnswersAsFullSort ==
  result # None /\ DistinctIds =>
    LET best == Ranked(Usable, "Available")
        all  == Sorted(scanned, "Observed")
        near == best # <<>> /\ ~TooFar(best[1])
    IN /\ result.candidates = IF near THEN best ELSE Append(best, FallbackCandidate)
       /\ result.used_fallback = ~near
       /\ result.ideal_unavailable = (k > 0 /\ ~all[1].available)
       /\ result.debug = IF debug THEN Ranked(1..Len(scanned), "Observed") ELSE None
===============================================================================
