----------------------------- MODULE BackendParity -----------------------------
(***************************************************************************)
(* The check that two backends route alike: the results of one batch, compared  *)
(* position by position, exactly or with a tolerance for the distances.  The     *)
(* penalties that only travel along, the checksum and the task ids, which both   *)
(* backends copy from the request, are left out.                               *)
(***************************************************************************)
EXTENDS Integers, Sequences

CONSTANTS
  NaN,        \* the distances that are not numbers
  Infinity,
  None        \* no tolerance; no debug information; the batch of a backend that failed

-----------------------------------------------------------------------------
\* a == b of two floats.
Exact(a, b) == {a, b} \cap NaN = {} /\ a = b

\* f32_close
Close(a, b, tolerance) ==
  IF Infinity \in {a, b} THEN Exact(a, b)
  ELSE {a, b} \cap NaN = {} /\ a - b \in (-tolerance)..tolerance

Same(a, b, tolerance) == IF tolerance = None THEN Exact(a, b) ELSE Close(a, b, tolerance)

\* Two candidates, results and batches match if their distances do, and all else
\* is the same.
CandidateMatches(r, c, tolerance) ==
  /\ r.agent_id = c.agent_id /\ r.available = c.available
  /\ Same(r.effective, c.effective, tolerance) /\ Same(r.base, c.base, tolerance)

ListMatches(r, c, tolerance) ==
  Len(r) = Len(c) /\ \A i \in 1..Len(r) : CandidateMatches(r[i], c[i], tolerance)

DebugMatches(r, c, tolerance) ==
  IF None \in {r, c} THEN r = c ELSE ListMatches(r, c, tolerance)

ResultMatches(r, c, tolerance) ==
  /\ r.used_fallback = c.used_fallback
  /\ r.ideal_unavailable = c.ideal_unavailable
  /\ ListMatches(r.candidates, c.candidates, tolerance)
  /\ DebugMatches(r.debug, c.debug, tolerance)

BatchMatches(r, c, tolerance) ==
  Len(r) = Len(c) /\ \A i \in 1..Len(r) : ResultMatches(r[i], c[i], tolerance)

\* Where two batches first differ, counted from 0: where the shorter ends, if they
\* differ nowhere before.
FirstMismatch(r, c, tolerance) ==
  LET shared == IF Len(r) < Len(c) THEN Len(r) ELSE Len(c)
      differ == {i \in 1..shared : ~ResultMatches(r[i], c[i], tolerance)}
  IN IF differ = {} THEN shared ELSE (CHOOSE i \in differ : \A j \in differ : i <= j) - 1

\* assert_backend_parity, without tolerance, and assert_backend_parity_with_tolerance.
Parity(r, c, tolerance) ==
  CASE r = None -> [error |-> "ReferenceRoute"]
    [] r # None /\ c = None -> [error |-> "CandidateRoute"]
    [] r # None /\ c # None /\ ~BatchMatches(r, c, tolerance) ->
         [ error |-> "Mismatch", first_mismatch_index |-> FirstMismatch(r, c, tolerance),
           reference_len |-> Len(r), candidate_len |-> Len(c) ]
    [] OTHER -> [error |-> "", routes |-> Len(c)]
===============================================================================
