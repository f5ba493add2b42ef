---------------------------- MODULE RouterBackend ----------------------------
(***************************************************************************)
(* What the RouterBackend trait promises of route_batch, as a caller sees it:  *)
(* the call returns, and with one result per request in the order of the       *)
(* requests, or with an error and no result at all.                            *)
(*                                                                         *)
(* A request is its place in the batch and its result carries the same number.  *)
(***************************************************************************)
EXTENDS Naturals, Sequences

VARIABLES
  requests,   \* how many requests the batch has
  servable,   \* the backend can route these requests over this table
  status,     \* of the call: "Pending", "Ok" or "Err"
  answer      \* the results, when the call returned Ok

backendVars == <<requests, servable, status, answer>>

BackendInit ==
  /\ requests \in Nat
  /\ servable \in BOOLEAN
  /\ status = "Pending"
  /\ answer = <<>>

\* An empty batch is answered whatever the table: by the CPU, which is refined to this.
\* (CudaRouter looks at the table first, and reports its error for an empty batch too.)
Answer ==
  /\ status = "Pending"
  /\ servable \/ requests = 0
  /\ status' = "Ok"
  /\ answer' = [i \in 1..requests |-> i]
  /\ UNCHANGED <<requests, servable>>

Refuse ==
  /\ status = "Pending"
  /\ ~servable /\ requests # 0
  /\ status' = "Err"
  /\ UNCHANGED <<requests, servable, answer>>

BackendNext == Answer \/ Refuse

BackendSafety == BackendInit /\ [][BackendNext]_backendVars
BackendSpec == BackendSafety /\ WF_backendVars(BackendNext)
===============================================================================
