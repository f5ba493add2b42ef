----------------------------- MODULE RecordLedger -----------------------------
(***************************************************************************)
(* What a JSONL ledger promises: records are added at its end, and no two have   *)
(* the same id.  Records are offered as events are; only event_id is looked at.   *)
(***************************************************************************)
EXTENDS LoomEvents

CONSTANT Offered   \* the records writers may try to add

VARIABLE records

LedgerInit == records = <<>>

Add(r) ==
  /\ r.event_id \notin IdsOf(records)
  /\ records' = Append(records, r)

LedgerNext == \E r \in Offered : Add(r)

LedgerSpec == LedgerInit /\ [][LedgerNext]_records

\* No id is there twice.
UniqueRecordIds ==
  \A i, j \in 1..Len(records) : records[i].event_id = records[j].event_id => i = j
===============================================================================
