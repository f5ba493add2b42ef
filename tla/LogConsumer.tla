----------------------------- MODULE LogConsumer -----------------------------
(***************************************************************************)
(* An event log and a consumer that follows it through a ReplayCursor.      *)
(* Producers choose event ids and nothing makes them increase (the mock loom *)
(* itself appends 2003 before 102), so the cursor's filter "event_id greater *)
(* than the cursor" and the order of the vector are two different orders.     *)
(***************************************************************************)
EXTENDS EventLog

VARIABLES
  cursor,      \* ReplayCursor.after_event_id
  seen         \* what the consumer has been given, in order

consumerVars == <<events, event_ids, cursor, seen>>

ConsumerTypeOK ==
  /\ LogTypeOK
  /\ cursor \in EventId \cup {None}
  /\ seen \in Seq(Event)

ConsumerInit ==
  /\ LogInit
  /\ cursor = None      \* ReplayCursor::start()
  /\ seen = <<>>

AppendAction ==
  /\ LogNext
  /\ UNCHANGED <<cursor, seen>>

\* A faulty filter passes over the next id.
AfterNext(c, e) == c = None \/ e.event_id > c + 1

\* The filter of InMemoryEventLog::replay
After(c, e) == c = None \/ e.event_id > c

\* InMemoryEventLog::replay: the events that pass the filter, in their order.
Replay(c) ==
  LET kept[n \in 0..Len(events)] ==
        IF n = 0 THEN <<>>
        ELSE IF After(c, events[n]) THEN Append(kept[n - 1], events[n])
        ELSE kept[n - 1]
  IN kept[Len(events)]

\* The consumer reads what is after its cursor and moves the cursor to the
\* greatest id it has now been given.
Poll ==
  LET batch == Replay(cursor) IN
  /\ batch # <<>>
  /\ seen' = seen \o batch
  /\ cursor' \in IdsOf(batch)
  /\ \A id \in IdsOf(batch) : id <= cursor'
  /\ UNCHANGED logVars

ConsumerNext == AppendAction \/ Poll

ConsumerSpec == ConsumerInit /\ [][ConsumerNext]_consumerVars

-----------------------------------------------------------------------------

\* The only events a cursor passes over are those appended after one with a
\* greater id: a consumer of a log with increasing ids misses nothing.
SkipsOnlyLateIds ==
  \A k \in 1..Len(events) :
    LET e == events[k] IN
    \/ After(cursor, e)
    \/ \E i \in 1..Len(seen) : seen[i] = e
    \/ \E i \in 1..(k - 1) : events[i].event_id > e.event_id
===============================================================================
