------------------------------- MODULE EventLog -------------------------------
(***************************************************************************)
(* InMemoryEventLog: a vector of events beside a set of their ids, grown by *)
(* append alone.  Append decides from both copies: the set for duplicate      *)
(* ids, the vector for causes.                                                *)
(***************************************************************************)
EXTENDS LoomEvents

CONSTANT Offered   \* the events producers may try to append

ASSUME OfferedAssumption == Offered \subseteq Event

VARIABLES
  events,      \* InMemoryEventLog.events
  event_ids    \* InMemoryEventLog.event_ids

logVars == <<events, event_ids>>

LogTypeOK ==
  /\ events \in Seq(Event)
  /\ event_ids \subseteq EventId

LogInit ==
  /\ events = <<>>
  /\ event_ids = {}

\* Faulty forms of append: the id set is not updated, is updated with the id
\* of the cause, and the cause is not looked up.
AppendForgetsId(e) ==
  /\ Accepts(events, event_ids, e)
  /\ events' = Append(events, e)
  /\ UNCHANGED event_ids

AppendIndexesCause(e) ==
  /\ Accepts(events, event_ids, e)
  /\ event_ids' = event_ids \cup {e.causation_id}
  /\ events' = Append(events, e)

AppendTrustsCause(e) ==
  /\ Validates(e)
  /\ e.event_id \notin event_ids
  /\ event_ids' = event_ids \cup {e.event_id}
  /\ events' = Append(events, e)

\* InMemoryEventLog::append.  A refused event changes nothing.
AppendEvent(e) ==
  /\ Accepts(events, event_ids, e)
  /\ event_ids' = event_ids \cup {e.event_id}
  /\ events' = Append(events, e)

LogNext == \E e \in Offered : AppendEvent(e)

LogSpec == LogInit /\ [][LogNext]_logVars

-----------------------------------------------------------------------------
\* The id set is the ids of the vector, and no id is there twice: append looks
\* only at the set, so one id missing from it would let a duplicate in.
UniqueEventIds ==
  /\ event_ids = IdsOf(events)
  /\ \A i, j \in 1..Len(events) :
       events[i].event_id = events[j].event_id => i = j

\* An event whose type demands a cause comes after an event of that type, which
\* it names and whose task, root, correlation (and payload) it shares.
CauseBeforeEffect ==
  \A j \in 1..Len(events) :
    events[j].event_type \in DOMAIN RequiredCause =>
      \E i \in 1..(j - 1) : IsCause(events, i, events[j])

\* A rollback can be followed back, event by event, to the commit it undoes and
\* the proposal that commit came from, in that order.
RollbackTracesToProposal ==
  \A k \in 1..Len(events) :
    events[k].event_type = "TopologyRolledBack" =>
      \E i, j \in 1..Len(events) :
        /\ i < j /\ j < k
        /\ events[j].event_type = "TopologyCommitted"
        /\ events[j].event_id = events[k].causation_id
        /\ events[i].event_type = "TopologyProposed"
        /\ events[i].event_id = events[j].causation_id

\* Feeding the vector through append again, as validate_replay and reading a
\* written log do, meets no error: the log can be rebuilt from its events alone.
Replayable == Appendable(events)
===============================================================================
