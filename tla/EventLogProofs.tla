---------------------------- MODULE EventLogProofs ----------------------------
(***************************************************************************)
(* What holds of every event log, for every set of ids, tasks, roots,        *)
(* correlations, payload references and offered events.                      *)
(*                                                                         *)
(* The inductive invariant is LogTypeOK /\ UniqueEventIds /\ Replayable:      *)
(* append checks a new event against the whole log, and appending never       *)
(* changes the log before an event, so what append once checked of an event   *)
(* stays true.  Causality follows from Replayable.                            *)
(*                                                                         *)
(* A consumer that follows the log with a cursor misses only events that were  *)
(* appended after an event with a greater id.                                 *)
(*                                                                         *)
(* validate_events gives the verdict the rules call for, on every slice of any  *)
(* length over any events, and an error only for an event, task or child that    *)
(* breaks the error's rule.  The pass keeps maps, the rules speak of the slice;    *)
(* the invariant ties them: each map holds, for each task, the last event of its *)
(* type, and the children collected are the child events admitted.  What a check *)
(* asked of an event when it came is then found in the log before it.           *)
(*                                                                         *)
(* The diagrams of a log that passed need no other invariant: every line is found *)
(* from the events that have it, and causes are in the log before what they caused. *)
(***************************************************************************)
EXTENDS LogConsumer, LoomReplay, LoomEventsProofs

LogInv == LogTypeOK /\ UniqueEventIds /\ Replayable

-----------------------------------------------------------------------------
(* One append. *)

LEMMA AppendPreservesTypes ==
  ASSUME LogTypeOK, NEW e \in Offered, AppendEvent(e)
  PROVE  LogTypeOK'
<1>1. e \in Event /\ e.event_id \in EventId
  BY OfferedAssumption DEF Event
<1>2. events' \in Seq(Event)
  BY <1>1, AppendFacts DEF LogTypeOK, AppendEvent
<1>3. event_ids' \subseteq EventId
  BY <1>1 DEF LogTypeOK, AppendEvent
<1> QED
  BY <1>2, <1>3 DEF LogTypeOK

LEMMA AppendPreservesUniqueIds ==
  ASSUME LogTypeOK, UniqueEventIds, NEW e \in Offered, AppendEvent(e)
  PROVE  UniqueEventIds'
<1>1. e \in Event /\ events \in Seq(Event)
  BY OfferedAssumption DEF LogTypeOK
<1>2. events' = Append(events, e) /\ e.event_id \notin event_ids
  BY DEF AppendEvent, Accepts
<1>3. event_ids' = IdsOf(events')
  BY <1>1, <1>2, IdsOfAppend DEF AppendEvent, UniqueEventIds
<1>4. ASSUME NEW i \in 1..Len(events'), NEW j \in 1..Len(events'),
             events'[i].event_id = events'[j].event_id
      PROVE  i = j
  <2>1. Len(events') = Len(events) + 1 /\ events'[Len(events) + 1] = e
    BY <1>1, <1>2, AppendFacts
  <2>2. \A k \in 1..Len(events) : events'[k] = events[k] /\ events[k].event_id \in event_ids
    BY <1>1, <1>2, AppendFacts DEF UniqueEventIds, IdsOf
  <2>3. Len(events) \in Nat
    BY <1>1
  <2>4. CASE i \in 1..Len(events) /\ j \in 1..Len(events)
    BY <1>4, <2>2, <2>4 DEF UniqueEventIds
  <2>5. CASE i = Len(events) + 1 /\ j \in 1..Len(events)
    BY <1>2, <1>4, <2>1, <2>2, <2>5
  <2>6. CASE i \in 1..Len(events) /\ j = Len(events) + 1
    BY <1>2, <1>4, <2>1, <2>2, <2>6
  <2> QED
    BY <2>1, <2>3, <2>4, <2>5, <2>6
<1> QED
  BY <1>3, <1>4 DEF UniqueEventIds

LEMMA AppendPreservesReplayable ==
  ASSUME LogTypeOK, UniqueEventIds, Replayable, NEW e \in Offered, AppendEvent(e)
  PROVE  Replayable'
<1>1. e \in Event /\ events \in Seq(Event) /\ Len(events) \in Nat
  BY OfferedAssumption DEF LogTypeOK
<1>2. events' = Append(events, e) /\ Accepts(events, IdsOf(events), e)
  BY DEF AppendEvent, UniqueEventIds
<1>3. Len(events') = Len(events) + 1 /\ events'[Len(events) + 1] = e
  BY <1>1, <1>2, AppendFacts
<1>4. ASSUME NEW i \in 1..Len(events')
      PROVE  Accepts(SubSeq(events', 1, i - 1), IdsOf(SubSeq(events', 1, i - 1)), events'[i])
  <2>1. SubSeq(events', 1, i - 1) = SubSeq(events, 1, i - 1)
    BY <1>1, <1>2, <1>3, PrefixOfAppend
  <2>2. CASE i \in 1..Len(events)
    <3>1. events'[i] = events[i]
      BY <1>1, <1>2, <2>2, AppendFacts
    <3> QED
      BY <2>1, <2>2, <3>1 DEF Replayable, Appendable
  <2>3. CASE i = Len(events) + 1
    <3>1. SubSeq(events, 1, i - 1) = events
      BY <1>1, <2>3, WholePrefix
    <3> QED
      BY <1>2, <1>3, <2>1, <2>3, <3>1
  <2> QED
    BY <1>1, <1>3, <2>2, <2>3
<1> QED
  BY <1>4 DEF Replayable, Appendable

-----------------------------------------------------------------------------
THEOREM LogInvariant == LogSpec => []LogInv
<1>1. LogInit => LogInv
  BY DEF LogInit, LogInv, LogTypeOK, UniqueEventIds, Replayable, Appendable, IdsOf
<1>2. LogInv /\ [LogNext]_logVars => LogInv'
  <2> SUFFICES ASSUME LogInv, [LogNext]_logVars
               PROVE  LogInv'
    OBVIOUS
  <2>1. ASSUME NEW e \in Offered, AppendEvent(e)
        PROVE  LogInv'
    BY <2>1, AppendPreservesTypes, AppendPreservesUniqueIds, AppendPreservesReplayable
    DEF LogInv
  <2>2. CASE UNCHANGED logVars
    BY <2>2 DEF logVars, LogInv, LogTypeOK, UniqueEventIds, Replayable
  <2> QED
    BY <2>1, <2>2 DEF LogNext
<1> QED
  BY <1>1, <1>2, PTL DEF LogSpec

\* The log and its id set are well-typed: append stores whole events only.
THEOREM LogTypeCorrect == LogSpec => []LogTypeOK
BY LogInvariant, PTL DEF LogInv

\* The id set and the vector never disagree, and no id is in the log twice.
THEOREM IdsAreUnique == LogSpec => []UniqueEventIds
BY LogInvariant, PTL DEF LogInv

\* Every log that append built can be built again from its events.
THEOREM EveryLogIsReplayable == LogSpec => []Replayable
BY LogInvariant, PTL DEF LogInv

-----------------------------------------------------------------------------
(* Causality, from Replayable alone. *)

LEMMA ReplayableIsCausal ==
  ASSUME LogTypeOK, Replayable
  PROVE  CauseBeforeEffect
<1> SUFFICES ASSUME NEW j \in 1..Len(events),
                    events[j].event_type \in DOMAIN RequiredCause
             PROVE  \E i \in 1..(j - 1) : IsCause(events, i, events[j])
  BY DEF CauseBeforeEffect
<1> DEFINE prefix == SubSeq(events, 1, j - 1)
<1>1. events \in Seq(Event) /\ Len(events) \in Nat
  BY DEF LogTypeOK
<1>2. Len(prefix) = j - 1 /\ \A i \in 1..(j - 1) : prefix[i] = events[i]
  BY <1>1
<1>3. ValidCausation(prefix, events[j])
  BY DEF Replayable, Appendable, Accepts
<1> HIDE DEF prefix
<1>4. PICK i \in 1..Len(prefix) : IsCause(prefix, i, events[j])
  BY <1>3 DEF ValidCausation
<1>5. i \in 1..(j - 1) /\ IsCause(events, i, events[j])
  BY <1>2, <1>4 DEF IsCause
<1> QED
  BY <1>5

LEMMA CausalChainOfRollback ==
  ASSUME LogTypeOK, CauseBeforeEffect
  PROVE  RollbackTracesToProposal
<1> SUFFICES ASSUME NEW k \in 1..Len(events),
                    events[k].event_type = "TopologyRolledBack"
             PROVE  \E i, j \in 1..Len(events) :
                      /\ i < j /\ j < k
                      /\ events[j].event_type = "TopologyCommitted"
                      /\ events[j].event_id = events[k].causation_id
                      /\ events[i].event_type = "TopologyProposed"
                      /\ events[i].event_id = events[j].causation_id
  BY DEF RollbackTracesToProposal
<1>1. Len(events) \in Nat
  BY DEF LogTypeOK
<1>2. PICK j \in 1..(k - 1) : IsCause(events, j, events[k])
  BY DEF CauseBeforeEffect, RequiredCause
<1>3. j \in 1..Len(events) /\ j < k
  BY <1>1, <1>2
<1>4. events[j].event_type = "TopologyCommitted" /\ events[j].event_id = events[k].causation_id
  BY <1>2 DEF IsCause, RequiredCause
<1>5. PICK i \in 1..(j - 1) : IsCause(events, i, events[j])
  BY <1>3, <1>4 DEF CauseBeforeEffect, RequiredCause
<1>6. i \in 1..Len(events) /\ i < j
  BY <1>1, <1>3, <1>5
<1>7. events[i].event_type = "TopologyProposed" /\ events[i].event_id = events[j].causation_id
  BY <1>4, <1>5 DEF IsCause, RequiredCause
<1> QED
  BY <1>3, <1>4, <1>6, <1>7

\* No event precedes its cause, and every cause agrees with its effect.
THEOREM CausesComeFirst == LogSpec => []CauseBeforeEffect
<1>1. LogInv => CauseBeforeEffect
  BY ReplayableIsCausal DEF LogInv
<1> QED
  BY <1>1, LogInvariant, PTL

\* No rollback event without the commit it undoes and that commit's proposal.
THEOREM RollbacksTraceToProposals == LogSpec => []RollbackTracesToProposal
<1>1. LogInv => RollbackTracesToProposal
  BY ReplayableIsCausal, CausalChainOfRollback DEF LogInv
<1> QED
  BY <1>1, LogInvariant, PTL

-----------------------------------------------------------------------------
(* The consumer. *)

\* What replay collects from the first n events, as a function of n.
KeptBy(log, c, kept) ==
  kept = [n \in 0..Len(log) |->
            IF n = 0 THEN <<>>
            ELSE IF After(c, log[n]) THEN Append(kept[n - 1], log[n])
            ELSE kept[n - 1]]

\* The recursion of Replay has a solution, for every log and every cursor.
LEMMA ReplayIsDefined ==
  ASSUME NEW log \in Seq(Event), NEW c
  PROVE  \E kept : KeptBy(log, c, kept)
<1> DEFINE Solved(n, kept) ==
             kept = [m \in 0..n |->
                       IF m = 0 THEN <<>>
                       ELSE IF After(c, log[m]) THEN Append(kept[m - 1], log[m])
                       ELSE kept[m - 1]]
           unsolved == {n \in 0..Len(log) : ~\E kept : Solved(n, kept)}
<1>1. Len(log) \in Nat
  OBVIOUS
<1>2. Solved(0, [m \in 0..0 |-> <<>>])
  OBVIOUS
<1>3. ASSUME NEW n \in 1..Len(log), NEW kept, Solved(n - 1, kept)
      PROVE  \E longer : Solved(n, longer)
  <2> DEFINE last == IF After(c, log[n]) THEN Append(kept[n - 1], log[n]) ELSE kept[n - 1]
             longer == [m \in 0..n |-> IF m = n THEN last ELSE kept[m]]
  <2>1. \A m \in 0..(n - 1) : kept[m] = IF m = 0 THEN <<>>
                       ELSE IF After(c, log[m]) THEN Append(kept[m - 1], log[m])
                       ELSE kept[m - 1]
    BY <1>3
  <2>2. ASSUME NEW m \in 0..n
        PROVE  longer[m] = IF m = 0 THEN <<>>
                           ELSE IF After(c, log[m]) THEN Append(longer[m - 1], log[m])
                           ELSE longer[m - 1]
    <3>1. CASE m = n
      <4>1. longer[n] = last /\ longer[n - 1] = kept[n - 1]
        BY <1>1
      <4> HIDE DEF longer
      <4> QED BY <3>1, <4>1
    <3>2. CASE m \in 1..(n - 1)
      <4>1. longer[m] = kept[m] /\ longer[m - 1] = kept[m - 1]
        BY <3>2, <1>1
      <4> HIDE DEF longer
      <4> QED BY <3>2, <4>1, <2>1
    <3>3. CASE m = 0
      <4>1. longer[m] = kept[m]
        BY <3>3, <1>1
      <4> HIDE DEF longer
      <4> QED BY <3>3, <4>1, <2>1
    <3> QED BY <3>1, <3>2, <3>3, <1>1
  <2>3. longer = [m \in 0..n |-> longer[m]]
    OBVIOUS
  <2> HIDE DEF longer
  <2>4. Solved(n, longer)
    BY <2>2, <2>3
  <2> QED BY <2>4
<1> HIDE DEF Solved
<1>4. ASSUME unsolved # {}
      PROVE  FALSE
  <2>0. unsolved \in SUBSET Nat
    BY <1>1
  <2>1. PICK n \in unsolved : \A m \in unsolved : n <= m
    <3> HIDE DEF unsolved
    <3> QED BY <1>4, <2>0, LeastNatural
  <2>2. n # 0
    BY <1>2, <2>1
  <2>3. n \in 1..Len(log) /\ n - 1 \in 0..Len(log) /\ n - 1 \notin unsolved
    BY <1>1, <2>1, <2>2
  <2>4. PICK kept : Solved(n - 1, kept)
    BY <2>3
  <2> QED BY <1>3, <2>1, <2>3, <2>4
<1>5. \E kept : Solved(Len(log), kept)
  BY <1>1, <1>4
<1> QED BY <1>5 DEF KeptBy, Solved

\* It collects the events that pass the filter, and nothing else.
LEMMA ReplayKeepsWhatIsAfter ==
  ASSUME NEW log \in Seq(Event), NEW c, NEW kept, KeptBy(log, c, kept)
  PROVE  /\ kept[Len(log)] \in Seq(Event)
         /\ \A e : (\E j \in 1..Len(kept[Len(log)]) : kept[Len(log)][j] = e) <=>
                   (\E i \in 1..Len(log) : log[i] = e /\ After(c, e))
<1> DEFINE Holds(n) ==
             /\ kept[n] \in Seq(Event)
             /\ \A e : (\E j \in 1..Len(kept[n]) : kept[n][j] = e) <=>
                       (\E i \in 1..n : log[i] = e /\ After(c, e))
           failing == {n \in 0..Len(log) : ~Holds(n)}
<1>1. Len(log) \in Nat
  OBVIOUS
<1>2. \A n \in 0..Len(log) :
        kept[n] = IF n = 0 THEN <<>>
                  ELSE IF After(c, log[n]) THEN Append(kept[n - 1], log[n])
                  ELSE kept[n - 1]
  BY DEF KeptBy
<1>3. Holds(0)
  <2>1. kept[0] = <<>>
    BY <1>1, <1>2
  <2> QED BY <2>1
<1>4. ASSUME NEW n \in 1..Len(log), Holds(n - 1)
      PROVE  Holds(n)
  <2>1. /\ log[n] \in Event /\ 1..n = 1..(n - 1) \cup {n}
        /\ n \in 0..Len(log) /\ n # 0
    BY <1>1
  <2>2. CASE After(c, log[n])
    <3>1. kept[n] = Append(kept[n - 1], log[n])
      BY <1>2, <2>1, <2>2
    <3>2. /\ kept[n] \in Seq(Event) /\ Len(kept[n]) = Len(kept[n - 1]) + 1
          /\ Len(kept[n - 1]) \in Nat
          /\ \A j \in 1..Len(kept[n - 1]) : kept[n][j] = kept[n - 1][j]
          /\ kept[n][Len(kept[n - 1]) + 1] = log[n]
      BY <1>4, <2>1, <3>1, AppendFacts
    <3>3. 1..Len(kept[n]) = 1..Len(kept[n - 1]) \cup {Len(kept[n - 1]) + 1}
      BY <3>2
    <3>4. ASSUME NEW e
          PROVE  (\E j \in 1..Len(kept[n]) : kept[n][j] = e) <=>
                 (\E i \in 1..n : log[i] = e /\ After(c, e))
      <4>1. (\E j \in 1..Len(kept[n]) : kept[n][j] = e) <=>
            ((\E j \in 1..Len(kept[n - 1]) : kept[n - 1][j] = e) \/ log[n] = e)
        BY <3>2, <3>3
      <4>2. (\E i \in 1..n : log[i] = e /\ After(c, e)) <=>
            ((\E i \in 1..(n - 1) : log[i] = e /\ After(c, e)) \/ log[n] = e)
        BY <2>1, <2>2
      <4> QED BY <1>4, <4>1, <4>2
    <3> QED BY <3>2, <3>4
  <2>3. CASE ~After(c, log[n])
    <3>1. kept[n] = kept[n - 1]
      BY <1>2, <2>1, <2>3
    <3>2. \A e : (\E i \in 1..n : log[i] = e /\ After(c, e)) <=>
                 (\E i \in 1..(n - 1) : log[i] = e /\ After(c, e))
      BY <2>1, <2>3
    <3> QED BY <1>4, <3>1, <3>2
  <2> QED BY <2>2, <2>3
<1> HIDE DEF Holds
<1>5. ASSUME failing # {}
      PROVE  FALSE
  <2>0. failing \in SUBSET Nat
    BY <1>1
  <2>1. PICK n \in failing : \A m \in failing : n <= m
    <3> HIDE DEF failing
    <3> QED BY <1>5, <2>0, LeastNatural
  <2>2. n # 0
    BY <1>3, <2>1
  <2>3. n \in 1..Len(log) /\ n - 1 \in 0..Len(log) /\ n - 1 \notin failing
    BY <1>1, <2>1, <2>2
  <2> QED BY <1>4, <2>1, <2>3
<1>6. Holds(Len(log))
  BY <1>1, <1>5
<1> QED BY <1>6 DEF Holds

LEMMA ReplayFacts ==
  ASSUME LogTypeOK, NEW c
  PROVE  /\ Replay(c) \in Seq(Event)
         /\ \A e : (\E j \in 1..Len(Replay(c)) : Replay(c)[j] = e) <=>
                   (\E i \in 1..Len(events) : events[i] = e /\ After(c, e))
<1> DEFINE kept == CHOOSE f : KeptBy(events, c, f)
<1>1. events \in Seq(Event)
  BY DEF LogTypeOK
<1>2. KeptBy(events, c, kept)
  BY <1>1, ReplayIsDefined
<1>3. Replay(c) = kept[Len(events)]
  BY DEF Replay, KeptBy
<1> HIDE DEF kept
<1> QED BY <1>1, <1>2, <1>3, ReplayKeepsWhatIsAfter

\* The cursor is the id of an event in the log; with unique ids, an event that is
\* appended and not after the cursor then comes after the greater id it names.
ConsumerInv ==
  /\ LogInv
  /\ ConsumerTypeOK
  /\ cursor \in IdsOf(events) \cup {None}
  /\ SkipsOnlyLateIds

LEMMA AppendKeepsConsumer ==
  ASSUME ConsumerInv, NEW e \in Offered, AppendEvent(e), UNCHANGED <<cursor, seen>>
  PROVE  ConsumerInv'
<1>1. /\ LogTypeOK /\ UniqueEventIds /\ Replayable /\ events \in Seq(Event)
      /\ Len(events) \in Nat /\ cursor \in EventId \cup {None}
  BY DEF ConsumerInv, LogInv, LogTypeOK, ConsumerTypeOK
<1>2. e \in Event /\ e.event_id \in EventId
  BY OfferedAssumption DEF Event
<1>3. LogInv'
  BY <1>1, AppendPreservesTypes, AppendPreservesUniqueIds, AppendPreservesReplayable DEF LogInv
<1>4. /\ events' = Append(events, e) /\ Len(events') = Len(events) + 1
      /\ \A i \in 1..Len(events) : events'[i] = events[i]
      /\ events'[Len(events) + 1] = e
      /\ e.event_id \notin IdsOf(events)
  BY <1>1, <1>2, AppendFacts DEF AppendEvent, Accepts, UniqueEventIds
<1>5. cursor' = cursor /\ seen' = seen
  OBVIOUS
<1>6. ConsumerTypeOK'
  BY <1>3, <1>5 DEF ConsumerInv, LogInv, ConsumerTypeOK
<1>7. cursor' \in IdsOf(events') \cup {None}
  BY <1>1, <1>2, <1>4, <1>5, IdsOfAppend DEF ConsumerInv
<1>8. ASSUME NEW j \in 1..Len(events')
      PROVE  \/ After(cursor, events'[j])
             \/ \E i \in 1..Len(seen) : seen[i] = events'[j]
             \/ \E i \in 1..(j - 1) : events'[i].event_id > events'[j].event_id
  <2>1. CASE j \in 1..Len(events)
    <3>1. \/ After(cursor, events[j])
          \/ \E i \in 1..Len(seen) : seen[i] = events[j]
          \/ \E i \in 1..(j - 1) : events[i].event_id > events[j].event_id
      BY <2>1 DEF ConsumerInv, SkipsOnlyLateIds
    <3>2. events'[j] = events[j] /\ \A i \in 1..(j - 1) : events'[i] = events[i]
      BY <1>1, <1>4, <2>1
    <3> QED BY <3>1, <3>2
  <2>2. CASE j = Len(events) + 1 /\ ~After(cursor, e)
    <3>1. cursor # None /\ ~(e.event_id > cursor)
      BY <2>2 DEF After
    <3>2. PICK i \in 1..Len(events) : events[i].event_id = cursor
      BY <3>1 DEF ConsumerInv, IdsOf
    <3>3. cursor \in Nat /\ e.event_id \in Nat /\ e.event_id # cursor
      BY <1>1, <1>2, <1>4, <3>1, <3>2, EventIdAssumption DEF IdsOf
    <3>4. i \in 1..(j - 1) /\ events'[i].event_id > events'[j].event_id
      BY <1>1, <1>4, <2>2, <3>1, <3>2, <3>3
    <3> QED BY <3>4
  <2>3. CASE j = Len(events) + 1 /\ After(cursor, e)
    BY <1>4, <2>3
  <2> QED BY <1>1, <1>4, <2>1, <2>2, <2>3
<1>9. SkipsOnlyLateIds'
  BY <1>5, <1>8 DEF SkipsOnlyLateIds
<1> QED BY <1>3, <1>6, <1>7, <1>9 DEF ConsumerInv

LEMMA PollKeepsConsumer ==
  ASSUME ConsumerInv, Poll
  PROVE  ConsumerInv'
<1> DEFINE batch == Replay(cursor)
<1>1. /\ LogInv /\ LogTypeOK /\ events \in Seq(Event)
      /\ Len(events) \in Nat /\ cursor \in EventId \cup {None} /\ seen \in Seq(Event)
  BY DEF ConsumerInv, LogInv, LogTypeOK, ConsumerTypeOK
<1>2. /\ batch \in Seq(Event)
      /\ \A e : (\E j \in 1..Len(batch) : batch[j] = e) <=>
                (\E i \in 1..Len(events) : events[i] = e /\ After(cursor, e))
  BY <1>1, ReplayFacts
<1>3. /\ seen' = seen \o batch /\ cursor' \in IdsOf(batch)
      /\ events' = events /\ event_ids' = event_ids
  BY DEF Poll, logVars
<1> HIDE DEF batch
<1>4. IdsOf(batch) \subseteq IdsOf(events)
  BY <1>2 DEF IdsOf
<1>5. IdsOf(events) \subseteq EventId
  BY <1>1 DEF LogInv, UniqueEventIds, LogTypeOK
<1>6. LogInv'
  BY <1>1, <1>3 DEF LogInv, LogTypeOK, UniqueEventIds, Replayable
<1>7. /\ seen' \in Seq(Event) /\ Len(seen') = Len(seen) + Len(batch)
      /\ \A i \in 1..Len(seen) : seen'[i] = seen[i]
      /\ \A i \in 1..Len(batch) : seen'[Len(seen) + i] = batch[i]
      /\ Len(seen) \in Nat /\ Len(batch) \in Nat
  BY <1>1, <1>2, <1>3
<1>8. ConsumerTypeOK'
  BY <1>3, <1>4, <1>5, <1>6, <1>7 DEF LogInv, ConsumerTypeOK
<1>9. cursor' \in IdsOf(events') \cup {None}
  BY <1>3, <1>4
<1>10. ASSUME NEW j \in 1..Len(events)
       PROVE  \/ \E i \in 1..Len(seen') : seen'[i] = events[j]
              \/ \E i \in 1..(j - 1) : events[i].event_id > events[j].event_id
  <2>1. CASE After(cursor, events[j])
    <3>1. PICK i \in 1..Len(batch) : batch[i] = events[j]
      BY <1>2, <2>1
    <3>2. Len(seen) + i \in 1..Len(seen') /\ seen'[Len(seen) + i] = events[j]
      BY <1>7, <3>1
    <3> QED BY <3>2
  <2>2. CASE \E i \in 1..Len(seen) : seen[i] = events[j]
    <3>1. PICK i \in 1..Len(seen) : seen[i] = events[j]
      BY <2>2
    <3>2. i \in 1..Len(seen') /\ seen'[i] = events[j]
      BY <1>7, <3>1
    <3> QED BY <3>2
  <2>3. CASE \E i \in 1..(j - 1) : events[i].event_id > events[j].event_id
    BY <2>3
  <2> QED BY <2>1, <2>2, <2>3 DEF ConsumerInv, SkipsOnlyLateIds
<1>11. SkipsOnlyLateIds'
  BY <1>3, <1>10 DEF SkipsOnlyLateIds
<1> QED BY <1>6, <1>8, <1>9, <1>11 DEF ConsumerInv

THEOREM ConsumerInvariant == ConsumerSpec => []ConsumerInv
<1>1. ConsumerInit => ConsumerInv
  BY DEF ConsumerInit, LogInit, ConsumerInv, LogInv, LogTypeOK, UniqueEventIds, Replayable,
         Appendable, IdsOf, ConsumerTypeOK, SkipsOnlyLateIds
<1>2. ConsumerInv /\ [ConsumerNext]_consumerVars => ConsumerInv'
  <2> SUFFICES ASSUME ConsumerInv, [ConsumerNext]_consumerVars
               PROVE  ConsumerInv'
    OBVIOUS
  <2>1. CASE AppendAction
    BY <2>1, AppendKeepsConsumer DEF AppendAction, LogNext
  <2>2. CASE Poll
    BY <2>2, PollKeepsConsumer
  <2>3. CASE UNCHANGED consumerVars
    BY <2>3 DEF consumerVars, ConsumerInv, LogInv, LogTypeOK, UniqueEventIds, Replayable,
                ConsumerTypeOK, SkipsOnlyLateIds
  <2> QED BY <2>1, <2>2, <2>3 DEF ConsumerNext
<1> QED BY <1>1, <1>2, PTL DEF ConsumerSpec

\* What the consumer is given are whole events, and its cursor is an id.
THEOREM ConsumerTypeCorrect == ConsumerSpec => []ConsumerTypeOK
BY ConsumerInvariant, PTL DEF ConsumerInv

\* A consumer that polls whenever it likes misses only events appended after one
\* with a greater id: replay's filter by id loses nothing else.
THEOREM SkippedIdsAreLate == ConsumerSpec => []SkipsOnlyLateIds
BY ConsumerInvariant, PTL DEF ConsumerInv

\* The consumer only reads: the log it follows is any event log, with all that is
\* proved of one.
THEOREM ConsumerOnlyReads == ConsumerSpec => LogSpec
<1>1. ConsumerInit => LogInit
  BY DEF ConsumerInit
<1>2. [ConsumerNext]_consumerVars => [LogNext]_logVars
  BY DEF ConsumerNext, AppendAction, Poll, consumerVars, logVars
<1> QED BY <1>1, <1>2, PTL DEF ConsumerSpec, LogSpec
-----------------------------------------------------------------------------
(* Validation of a slice. *)

\* The last event of a type for a task, as an index; 0 if there is none.
HitsIn(log, type, t) ==
  {i \in 1..Len(log) : log[i].event_type = type /\ log[i].task_id = t}
LastIn(log, type, t) ==
  LET hits == HitsIn(log, type, t)
  IN IF hits = {} THEN 0 ELSE CHOOSE i \in hits : \A j \in hits : j <= i

ChildrenIn(log) == {log[i] : i \in {k \in 1..Len(log) : IsChild(log[k])}}

\* The map holds the last event of its type for each task.
HoldsLast(map, log, type) ==
  \A t \in TaskId :
    map[t] = IF LastIn(log, type, t) = 0 THEN None ELSE log[LastIn(log, type, t)]

TelemetryIn(log) ==
  \A j \in 1..Len(log) : log[j].event_type = "RouteDecisionRecorded" =>
    log[j].payload_schema = "qtom.route_decision.v1" /\ log[j].payload_ref \in RouteRef

MemoryIn(log) ==
  \A j \in 1..Len(log) : log[j].event_type = "MemoryNodeCreated" =>
    \E i \in 1..(j - 1) :
      /\ log[i].event_type = "AgentDecommissioned"
      /\ log[i].event_id = log[j].causation_id
      /\ SameContext(log[j], log[i])

Collected ==
  /\ HoldsLast(completed, events, "TaskCompleted")
  /\ HoldsLast(decommissioned, events, "AgentDecommissioned")
  /\ HoldsLast(integrated, events, "IntegrationRequested")
  /\ Child = ChildrenIn(events)

ReplayInv ==
  /\ LogInv
  /\ TypeOK
  /\ Collected
  /\ TelemetryIn(events)
  /\ MemoryIn(events)
  /\ VerdictFollowsRules

-----------------------------------------------------------------------------
(* The last event of a type. *)

LEMMA LastFacts ==
  ASSUME NEW log \in Seq(Event), NEW type, NEW t
  PROVE  /\ HitsIn(log, type, t) = {} => LastIn(log, type, t) = 0
         /\ HitsIn(log, type, t) # {} =>
              /\ LastIn(log, type, t) \in HitsIn(log, type, t)
              /\ LastIn(log, type, t) # 0
              /\ \A j \in HitsIn(log, type, t) : j <= LastIn(log, type, t)
         /\ LastIn(log, type, t) \in 0..Len(log)
<1> DEFINE hits == HitsIn(log, type, t)
<1>1. Len(log) \in Nat /\ hits \in SUBSET (1..Len(log))
  BY DEF HitsIn
<1>2. hits = {} => LastIn(log, type, t) = 0
  BY DEF LastIn
<1>3. ASSUME hits # {}
      PROVE  LastIn(log, type, t) \in hits /\ \A j \in hits : j <= LastIn(log, type, t)
  <2>1. \E m \in hits : \A j \in hits : j <= m
    BY <1>1, <1>3, GreatestIndex
  <2>2. LastIn(log, type, t) = CHOOSE i \in hits : \A j \in hits : j <= i
    BY <1>3 DEF LastIn
  <2> HIDE DEF hits
  <2> QED BY <2>1, <2>2
<1> HIDE DEF hits
<1>4. CASE hits = {}
  BY <1>1, <1>2, <1>4 DEF hits
<1>5. CASE hits # {}
  <2>1. LastIn(log, type, t) \in 1..Len(log)
    BY <1>1, <1>3, <1>5
  <2> QED BY <1>1, <1>3, <1>5, <2>1 DEF hits
<1> QED BY <1>4, <1>5

\* The last of a type is the appended event or what it was.
LEMMA LastAfterAppend ==
  ASSUME NEW log \in Seq(Event), NEW e \in Event, NEW type, NEW t
  PROVE  LastIn(Append(log, e), type, t) =
           IF e.event_type = type /\ e.task_id = t THEN Len(log) + 1 ELSE LastIn(log, type, t)
<1> DEFINE longer == Append(log, e)
<1>1. /\ longer \in Seq(Event) /\ Len(longer) = Len(log) + 1 /\ Len(log) \in Nat
      /\ \A i \in 1..Len(log) : longer[i] = log[i]
      /\ longer[Len(log) + 1] = e
  BY AppendFacts
<1> HIDE DEF longer
<1>2. CASE e.event_type = type /\ e.task_id = t
  <2>1. Len(log) + 1 \in HitsIn(longer, type, t)
    BY <1>1, <1>2 DEF HitsIn
  <2>2. LastIn(longer, type, t) \in 0..(Len(log) + 1) /\ Len(log) + 1 <= LastIn(longer, type, t)
    BY <1>1, <2>1, LastFacts
  <2>3. LastIn(longer, type, t) = Len(log) + 1
    BY <1>1, <2>2
  <2> QED BY <1>2, <2>3 DEF longer
<1>3. CASE ~(e.event_type = type /\ e.task_id = t)
  <2>1. HitsIn(longer, type, t) = HitsIn(log, type, t)
    BY <1>1, <1>3 DEF HitsIn
  <2>2. LastIn(longer, type, t) = LastIn(log, type, t)
    BY <2>1 DEF LastIn
  <2> QED BY <1>3, <2>2 DEF longer
<1> QED BY <1>2, <1>3

\* A map kept by HashMap::insert holds the last event of its type.
LEMMA KeepHoldsLast ==
  ASSUME NEW log \in Seq(Event), NEW e \in Event, NEW type, NEW map \in ByTask,
         HoldsLast(map, log, type)
  PROVE  Keep(map, e, type) \in ByTask /\ HoldsLast(Keep(map, e, type), Append(log, e), type)
<1> DEFINE longer == Append(log, e)
           map2 == Keep(map, e, type)
<1>1. /\ Len(log) \in Nat /\ \A i \in 1..Len(log) : longer[i] = log[i]
      /\ longer[Len(log) + 1] = e
  BY AppendFacts
<1>2. map2 \in ByTask
  BY DEF Keep, ByTask, Event
<1>3. ASSUME NEW t \in TaskId
      PROVE  map2[t] = IF LastIn(longer, type, t) = 0 THEN None ELSE longer[LastIn(longer, type, t)]
  <2>0. t # None
    BY NoneAssumption
  <2>1. CASE e.event_type = type /\ e.task_id = t
    <3>1. map2[t] = e
      BY <2>0, <2>1 DEF Keep, ByTask
    <3>2. LastIn(longer, type, t) = Len(log) + 1 /\ Len(log) + 1 # 0
      BY <2>1, <1>1, LastAfterAppend
    <3> QED BY <1>1, <3>1, <3>2
  <2>2. CASE ~(e.event_type = type /\ e.task_id = t)
    <3>1. map2[t] = map[t]
      BY <2>2 DEF Keep, ByTask
    <3>2. LastIn(longer, type, t) = LastIn(log, type, t)
      BY <2>2, LastAfterAppend
    <3>3. LastIn(log, type, t) \in 0..Len(log)
      BY LastFacts
    <3>4. map[t] = IF LastIn(log, type, t) = 0 THEN None ELSE log[LastIn(log, type, t)]
      BY DEF HoldsLast
    <3>5. LastIn(log, type, t) # 0 => longer[LastIn(log, type, t)] = log[LastIn(log, type, t)]
      BY <1>1, <3>3
    <3> QED BY <3>1, <3>2, <3>4, <3>5
  <2> QED BY <2>1, <2>2
<1> HIDE DEF map2, longer
<1>4. HoldsLast(map2, longer, type)
  BY <1>3 DEF HoldsLast
<1> QED BY <1>2, <1>4 DEF map2, longer

-----------------------------------------------------------------------------
(* One event of the slice. *)

LEMMA ChildrenOfAppend ==
  ASSUME NEW log \in Seq(Event), NEW e \in Event
  PROVE  ChildrenIn(Append(log, e)) =
           IF IsChild(e) THEN ChildrenIn(log) \cup {e} ELSE ChildrenIn(log)
<1> DEFINE longer == Append(log, e)
<1>1. /\ Len(longer) = Len(log) + 1 /\ Len(log) \in Nat
      /\ \A i \in 1..Len(log) : longer[i] = log[i]
      /\ longer[Len(log) + 1] = e
  BY AppendFacts
<1> HIDE DEF longer
<1>2. 1..Len(longer) = 1..Len(log) \cup {Len(log) + 1}
  BY <1>1
<1>3. \A c : c \in ChildrenIn(longer) <=> c \in ChildrenIn(log) \/ (c = e /\ IsChild(e))
  BY <1>1, <1>2 DEF ChildrenIn
<1>4. ChildrenIn(longer) = IF IsChild(e) THEN ChildrenIn(log) \cup {e} ELSE ChildrenIn(log)
  BY <1>3
<1> QED BY <1>4 DEF longer

LEMMA AdmitKeepsLog ==
  ASSUME ReplayInv, NEW e \in Offered, Admit(e)
  PROVE  /\ LogInv' /\ TypeOK' /\ Collected'
         /\ e \in Event /\ events \in Seq(Event) /\ events' = Append(events, e)
<1>1. LogTypeOK /\ UniqueEventIds /\ Replayable /\ TypeOK /\ Collected /\ events \in Seq(Event)
  BY DEF ReplayInv, LogInv, LogTypeOK
<1>2. e \in Event /\ AppendEvent(e)
  BY OfferedAssumption DEF Admit
<1>3. events' = Append(events, e)
  BY <1>2 DEF AppendEvent
<1>4. LogInv'
  BY <1>1, <1>2, AppendPreservesTypes, AppendPreservesUniqueIds, AppendPreservesReplayable DEF LogInv
<1>5. /\ completed' = Keep(completed, e, "TaskCompleted")
      /\ decommissioned' = Keep(decommissioned, e, "AgentDecommissioned")
      /\ integrated' = Keep(integrated, e, "IntegrationRequested")
      /\ children' = IF IsChild(e) THEN Append(children, e) ELSE children
      /\ verdict' = verdict
  BY DEF Admit
<1>6. /\ completed \in ByTask /\ decommissioned \in ByTask /\ integrated \in ByTask
      /\ children \in Seq(Event)
  BY <1>1 DEF TypeOK
<1>7. /\ HoldsLast(completed', events', "TaskCompleted") /\ completed' \in ByTask
      /\ HoldsLast(decommissioned', events', "AgentDecommissioned") /\ decommissioned' \in ByTask
      /\ HoldsLast(integrated', events', "IntegrationRequested") /\ integrated' \in ByTask
  BY <1>1, <1>2, <1>3, <1>5, <1>6, KeepHoldsLast DEF Collected
<1>8. children' \in Seq(Event)
      /\ Child' = IF IsChild(e) THEN Child \cup {e} ELSE Child
  <2>1. CASE IsChild(e)
    <3>1. /\ children' = Append(children, e) /\ children' \in Seq(Event)
          /\ Len(children') = Len(children) + 1 /\ Len(children) \in Nat
          /\ \A i \in 1..Len(children) : children'[i] = children[i]
          /\ children'[Len(children) + 1] = e
      BY <1>2, <1>5, <1>6, <2>1, AppendFacts
    <3>2. 1..Len(children') = 1..Len(children) \cup {Len(children) + 1}
      BY <3>1
    <3>3. Child' = Child \cup {e}
      BY <3>1, <3>2 DEF Child
    <3> QED BY <2>1, <3>1, <3>3
  <2>2. CASE ~IsChild(e)
    BY <1>5, <1>6, <2>2 DEF Child
  <2> QED BY <2>1, <2>2
<1>9. Child' = ChildrenIn(events')
  BY <1>1, <1>2, <1>3, <1>8, ChildrenOfAppend DEF Collected
<1>10. TypeOK' /\ Collected'
  BY <1>1, <1>4, <1>5, <1>7, <1>8, <1>9 DEF LogInv, TypeOK, Collected
<1> QED BY <1>1, <1>2, <1>3, <1>4, <1>10

\* What was asked of an event when it came holds of the log from then on.
LEMMA AdmitKeepsInv ==
  ASSUME ReplayInv, NEW e \in Offered, Admit(e)
  PROVE  ReplayInv'
<1>1. /\ LogInv' /\ TypeOK' /\ Collected'
      /\ e \in Event /\ events \in Seq(Event) /\ events' = Append(events, e)
  BY AdmitKeepsLog
<1>2. /\ Len(events') = Len(events) + 1 /\ Len(events) \in Nat
      /\ \A i \in 1..Len(events) : events'[i] = events[i]
      /\ events'[Len(events) + 1] = e
  BY <1>1, AppendFacts
<1>3. 1..Len(events') = 1..Len(events) \cup {Len(events) + 1}
  BY <1>2
<1>4. Precheck(e) = "" /\ verdict = "Validating" /\ verdict' = "Validating"
  BY DEF Admit
<1>5. TelemetryIn(events')
  <2>1. e.event_type = "RouteDecisionRecorded" => TelemetryError(e) = ""
    BY <1>4 DEF Precheck
  <2>2. e.event_type = "RouteDecisionRecorded" =>
          e.payload_schema = "qtom.route_decision.v1" /\ e.payload_ref \in RouteRef
    BY <2>1 DEF TelemetryError
  <2>3. TelemetryIn(events)
    BY DEF ReplayInv
  <2> QED BY <1>2, <1>3, <2>2, <2>3 DEF TelemetryIn
<1>6. MemoryIn(events')
  <2>1. ASSUME NEW j \in 1..Len(events), events'[j].event_type = "MemoryNodeCreated"
        PROVE  \E i \in 1..(j - 1) :
                 /\ events'[i].event_type = "AgentDecommissioned"
                 /\ events'[i].event_id = events'[j].causation_id
                 /\ SameContext(events'[j], events'[i])
    <3>1. events'[j] = events[j]
      BY <1>2
    <3>2. PICK i \in 1..(j - 1) :
            /\ events[i].event_type = "AgentDecommissioned"
            /\ events[i].event_id = events[j].causation_id
            /\ SameContext(events[j], events[i])
      BY <2>1, <3>1 DEF ReplayInv, MemoryIn
    <3>3. events'[i] = events[i]
      BY <1>2
    <3> QED BY <3>1, <3>2, <3>3
  <2>2. ASSUME e.event_type = "MemoryNodeCreated"
        PROVE  \E i \in 1..Len(events) :
                 /\ events'[i].event_type = "AgentDecommissioned"
                 /\ events'[i].event_id = e.causation_id
                 /\ SameContext(e, events'[i])
    <3>1. MemoryError(e) = ""
      BY <1>4, <2>2 DEF Precheck
    <3>2. Evidence(e) # {} /\ \A i \in Evidence(e) : SameContext(e, events[i])
      BY <3>1 DEF MemoryError
    <3>3. PICK i \in Evidence(e) : TRUE
      BY <3>2
    <3>4. /\ i \in 1..Len(events) /\ events[i].event_id = e.causation_id
          /\ events[i].event_type = "AgentDecommissioned" /\ SameContext(e, events[i])
      BY <3>2 DEF Evidence, NamedBy, Indices
    <3> QED BY <1>2, <3>4
  <2>3. ASSUME NEW j \in 1..Len(events'), events'[j].event_type = "MemoryNodeCreated"
        PROVE  \E i \in 1..(j - 1) :
                 /\ events'[i].event_type = "AgentDecommissioned"
                 /\ events'[i].event_id = events'[j].causation_id
                 /\ SameContext(events'[j], events'[i])
    <3>1. CASE j \in 1..Len(events)
      BY <2>1, <2>3, <3>1
    <3>2. CASE j = Len(events) + 1
      <4>1. events'[j] = e /\ 1..(j - 1) = 1..Len(events)
        BY <1>2, <3>2
      <4> QED BY <2>2, <2>3, <4>1
    <3> QED BY <1>3, <3>1, <3>2
  <2> QED BY <2>3 DEF MemoryIn
<1>7. VerdictFollowsRules'
  BY <1>4 DEF VerdictFollowsRules
<1> QED BY <1>1, <1>5, <1>6, <1>7 DEF ReplayInv

-----------------------------------------------------------------------------
(* The end of the slice. *)

\* The events of a type and task, by their last.
LEMMA OfTaskHasLast ==
  ASSUME events \in Seq(Event), NEW type, NEW t
  PROVE  /\ OfTask(type, t) = {} <=> LastIn(events, type, t) = 0
         /\ LastIn(events, type, t) # 0 =>
              /\ LastIn(events, type, t) \in Indices
              /\ events[LastIn(events, type, t)] \in OfTask(type, t)
<1> DEFINE hits == HitsIn(events, type, t)
<1>1. OfTask(type, t) = {events[i] : i \in hits}
  BY DEF OfTask, HitsIn, Indices
<1>2. /\ hits = {} => LastIn(events, type, t) = 0
      /\ hits # {} => LastIn(events, type, t) \in hits /\ LastIn(events, type, t) # 0
  BY LastFacts
<1>3. hits \subseteq Indices
  BY DEF HitsIn, Indices
<1> HIDE DEF hits
<1> QED BY <1>1, <1>2, <1>3

\* What a map says of a task is what the log says: there is an event of the type or
\* there is none, and the one kept is one of them.
LEMMA MapTellsLog ==
  ASSUME events \in Seq(Event), NEW map, NEW type, HoldsLast(map, events, type), NEW t \in TaskId
  PROVE  /\ map[t] = None <=> OfTask(type, t) = {}
         /\ map[t] # None => map[t] \in OfTask(type, t)
<1> DEFINE last == LastIn(events, type, t)
<1>1. map[t] = IF last = 0 THEN None ELSE events[last]
  BY DEF HoldsLast
<1>2. /\ OfTask(type, t) = {} <=> last = 0
      /\ last # 0 => last \in Indices /\ events[last] \in OfTask(type, t)
  BY OfTaskHasLast
<1>3. last \in Indices => events[last] # None
  BY NoEventAssumption DEF Indices
<1> HIDE DEF last
<1> QED BY <1>1, <1>2, <1>3

\* The events the final checks are about.
LEMMA CheckedEvents ==
  ASSUME ReplayInv
  PROVE  /\ Child = ChildEvents
         /\ \A c \in ChildEvents : c.parent_task_id \in TaskId
         /\ \A c \in CompletionEvents :
              c.task_id \in TaskId /\ c \in OfTask("TaskCompleted", c.task_id)
         /\ \A t : \A o \in OfTask("TaskCompleted", t) : o \in CompletionEvents /\ o.task_id = t
<1>1. events \in Seq(Event) /\ Replayable /\ Child = ChildrenIn(events)
  BY DEF ReplayInv, LogInv, LogTypeOK, Collected
<1>2. \A i \in Indices : events[i] \in Event /\ Validates(events[i])
  BY <1>1 DEF Indices, Replayable, Appendable, Accepts
<1>3. ChildEvents = ChildrenIn(events)
  BY DEF ChildEvents, ChildrenIn, Indices
<1>4. \A c \in ChildEvents : c.parent_task_id \in TaskId
  BY <1>2 DEF ChildEvents, IsChild, Event
<1>5. \A c \in CompletionEvents :
        c.task_id \in TaskId /\ c \in OfTask("TaskCompleted", c.task_id)
  BY <1>2 DEF CompletionEvents, OfTask, Event, Validates, RequiresTaskId
<1>6. \A t : \A o \in OfTask("TaskCompleted", t) : o \in CompletionEvents /\ o.task_id = t
  BY DEF OfTask, CompletionEvents
<1> QED BY <1>1, <1>3, <1>4, <1>5, <1>6

\* The first two checks.
LEMMA ChildChecks ==
  ASSUME ReplayInv
  PROVE  LET missing == \E c \in Child : integrated[c.parent_task_id] = None
             mismatched == \E c \in Child : ~SameRun(c, integrated[c.parent_task_id]) IN
         /\ missing <=> ~ChildrenAreIntegrated
         /\ ~missing /\ ~mismatched => ChildrenJoinTheirRun
         /\ ~missing /\ mismatched =>
              \E c \in ChildEvents : \E r \in RequestsFor(c) : ~SameRun(c, r)
<1>1. /\ Child = ChildEvents
      /\ events \in Seq(Event) /\ HoldsLast(integrated, events, "IntegrationRequested")
  BY CheckedEvents DEF ReplayInv, LogInv, LogTypeOK, Collected
<1>2. ASSUME NEW c \in ChildEvents
      PROVE  /\ integrated[c.parent_task_id] = None <=> RequestsFor(c) = {}
             /\ integrated[c.parent_task_id] # None => integrated[c.parent_task_id] \in RequestsFor(c)
  <2>1. c.parent_task_id \in TaskId
    BY CheckedEvents
  <2> QED BY <1>1, <2>1, MapTellsLog DEF RequestsFor
<1> QED BY <1>1, <1>2 DEF ChildrenAreIntegrated, ChildrenJoinTheirRun

\* The other two.
LEMMA CompletionChecks ==
  ASSUME ReplayInv
  PROVE  LET left == \E t \in TaskId : completed[t] # None /\ decommissioned[t] = None
             foreign == \E t \in TaskId : /\ completed[t] # None
                                          /\ ~SameRun(completed[t], decommissioned[t]) IN
         /\ left <=> ~CompletedAreDecommissioned
         /\ ~left /\ ~foreign => PacketsMatch
         /\ ~left /\ foreign =>
              \E c \in CompletionEvents : \E d \in PacketsFor(c) : ~SameRun(c, d)
<1>1. /\ events \in Seq(Event) /\ HoldsLast(completed, events, "TaskCompleted")
      /\ HoldsLast(decommissioned, events, "AgentDecommissioned")
  BY DEF ReplayInv, LogInv, LogTypeOK, Collected
<1>2. ASSUME NEW t \in TaskId
      PROVE  /\ completed[t] = None <=> OfTask("TaskCompleted", t) = {}
             /\ completed[t] # None => completed[t] \in OfTask("TaskCompleted", t)
             /\ decommissioned[t] = None <=> OfTask("AgentDecommissioned", t) = {}
             /\ decommissioned[t] # None => decommissioned[t] \in OfTask("AgentDecommissioned", t)
  BY <1>1, MapTellsLog
<1>3. ASSUME NEW c \in CompletionEvents
      PROVE  /\ c.task_id \in TaskId /\ completed[c.task_id] # None
             /\ completed[c.task_id] \in OfTask("TaskCompleted", c.task_id)
             /\ decommissioned[c.task_id] = None <=> PacketsFor(c) = {}
             /\ decommissioned[c.task_id] # None => decommissioned[c.task_id] \in PacketsFor(c)
  <2>1. c.task_id \in TaskId /\ OfTask("TaskCompleted", c.task_id) # {}
    BY CheckedEvents
  <2> QED BY <1>2, <2>1 DEF PacketsFor
<1>4. ASSUME NEW t \in TaskId, completed[t] # None
      PROVE  completed[t] \in CompletionEvents /\ completed[t].task_id = t
  BY <1>2, <1>4, CheckedEvents
<1> QED BY <1>3, <1>4 DEF CompletedAreDecommissioned, PacketsMatch

\* The value of the four checks, by the rules.
LEMMA ChecksFollowRules ==
  ASSUME ReplayInv
  PROVE  /\ FinalChecks \in SliceError \cup {"Valid"}
         /\ FinalChecks \in {"Valid", "MissingTaskDecommission", "MismatchedTaskDecommission"} =>
              ChildrenJoinTheirRun
         /\ FinalChecks = "Valid" => CompletedAreDecommissioned /\ PacketsMatch
         /\ FinalChecks = "MissingTaskIntegration" => ~ChildrenAreIntegrated
         /\ FinalChecks = "MismatchedTaskIntegration" =>
              /\ ChildrenAreIntegrated
              /\ \E c \in ChildEvents : \E r \in RequestsFor(c) : ~SameRun(c, r)
         /\ FinalChecks = "MissingTaskDecommission" => ~CompletedAreDecommissioned
         /\ FinalChecks = "MismatchedTaskDecommission" =>
              /\ CompletedAreDecommissioned
              /\ \E c \in CompletionEvents : \E d \in PacketsFor(c) : ~SameRun(c, d)
<1> DEFINE missing == \E c \in Child : integrated[c.parent_task_id] = None
           mismatched == \E c \in Child : ~SameRun(c, integrated[c.parent_task_id])
           left == \E t \in TaskId : completed[t] # None /\ decommissioned[t] = None
           foreign == \E t \in TaskId : /\ completed[t] # None
                                        /\ ~SameRun(completed[t], decommissioned[t])
           strays == \E c \in ChildEvents : \E r \in RequestsFor(c) : ~SameRun(c, r)
           parts == \E c \in CompletionEvents : \E d \in PacketsFor(c) : ~SameRun(c, d)
<1>1. /\ missing <=> ~ChildrenAreIntegrated
      /\ ~missing /\ ~mismatched => ChildrenJoinTheirRun
      /\ ~missing /\ mismatched => strays
  BY ChildChecks
<1>2. /\ left <=> ~CompletedAreDecommissioned
      /\ ~left /\ ~foreign => PacketsMatch
      /\ ~left /\ foreign => parts
  BY CompletionChecks
<1>3. FinalChecks = IF missing THEN "MissingTaskIntegration"
                    ELSE IF mismatched THEN "MismatchedTaskIntegration"
                    ELSE IF left THEN "MissingTaskDecommission"
                    ELSE IF foreign THEN "MismatchedTaskDecommission"
                    ELSE "Valid"
  BY DEF FinalChecks
<1> HIDE DEF missing, mismatched, left, foreign, strays, parts
<1>4. /\ FinalChecks \in SliceError \cup {"Valid"}
      /\ FinalChecks \in {"Valid", "MissingTaskDecommission", "MismatchedTaskDecommission"} =>
           ChildrenJoinTheirRun
      /\ FinalChecks = "Valid" => CompletedAreDecommissioned /\ PacketsMatch
      /\ FinalChecks = "MissingTaskIntegration" => ~ChildrenAreIntegrated
      /\ FinalChecks = "MismatchedTaskIntegration" => ChildrenAreIntegrated /\ strays
      /\ FinalChecks = "MissingTaskDecommission" => ~CompletedAreDecommissioned
      /\ FinalChecks = "MismatchedTaskDecommission" => CompletedAreDecommissioned /\ parts
  BY <1>1, <1>2, <1>3 DEF SliceError
<1> QED BY <1>4 DEF strays, parts

\* The rules read nothing but the log.
LEMMA RulesReadTheLog ==
  ASSUME UNCHANGED events
  PROVE  /\ ChildEvents' = ChildEvents /\ CompletionEvents' = CompletionEvents
         /\ \A e : RequestsFor(e)' = RequestsFor(e) /\ PacketsFor(e)' = PacketsFor(e)
         /\ ChildrenAreIntegrated' <=> ChildrenAreIntegrated
         /\ ChildrenJoinTheirRun' <=> ChildrenJoinTheirRun
         /\ CompletedAreDecommissioned' <=> CompletedAreDecommissioned
         /\ PacketsMatch' <=> PacketsMatch
<1>1. \A type, t : OfTask(type, t)' = OfTask(type, t)
  BY DEF OfTask, Indices
<1>2. ChildEvents' = ChildEvents /\ CompletionEvents' = CompletionEvents
  BY DEF ChildEvents, CompletionEvents, Indices
<1>3. \A e : RequestsFor(e)' = RequestsFor(e) /\ PacketsFor(e)' = PacketsFor(e)
  BY <1>1 DEF RequestsFor, PacketsFor
<1>4. (ChildrenAreIntegrated' <=> ChildrenAreIntegrated) /\ (ChildrenJoinTheirRun' <=> ChildrenJoinTheirRun)
  BY <1>2, <1>3 DEF ChildrenAreIntegrated, ChildrenJoinTheirRun
<1>5. (CompletedAreDecommissioned' <=> CompletedAreDecommissioned) /\ (PacketsMatch' <=> PacketsMatch)
  BY <1>1, <1>2, <1>3 DEF CompletedAreDecommissioned, PacketsMatch
<1> QED BY <1>2, <1>3, <1>4, <1>5

\* A step that leaves log and maps alone has only its verdict to answer for.
LEMMA SameLogKeepsRest ==
  ASSUME ReplayInv, UNCHANGED <<events, event_ids, collected>>,
         verdict' \in EventError \cup SliceError \cup {"Validating", "Valid"}
  PROVE  LogInv' /\ TypeOK' /\ Collected' /\ TelemetryIn(events)' /\ MemoryIn(events)'
<1>1. /\ events' = events /\ event_ids' = event_ids /\ completed' = completed
      /\ decommissioned' = decommissioned /\ integrated' = integrated /\ children' = children
  BY DEF collected
<1>2. LogInv'
  BY <1>1 DEF ReplayInv, LogInv, LogTypeOK, UniqueEventIds, Replayable
<1>3. TypeOK'
  BY <1>1, <1>2 DEF ReplayInv, LogInv, TypeOK
<1>4. Child' = Child
  BY <1>1 DEF Child
<1>5. Collected'
  BY <1>1, <1>4 DEF ReplayInv, Collected
<1> QED BY <1>1, <1>2, <1>3, <1>5 DEF ReplayInv

LEMMA RejectKeepsInv ==
  ASSUME ReplayInv, NEW e \in Offered, Reject(e)
  PROVE  ReplayInv'
<1>1. UNCHANGED <<events, event_ids, collected>>
  BY DEF Reject
<1>2. verdict' \in EventError
  <2>1. Precheck(e) \in EventError \cup {""}
    BY DEF Precheck, AssignmentError, MemoryError, TelemetryError, ArtifactError, EventError
  <2> QED BY <2>1 DEF Reject, EventVerdict, EventError
<1>3. VerdictFollowsRules'
  BY <1>2 DEF VerdictFollowsRules, EventError
<1> QED BY <1>1, <1>2, <1>3, SameLogKeepsRest DEF ReplayInv

LEMMA FinishKeepsInv ==
  ASSUME ReplayInv, Finish
  PROVE  ReplayInv'
<1>1. UNCHANGED <<events, event_ids, collected>> /\ verdict' = FinalChecks
  BY DEF Finish
<1>2. verdict' \in EventError \cup SliceError \cup {"Validating", "Valid"}
  BY <1>1, ChecksFollowRules
<1>3. UNCHANGED events
  BY <1>1
<1>4. VerdictFollowsRules'
  BY <1>1, <1>3, ChecksFollowRules, RulesReadTheLog DEF VerdictFollowsRules
<1> QED BY <1>1, <1>2, <1>4, SameLogKeepsRest DEF ReplayInv

-----------------------------------------------------------------------------
THEOREM ReplayInvariant == Spec => []ReplayInv
<1>1. Init => ReplayInv
  <2> SUFFICES ASSUME Init PROVE ReplayInv
    OBVIOUS
  <2>1. LogInv
    BY DEF Init, LogInit, LogInv, LogTypeOK, UniqueEventIds, Replayable, Appendable, IdsOf
  <2>2. TypeOK
    BY <2>1 DEF Init, TypeOK, LogInv, ByTask
  <2>3. \A type, t : LastIn(<<>>, type, t) = 0
    BY LastFacts DEF HitsIn, LastIn
  <2>4. Child = {} /\ ChildrenIn(events) = {}
    BY DEF Init, LogInit, Child, ChildrenIn
  <2>5. Collected
    BY <2>3, <2>4 DEF Init, LogInit, Collected, HoldsLast
  <2>6. TelemetryIn(events) /\ MemoryIn(events)
    BY DEF Init, LogInit, TelemetryIn, MemoryIn
  <2>7. VerdictFollowsRules
    BY DEF Init, VerdictFollowsRules
  <2> QED BY <2>1, <2>2, <2>5, <2>6, <2>7 DEF ReplayInv
<1>2. ReplayInv /\ [Next]_vars => ReplayInv'
  <2> SUFFICES ASSUME ReplayInv, [Next]_vars
               PROVE  ReplayInv'
    OBVIOUS
  <2>1. ASSUME NEW e \in Offered, Admit(e)
        PROVE  ReplayInv'
    BY <2>1, AdmitKeepsInv
  <2>2. ASSUME NEW e \in Offered, Reject(e)
        PROVE  ReplayInv'
    BY <2>2, RejectKeepsInv
  <2>3. CASE Finish
    BY <2>3, FinishKeepsInv
  <2>4. CASE UNCHANGED vars
    <3>1. UNCHANGED <<events, event_ids, collected>> /\ verdict' = verdict
      BY <2>4 DEF vars
    <3>2. verdict' \in EventError \cup SliceError \cup {"Validating", "Valid"}
      BY <3>1 DEF ReplayInv, TypeOK
    <3>3. UNCHANGED events
      BY <3>1
    <3>4. VerdictFollowsRules
      BY DEF ReplayInv
    <3>5. VerdictFollowsRules'
      BY <3>1, <3>3, <3>4, RulesReadTheLog DEF VerdictFollowsRules
    <3> QED BY <3>1, <3>2, <3>5, SameLogKeepsRest DEF ReplayInv
  <2> QED BY <2>1, <2>2, <2>3, <2>4 DEF Next
<1> QED BY <1>1, <1>2, PTL DEF Spec

\* The log, the maps and the verdict of the pass are well-typed: a map holds
\* whole events under task ids that occur.
THEOREM ReplayTypeCorrect == Spec => []TypeOK
<1>1. ReplayInv => TypeOK
  BY DEF ReplayInv
<1> QED BY <1>1, ReplayInvariant, PTL

\* At the end of a slice of any length validate_events misses nothing: what it calls
\* valid has an integration of its run for every child and a packet of its run for a
\* completion of every completed task, and what it refuses lacks what it names.
THEOREM VerdictIsRight == Spec => []VerdictFollowsRules
<1>1. ReplayInv => VerdictFollowsRules
  BY DEF ReplayInv
<1> QED BY <1>1, ReplayInvariant, PTL

-----------------------------------------------------------------------------
(* The rules on one event. *)

\* With unique ids an event has one cause at most.
LEMMA OneCause ==
  ASSUME events \in Seq(Event), UniqueEventIds, NEW j \in 1..Len(events), NEW i \in 1..(j - 1),
         events[i].event_id = events[j].causation_id
  PROVE  Causes(events, j) = {events[i]}
<1>1. Len(events) \in Nat /\ \A k \in 1..(j - 1) : k \in 1..Len(events)
  OBVIOUS
<1>2. \A k \in 1..(j - 1) : events[k].event_id = events[j].causation_id => k = i
  BY <1>1 DEF UniqueEventIds
<1> QED BY <1>2 DEF Causes

\* What passed breaks no rule.
LEMMA PassedKeepRules ==
  ASSUME ReplayInv, NEW error \in EventError
  PROVE  RuleBehind(error, events)
<1>1. /\ events \in Seq(Event) /\ UniqueEventIds /\ Replayable /\ MemoryIn(events)
      /\ TelemetryIn(events) /\ LogTypeOK
  BY DEF ReplayInv, LogInv, LogTypeOK
<1>2. CauseBeforeEffect
  BY <1>1, ReplayableIsCausal
<1>3. ASSUME NEW j \in OfType(events, "TaskAssigned")
      PROVE  /\ Causes(events, j) # {}
             /\ \A c \in Causes(events, j) : SameContext(events[j], c)
  <2>1. j \in 1..Len(events) /\ events[j].event_type = "TaskAssigned"
    BY DEF OfType
  <2>2. PICK i \in 1..(j - 1) : IsCause(events, i, events[j])
    BY <1>2, <2>1 DEF CauseBeforeEffect, RequiredCause
  <2>3. events[i].event_id = events[j].causation_id /\ SameContext(events[j], events[i])
    BY <2>1, <2>2 DEF IsCause, AgreesWithCause
  <2>4. Causes(events, j) = {events[i]}
    BY <1>1, <2>1, <2>3, OneCause
  <2> QED BY <2>3, <2>4
<1>4. ASSUME NEW j \in OfType(events, "MemoryNodeCreated")
      PROVE  /\ \E c \in Causes(events, j) : c.event_type = "AgentDecommissioned"
             /\ \A c \in Causes(events, j) : SameContext(events[j], c)
  <2>1. j \in 1..Len(events) /\ events[j].event_type = "MemoryNodeCreated"
    BY DEF OfType
  <2>2. PICK i \in 1..(j - 1) : /\ events[i].event_type = "AgentDecommissioned"
                                /\ events[i].event_id = events[j].causation_id
                                /\ SameContext(events[j], events[i])
    BY <1>1, <2>1 DEF MemoryIn
  <2>3. Causes(events, j) = {events[i]}
    BY <1>1, <2>1, <2>2, OneCause
  <2> QED BY <2>2, <2>3
<1>5. \A j \in OfType(events, "RouteDecisionRecorded") :
        events[j].payload_schema = "qtom.route_decision.v1" /\ events[j].payload_ref \in RouteRef
  BY <1>1 DEF OfType, TelemetryIn
<1>6. ASSUME NEW j \in OfType(events, "ArtifactReady")
      PROVE  \A c \in Causes(events, j) : AgreesWithCause(events[j], c)
  <2>1. j \in 1..Len(events) /\ events[j].event_type = "ArtifactReady"
    BY DEF OfType
  <2>2. PICK i \in 1..(j - 1) : IsCause(events, i, events[j])
    BY <1>2, <2>1 DEF CauseBeforeEffect, RequiredCause
  <2>3. Causes(events, j) = {events[i]}
    BY <1>1, <2>1, <2>2, OneCause DEF IsCause
  <2> QED BY <2>2, <2>3 DEF IsCause
<1>7. Appendable(events)
  BY <1>1 DEF Replayable
<1> QED BY <1>3, <1>4, <1>5, <1>6, <1>7 DEF RuleBehind, EventError

\* With the event that is refused, the slice breaks the rule that is named.
LEMMA RefusedBreakRule ==
  ASSUME ReplayInv, NEW e \in Offered, ~Admits(e)
  PROVE  ~RuleBehind(EventVerdict(e), Append(events, e))
<1> DEFINE s == Append(events, e)
           n == Len(events) + 1
<1>1. /\ e \in Event /\ events \in Seq(Event) /\ Len(events) \in Nat
      /\ event_ids = IdsOf(events)
  BY OfferedAssumption DEF ReplayInv, LogInv, LogTypeOK, UniqueEventIds
<1>2. /\ Len(s) = n /\ s[n] = e /\ \A i \in 1..Len(events) : s[i] = events[i]
      /\ n \in 1..Len(s) /\ 1..(n - 1) = Indices
  BY <1>1, AppendFacts DEF Indices
<1>3. SubSeq(s, 1, n - 1) = events
  BY <1>1, <1>2, PrefixOfAppend, WholePrefix
<1> HIDE DEF s, n
<1>4. Causes(s, n) = {events[i] : i \in NamedBy(e)}
  BY <1>2 DEF Causes, NamedBy, Indices
<1>5. n \in OfType(s, e.event_type)
  BY <1>2 DEF OfType
<1>6. CASE Precheck(e) = ""
  <2>1. EventVerdict(e) = "RefusedByAppend" /\ ~Accepts(events, IdsOf(events), e)
    BY <1>1, <1>6 DEF Admits, EventVerdict
  <2>2. ~Appendable(s)
    BY <1>2, <1>3, <2>1 DEF Appendable
  <2> QED BY <2>1, <2>2 DEF RuleBehind, s
<1>7. CASE Precheck(e) # ""
  <2>1. EventVerdict(e) = Precheck(e)
    BY <1>7 DEF EventVerdict
  <2>2. CASE e.event_type = "TaskAssigned"
    <3>1. Precheck(e) = AssignmentError(e) /\ e.causation_id # None
      BY <1>7, <2>2 DEF Precheck, AssignmentError
    <3>2. CASE NamedBy(e) = {}
      <4>1. Precheck(e) = "MissingTaskRouteDecision" /\ Causes(s, n) = {}
        BY <1>4, <3>1, <3>2 DEF AssignmentError
      <4> QED BY <1>2, <1>5, <2>1, <2>2, <3>1, <4>1 DEF RuleBehind, s
    <3>3. CASE NamedBy(e) # {}
      <4>1. /\ Precheck(e) = "MismatchedRouteDecision"
            /\ \E i \in NamedBy(e) : ~SameContext(e, events[i])
        BY <1>7, <3>1, <3>3 DEF AssignmentError
      <4> QED BY <1>2, <1>4, <1>5, <2>1, <2>2, <4>1 DEF RuleBehind, s
    <3> QED BY <3>2, <3>3
  <2>3. CASE e.event_type = "MemoryNodeCreated"
    <3>1. Precheck(e) = MemoryError(e)
      BY <2>3 DEF Precheck
    <3>2. CASE Evidence(e) = {}
      <4>1. /\ Precheck(e) = "MissingMemoryEvidence"
            /\ \A c \in Causes(s, n) : c.event_type # "AgentDecommissioned"
        BY <1>4, <3>1, <3>2 DEF MemoryError, Evidence
      <4> QED BY <1>2, <1>5, <2>1, <2>3, <4>1 DEF RuleBehind, s
    <3>3. CASE Evidence(e) # {}
      <4>1. /\ Precheck(e) = "MismatchedMemoryEvidence"
            /\ \E i \in Evidence(e) : ~SameContext(e, events[i])
        BY <1>7, <3>1, <3>3 DEF MemoryError
      <4>2. \E c \in Causes(s, n) : c.event_type = "AgentDecommissioned" /\ ~SameContext(s[n], c)
        BY <1>2, <1>4, <4>1 DEF Evidence
      <4> QED BY <1>5, <2>1, <2>3, <4>1, <4>2 DEF RuleBehind, s
    <3> QED BY <3>2, <3>3
  <2>4. CASE e.event_type = "RouteDecisionRecorded"
    <3>1. /\ Precheck(e) = "InvalidRouteDecisionTelemetry"
          /\ ~(e.payload_schema = "qtom.route_decision.v1" /\ e.payload_ref \in RouteRef)
      BY <1>7, <2>4 DEF Precheck, TelemetryError
    <3> QED BY <1>2, <1>5, <2>1, <2>4, <3>1 DEF RuleBehind, s
  <2>5. CASE e.event_type = "ArtifactReady"
    <3>1. /\ Precheck(e) = "MismatchedArtifactReady"
          /\ \E i \in NamedBy(e) :
               events[i].event_type = "ArtifactDeclared" /\ ~AgreesWithCause(e, events[i])
      BY <1>7, <2>5 DEF Precheck, ArtifactError
    <3>2. \E c \in Causes(s, n) : c.event_type = "ArtifactDeclared" /\ ~AgreesWithCause(s[n], c)
      BY <1>2, <1>4, <3>1
    <3> QED BY <1>5, <2>1, <2>5, <3>1, <3>2 DEF RuleBehind, s
  <2> QED BY <1>7, <2>2, <2>3, <2>4, <2>5 DEF Precheck
<1> QED BY <1>6, <1>7

\* validate_events refuses no event without need: the slice with it breaks the rule
\* its error names; and an event that passes breaks none, now or later.
THEOREM RefusalsAreRight == Spec => []RefusalsNameRules
<1>1. ReplayInv => RefusalsNameRules
  BY PassedKeepRules, RefusedBreakRule DEF RefusalsNameRules
<1> QED BY <1>1, ReplayInvariant, PTL

\* No assignment passes without an earlier route decision, of its own task, with
\* the telemetry of a router: append checked the cause, the pass its payload.
THEOREM AssignmentsExplained == Spec => []AssignmentsAreExplained
<1>1. ReplayInv => AssignmentsAreExplained
  <2> SUFFICES ASSUME ReplayInv, NEW j \in 1..Len(events),
                      events[j].event_type = "TaskAssigned"
               PROVE  \E i \in 1..(j - 1) :
                        /\ events[i].event_type = "RouteDecisionRecorded"
                        /\ events[i].event_id = events[j].causation_id
                        /\ SameContext(events[j], events[i])
                        /\ events[i].payload_schema = "qtom.route_decision.v1"
                        /\ events[i].payload_ref \in RouteRef
    BY DEF AssignmentsAreExplained, Indices
  <2>1. CauseBeforeEffect /\ Len(events) \in Nat
    BY ReplayableIsCausal DEF ReplayInv, LogInv, LogTypeOK
  <2>2. PICK i \in 1..(j - 1) : IsCause(events, i, events[j])
    BY <2>1 DEF CauseBeforeEffect, RequiredCause
  <2>3. /\ events[i].event_type = "RouteDecisionRecorded"
        /\ events[i].event_id = events[j].causation_id
        /\ SameContext(events[j], events[i])
    BY <2>2 DEF IsCause, RequiredCause, AgreesWithCause
  <2>4. i \in 1..Len(events)
    BY <2>1
  <2>5. events[i].payload_schema = "qtom.route_decision.v1" /\ events[i].payload_ref \in RouteRef
    BY <2>3, <2>4 DEF ReplayInv, TelemetryIn
  <2> QED BY <2>3, <2>5
<1> QED BY <1>1, ReplayInvariant, PTL

-----------------------------------------------------------------------------
(* What the diagrams show of a log that validates. *)

\* Each event of the type has, earlier in the log, one of the cause's type that it
\* names and shares a task with.
CausesBefore(type, cause_type) ==
  \A j \in Indices : events[j].event_type = type =>
    \E i \in 1..(j - 1) : /\ events[i].event_type = cause_type
                          /\ events[i].event_id = events[j].causation_id
                          /\ events[i].task_id = events[j].task_id

LEMMA LinesAreElements ==
  \A text : LinesOf(text) = ElementsOf(text)
BY DEF LinesOf, ElementsOf

\* An event's place is where its id is.
LEMMA PositionOfId ==
  ASSUME UniqueEventIds, NEW i \in Indices
  PROVE  Position(events[i].event_id) = i
<1> DEFINE p == Position(events[i].event_id)
<1>1. p \in Indices /\ events[p].event_id = events[i].event_id
  BY DEF Position
<1> HIDE DEF p
<1>2. p = i
  BY <1>1 DEF UniqueEventIds, Indices
<1> QED BY <1>2 DEF p

LEMMA EventsAreTyped ==
  ASSUME events \in Seq(Event)
  PROVE  /\ Len(events) \in Nat
         /\ \A i \in Indices : /\ i \in Nat /\ events[i] \in Event /\ events[i].event_id \in EventId
                               /\ events[i].task_id \in TaskId \cup {None}
<1>1. Len(events) \in Nat /\ \A i \in Indices : i \in Nat /\ events[i] \in Event
  BY DEF Indices
<1>2. \A e \in Event : e.event_id \in EventId /\ e.task_id \in TaskId \cup {None}
  BY DEF Event
<1> QED BY <1>1, <1>2

\* The way from the task over the cause to the event that the cause led to last.
LEMMA TraceIsTraced ==
  ASSUME events \in Seq(Event), NEW type, NEW name \in NodeName,
         NEW next_type, NEW next_name \in NodeName, NEW with_agent \in BOOLEAN,
         CausesBefore(next_type, type)
  PROVE  Traced(Trace(events, type, name, next_type, next_name, with_agent),
                next_type, next_name, name)
<1> DEFINE text == Trace(events, type, name, next_type, next_name, with_agent)
<1> SUFFICES ASSUME NEW j \in Indices, events[j].event_type = next_type,
                    events[j].task_id # None, ~Replaced(j)
             PROVE  { <<Task(events[j].task_id), <<name, events[j].causation_id>>>>,
                      <<<<name, events[j].causation_id>>, <<next_name, events[j].event_id>>>> }
                      \subseteq LinesOf(text)
  BY DEF Traced
<1> DEFINE t == Task(events[j].task_id)
           n == <<name, events[j].causation_id>>
           m == <<next_name, events[j].event_id>>
<1>1. PICK i \in 1..(j - 1) : /\ events[i].event_type = type
                              /\ events[i].event_id = events[j].causation_id
                              /\ events[i].task_id = events[j].task_id
  BY DEF CausesBefore
<1>2. i \in Indices /\ events[i] \in Event /\ events[j] \in Event /\ j \in 1..Len(events)
  <2>1. i \in Indices
    BY <1>1, EventsAreTyped DEF Indices
  <2> QED BY <2>1, EventsAreTyped DEF Indices
<1>3. LastAt(CausedBy(events, next_type, events[i].event_id), j)
  <2>1. j \in CausedBy(events, next_type, events[i].event_id)
    BY <1>1, <1>2 DEF CausedBy
  <2>2. ASSUME NEW k \in CausedBy(events, next_type, events[i].event_id), ~(k <= j)
        PROVE  FALSE
    <3>1. /\ k \in 1..Len(events) /\ events[k].event_type = next_type
          /\ events[k].causation_id = events[j].causation_id
      BY <1>1, <2>2 DEF CausedBy
    <3>2. k \in (j + 1)..Len(events)
      BY <2>2, <3>1, EventsAreTyped DEF Indices
    <3> QED BY <3>1, <3>2 DEF Replaced
  <2> QED BY <2>1, <2>2 DEF LastAt
<1>4. <<n, m>> \in ElementsOf(Caused(n, events[j], next_name, with_agent)) /\ n \in Node
  <2>1. n = <<name, events[i].event_id>>
    BY <1>1
  <2>2. n \in Node
    BY <1>2, <2>1, NodeFacts
  <2> HIDE DEF n
  <2> QED BY <1>2, <2>2, CausedElements
<1> DEFINE own == TraceOf(events, events[i], type, name, next_type, next_name, with_agent)
<1>5. <<t, n>> \in ElementsOf(own) /\ <<n, m>> \in ElementsOf(own)
  <2>1. \A l : l \in ElementsOf(own) <=>
                 /\ events[i].event_type = type /\ events[i].task_id # None
                 /\ \/ l \in {<<t>>, <<n>>, <<t, n>>}
                    \/ \E k \in 1..Len(events) :
                         /\ LastAt(CausedBy(events, next_type, events[i].event_id), k)
                         /\ l \in ElementsOf(Caused(n, events[k], next_name, with_agent))
    BY <1>1, <1>2, TraceOfElements
  <2> HIDE DEF own, n, t, m
  <2> QED BY <1>1, <1>2, <1>3, <1>4, <2>1
<1>6. ElementsOf(own) \subseteq ElementsOf(text)
  <2> HIDE DEF own, text
  <2>1. \A l : l \in ElementsOf(own) => l \in ElementsOf(text)
    BY <1>2, TraceElements DEF own, text, Indices
  <2> QED BY <2>1
<1> HIDE DEF text, own, n, t, m
<1>7. {<<t, n>>, <<n, m>>} \subseteq LinesOf(text)
  BY <1>5, <1>6, LinesAreElements
<1> QED BY <1>7 DEF n, t, m

\* The edge to an event that was caused comes from its cause.
LEMMA TraceIsForward ==
  ASSUME events \in Seq(Event), UniqueEventIds, NEW type, NEW name \in NodeName,
         NEW next_type, NEW next_name \in NodeName \ {name, "agent"}, NEW with_agent \in BOOLEAN,
         CausesBefore(next_type, type)
  PROVE  Forward(Trace(events, type, name, next_type, next_name, with_agent), {next_name})
<1> DEFINE text == Trace(events, type, name, next_type, next_name, with_agent)
<1> SUFFICES ASSUME NEW l \in ElementsOf(text), Len(l) = 2, l[2][1] = next_name
             PROVE  Position(l[1][2]) < Position(l[2][2])
  BY LinesAreElements DEF Forward
<1>1. PICK i \in Indices :
        l \in ElementsOf(TraceOf(events, events[i], type, name, next_type, next_name, with_agent))
  BY TraceElements DEF Indices
<1> DEFINE t == Task(events[i].task_id)
           n == <<name, events[i].event_id>>
<1>2. \/ l \in {<<t>>, <<n>>, <<t, n>>}
      \/ \E k \in 1..Len(events) :
           /\ LastAt(CausedBy(events, next_type, events[i].event_id), k)
           /\ l \in ElementsOf(Caused(n, events[k], next_name, with_agent))
  BY <1>1, EventsAreTyped, TraceOfElements
<1>3. \A a, b : Len(<<a>>) = 1 /\ Len(<<a, b>>) = 2 /\ <<a, b>>[1] = a /\ <<a, b>>[2] = b
  OBVIOUS
<1>4. n[1] = name /\ n[2] = events[i].event_id /\ n \in Node
  BY EventsAreTyped, NodeFacts
<1>5. l \notin {<<t>>, <<n>>, <<t, n>>}
  <2> HIDE DEF t, n
  <2>1. \A a : l # <<a>>
    <3>1. \A a : Len(<<a>>) # 2
      OBVIOUS
    <3> QED BY <3>1, Zenon
  <2>2. l # <<t, n>>
    BY <1>3, <1>4
  <2>3. l # <<t>> /\ l # <<n>>
    BY <2>1
  <2> QED BY <2>2, <2>3
<1>6. PICK k \in Indices : /\ LastAt(CausedBy(events, next_type, events[i].event_id), k)
                           /\ l \in ElementsOf(Caused(n, events[k], next_name, with_agent))
  <2> HIDE DEF t, n
  <2> QED BY <1>2, <1>5 DEF Indices
<1> DEFINE m == <<next_name, events[k].event_id>>
           agent == <<"agent", events[k].event_id>>
<1>7. l \in {<<m>>, <<n, m>>, <<agent>>, <<m, agent>>}
  <2> HIDE DEF n
  <2>1. ElementsOf(Caused(n, events[k], next_name, with_agent)) =
          {<<m>>, <<n, m>>}
            \cup IF with_agent /\ events[k].has_agent THEN {<<agent>>, <<m, agent>>} ELSE {}
    BY <1>4, EventsAreTyped, CausedElements
  <2> HIDE DEF m, agent
  <2> QED BY <1>6, <2>1
<1>8. l = <<n, m>>
  <2>1. agent[1] = "agent"
    OBVIOUS
  <2> HIDE DEF m, n, agent
  <2>2. l # <<m>> /\ l # <<agent>>
    BY <1>3
  <2>3. l # <<m, agent>>
    BY <1>3, <2>1
  <2> QED BY <1>7, <2>2, <2>3
<1>9. l[1] = n /\ l[2] = m
  <2> HIDE DEF m, n
  <2> QED BY <1>3, <1>8
<1>10. l[1][2] = events[i].event_id /\ l[2][2] = events[k].event_id
  BY <1>9
<1>11. events[k].event_type = next_type /\ events[k].causation_id = events[i].event_id
  BY <1>6 DEF LastAt, CausedBy
<1>12. PICK c \in 1..(k - 1) : events[c].event_id = events[k].causation_id
  BY <1>11 DEF CausesBefore
<1>13. c \in Indices /\ k \in Nat
  BY <1>12, EventsAreTyped DEF Indices
<1>14. c = i
  BY <1>11, <1>12, <1>13 DEF UniqueEventIds, Indices
<1>15. i < k
  BY <1>12, <1>13, <1>14
<1> QED BY <1>10, <1>15, PositionOfId

\* The edge from the cause, if it is a topology event, to a topology event.
LEMMA TopologyEdges ==
  ASSUME events \in Seq(Event), UniqueEventIds
  PROVE  \A i, j \in Indices :
           /\ events[i].event_type \in TopologyType /\ events[j].event_type \in TopologyType
           /\ events[i].event_id = events[j].causation_id
           => <<TopologyNode(events[i]), TopologyNode(events[j])>>
                \in ElementsOf(TopologyGovernance(events))
<1> SUFFICES ASSUME NEW i \in Indices, NEW j \in Indices,
                    events[i].event_type \in TopologyType, events[j].event_type \in TopologyType,
                    events[i].event_id = events[j].causation_id
             PROVE  <<TopologyNode(events[i]), TopologyNode(events[j])>>
                      \in ElementsOf(TopologyGovernance(events))
  OBVIOUS
<1>1. TopologyCauses(events, events[j]) = {i}
  BY DEF TopologyCauses, Indices, UniqueEventIds
<1>2. LastAt(TopologyCauses(events, events[j]), i)
  BY <1>1, EventsAreTyped DEF LastAt
<1>3. <<TopologyNode(events[i]), TopologyNode(events[j])>> \in ElementsOf(TopologyOf(events, events[j]))
  <2>1. i \in 1..Len(events) /\ events[j] \in Event
    BY EventsAreTyped DEF Indices
  <2> QED BY <1>2, <2>1, TopologyOfElements
<1> QED BY <1>3, TopologyElements DEF Indices

LEMMA RollbacksAreTraced ==
  ASSUME events \in Seq(Event), UniqueEventIds, RollbackTracesToProposal
  PROVE  RollbacksTraced(TopologyGovernance(events))
<1> DEFINE text == TopologyGovernance(events)
<1> SUFFICES ASSUME NEW k \in Indices, events[k].event_type = "TopologyRolledBack"
             PROVE  \E i, j \in Indices :
                      { <<<<"TopologyProposed", events[i].event_id>>,
                          <<"TopologyCommitted", events[j].event_id>>>>,
                        <<<<"TopologyCommitted", events[j].event_id>>,
                          <<"TopologyRolledBack", events[k].event_id>>>> }
                        \subseteq LinesOf(text)
  BY DEF RollbacksTraced
<1>1. PICK i \in Indices, j \in Indices :
        /\ events[j].event_type = "TopologyCommitted"
        /\ events[j].event_id = events[k].causation_id
        /\ events[i].event_type = "TopologyProposed"
        /\ events[i].event_id = events[j].causation_id
  BY DEF RollbackTracesToProposal, Indices
<1>2. /\ events[i].event_type \in TopologyType /\ events[j].event_type \in TopologyType
      /\ events[k].event_type \in TopologyType
  BY <1>1 DEF TopologyType
<1>3. /\ <<TopologyNode(events[i]), TopologyNode(events[j])>> \in ElementsOf(text)
      /\ <<TopologyNode(events[j]), TopologyNode(events[k])>> \in ElementsOf(text)
  <2> HIDE DEF text
  <2> QED BY <1>1, <1>2, TopologyEdges DEF text
<1>4. /\ TopologyNode(events[i]) = <<"TopologyProposed", events[i].event_id>>
      /\ TopologyNode(events[j]) = <<"TopologyCommitted", events[j].event_id>>
      /\ TopologyNode(events[k]) = <<"TopologyRolledBack", events[k].event_id>>
  BY <1>1 DEF TopologyNode
<1> HIDE DEF text
<1>5. { <<TopologyNode(events[i]), TopologyNode(events[j])>>,
        <<TopologyNode(events[j]), TopologyNode(events[k])>> } \subseteq LinesOf(text)
  BY <1>3, LinesAreElements
<1> QED BY <1>4, <1>5

LEMMA TopologyIsForward ==
  ASSUME events \in Seq(Event), UniqueEventIds, CauseBeforeEffect
  PROVE  Forward(TopologyGovernance(events), TopologyType \ {"TopologyProposed"})
<1> DEFINE text == TopologyGovernance(events)
<1> SUFFICES ASSUME NEW l \in ElementsOf(text), Len(l) = 2,
                    l[2][1] \in TopologyType \ {"TopologyProposed"}
             PROVE  Position(l[1][2]) < Position(l[2][2])
  BY LinesAreElements DEF Forward
<1>1. PICK j \in Indices : l \in ElementsOf(TopologyOf(events, events[j]))
  BY TopologyElements DEF Indices
<1>2. \/ l = <<TopologyNode(events[j])>>
      \/ \E i \in Indices : /\ LastAt(TopologyCauses(events, events[j]), i)
                            /\ l = <<TopologyNode(events[i]), TopologyNode(events[j])>>
  BY <1>1, EventsAreTyped, TopologyOfElements DEF Indices
<1>3. l # <<TopologyNode(events[j])>>
  <2>1. \A a : Len(<<a>>) # 2
    OBVIOUS
  <2> QED BY <2>1, Zenon
<1>4. PICK i \in Indices : /\ LastAt(TopologyCauses(events, events[j]), i)
                           /\ l = <<TopologyNode(events[i]), TopologyNode(events[j])>>
  BY <1>2, <1>3
<1>5. l[1] = TopologyNode(events[i]) /\ l[2] = TopologyNode(events[j])
  BY <1>4
<1>6. /\ l[1][2] = events[i].event_id /\ l[2][2] = events[j].event_id
      /\ l[2][1] = events[j].event_type
  BY <1>5 DEF TopologyNode
<1>7. events[j].event_type \in DOMAIN RequiredCause
  BY <1>6 DEF TopologyType, RequiredCause
<1>8. PICK c \in 1..(j - 1) : events[c].event_id = events[j].causation_id
  BY <1>7 DEF CauseBeforeEffect, IsCause, Indices
<1>9. events[i].event_id = events[j].causation_id
  BY <1>4 DEF LastAt, TopologyCauses
<1>10. c \in Indices /\ c < j
  BY <1>8, EventsAreTyped DEF Indices
<1>11. c = i
  BY <1>8, <1>9, <1>10 DEF UniqueEventIds, Indices
<1> QED BY <1>6, <1>10, <1>11, PositionOfId

\* A child whose parent's integration was asked for is drawn into it.
LEMMA ChildrenAreDrawn ==
  ASSUME events \in Seq(Event), Replayable, ChildrenAreIntegrated,
         NEW text \in TaskDependencyTexts(events), NEW c \in ChildrenIn(events)
  PROVE  <<Task(c.task_id), <<"integration", c.parent_task_id>>>> \in LinesOf(text)
<1>1. PICK i \in Indices : c = events[i] /\ IsChild(events[i])
  BY DEF ChildrenIn, Indices
<1> DEFINE p == c.parent_task_id
           edge == <<Task(c.task_id), <<"integration", p>>>>
<1>2. c \in Event /\ Validates(c) /\ c.event_type = "TaskCreated" /\ p # None
  BY <1>1, EventsAreTyped DEF Replayable, Appendable, Accepts, Indices, IsChild
<1>3. c.task_id # None /\ p \in TaskId
  BY <1>2 DEF Validates, RequiresTaskId, Event
<1>4. OfTask("IntegrationRequested", p) # {}
  BY <1>1 DEF ChildrenAreIntegrated, ChildEvents, RequestsFor
<1>5. PICK r \in Indices : events[r].event_type = "IntegrationRequested" /\ events[r].task_id = p
  <2> HIDE DEF p
  <2> QED BY <1>4 DEF OfTask
<1>6. p \in IntegrationParents(events)
  <2> HIDE DEF p
  <2> QED BY <1>2, <1>5 DEF IntegrationParents, Indices
<1>7. IsChildOf(events[i], p)
  BY <1>1, <1>2, <1>3 DEF IsChildOf
<1>8. edge \in ElementsOf(IntegrationOf(events, p))
  BY <1>1, <1>3, <1>7, IntegrationOfElements DEF Indices
<1> HIDE DEF edge, p
<1>9. edge \in ElementsOf(text)
  BY <1>6, <1>8, TaskDependencyElements
<1> QED BY <1>9, LinesAreElements DEF edge, p

\* A log that validates has its causes where the diagrams look for them.
LEMMA CausesAreBefore ==
  ASSUME ReplayInv
  PROVE  /\ events \in Seq(Event) /\ UniqueEventIds /\ CauseBeforeEffect /\ Replayable
         /\ RollbackTracesToProposal
         /\ CausesBefore("TaskAssigned", "RouteDecisionRecorded")
         /\ CausesBefore("ArtifactReady", "ArtifactDeclared")
         /\ CausesBefore("MemoryNodeCreated", "AgentDecommissioned")
<1>1. /\ events \in Seq(Event) /\ LogTypeOK /\ UniqueEventIds /\ Replayable /\ MemoryIn(events)
  BY DEF ReplayInv, LogInv, LogTypeOK
<1>2. CauseBeforeEffect
  BY <1>1, ReplayableIsCausal
<1>3. RollbackTracesToProposal
  BY <1>1, <1>2, CausalChainOfRollback
<1>4. CausesBefore("TaskAssigned", "RouteDecisionRecorded")
  BY <1>2 DEF CauseBeforeEffect, CausesBefore, IsCause, AgreesWithCause, SameContext,
              RequiredCause, Indices
<1>5. CausesBefore("ArtifactReady", "ArtifactDeclared")
  BY <1>2 DEF CauseBeforeEffect, CausesBefore, IsCause, AgreesWithCause, SameContext,
              RequiredCause, Indices
<1>6. CausesBefore("MemoryNodeCreated", "AgentDecommissioned")
  BY <1>1 DEF MemoryIn, CausesBefore, SameContext, Indices
<1> QED BY <1>1, <1>2, <1>3, <1>4, <1>5, <1>6

LEMMA DiagramsTellTheLog ==
  ASSUME ReplayInv
  PROVE  ProjectionsTellTheLog
<1> SUFFICES ASSUME Drawings, NEW report \in Reports
             PROVE  /\ Traced(report.route_trace, "TaskAssigned", "assignment", "route")
                    /\ Traced(report.artifact_provenance, "ArtifactReady", "artifact_ready",
                              "artifact_declared")
                    /\ Traced(report.memory_lineage, "MemoryNodeCreated", "memory", "decommission")
                    /\ RollbacksTraced(report.topology_governance)
                    /\ \A c \in Child :
                         <<Task(c.task_id), <<"integration", c.parent_task_id>>>>
                           \in LinesOf(report.task_dependency)
                    /\ Forward(report.route_trace, {"assignment"})
                    /\ Forward(report.artifact_provenance, {"artifact_ready"})
                    /\ Forward(report.memory_lineage, {"memory"})
                    /\ Forward(report.topology_governance, TopologyType \ {"TopologyProposed"})
  BY DEF ProjectionsTellTheLog
<1>1. Reports = Bundles(events) /\ verdict = "Valid"
  BY DEF Drawings, Reports
<1>2. \A r \in Reports :
        /\ r.route_trace = RouteTrace(events)
        /\ r.artifact_provenance = ArtifactProvenance(events)
        /\ r.memory_lineage = MemoryLineage(events)
        /\ r.topology_governance = TopologyGovernance(events)
        /\ r.task_dependency \in TaskDependencyTexts(events)
  BY <1>1 DEF Bundles
<1>3. /\ events \in Seq(Event) /\ UniqueEventIds /\ CauseBeforeEffect /\ Replayable
      /\ RollbackTracesToProposal
      /\ CausesBefore("TaskAssigned", "RouteDecisionRecorded")
      /\ CausesBefore("ArtifactReady", "ArtifactDeclared")
      /\ CausesBefore("MemoryNodeCreated", "AgentDecommissioned")
  BY CausesAreBefore
<1>4. ChildrenAreIntegrated /\ Child = ChildrenIn(events)
  <2>1. ChildrenJoinTheirRun
    BY <1>1 DEF ReplayInv, VerdictFollowsRules
  <2> QED BY <2>1 DEF ChildrenJoinTheirRun, ChildrenAreIntegrated, ReplayInv, Collected
<1>5. /\ {"route", "artifact_declared", "decommission"} \subseteq NodeName
      /\ {"assignment", "artifact_ready", "memory"} \subseteq NodeName
      /\ TRUE \in BOOLEAN /\ FALSE \in BOOLEAN
  BY DEF NodeName
<1>6. /\ Traced(RouteTrace(events), "TaskAssigned", "assignment", "route")
      /\ Forward(RouteTrace(events), {"assignment"})
  <2>1. "assignment" \in NodeName \ {"route", "agent"}
    BY <1>5
  <2> QED BY <1>3, <1>5, <2>1, TraceIsTraced, TraceIsForward DEF RouteTrace
<1>7. /\ Traced(ArtifactProvenance(events), "ArtifactReady", "artifact_ready", "artifact_declared")
      /\ Forward(ArtifactProvenance(events), {"artifact_ready"})
  <2>1. "artifact_ready" \in NodeName \ {"artifact_declared", "agent"}
    BY <1>5
  <2> QED BY <1>3, <1>5, <2>1, TraceIsTraced, TraceIsForward DEF ArtifactProvenance
<1>8. /\ Traced(MemoryLineage(events), "MemoryNodeCreated", "memory", "decommission")
      /\ Forward(MemoryLineage(events), {"memory"})
  <2>1. "memory" \in NodeName \ {"decommission", "agent"}
    BY <1>5
  <2> QED BY <1>3, <1>5, <2>1, TraceIsTraced, TraceIsForward DEF MemoryLineage
<1>9. /\ RollbacksTraced(TopologyGovernance(events))
      /\ Forward(TopologyGovernance(events), TopologyType \ {"TopologyProposed"})
  BY <1>3, RollbacksAreTraced, TopologyIsForward
<1>10. \A c \in Child : <<Task(c.task_id), <<"integration", c.parent_task_id>>>>
                          \in LinesOf(report.task_dependency)
  BY <1>2, <1>3, <1>4, ChildrenAreDrawn
<1> QED BY <1>2, <1>6, <1>7, <1>8, <1>9, <1>10

\* loom_replay_report draws only what happened, and all that matters of it: what
\* is assigned, ready, remembered or rolled back can be followed back on the
\* diagrams, and no edge to such an event starts at a later one.
THEOREM ProjectionsAreTrue == Spec => []ProjectionsTellTheLog
<1>1. ReplayInv => ProjectionsTellTheLog
  BY DiagramsTellTheLog
<1> QED BY <1>1, ReplayInvariant, PTL
===============================================================================
