---------------------------- MODULE LoomEventsProofs ----------------------------
(***************************************************************************)
(* Facts about sequences of events, for EventLog and for the files that hold    *)
(* event logs: what appending at the end does to prefixes, ids and to a log's    *)
(* being one that append could have built.  And what lines each diagram has: a  *)
(* text put together from others has the lines of all of them.                *)
(***************************************************************************)
EXTENDS LoomProjections, WellFoundedInduction, FunctionTheorems, FiniteSetTheorems, TLAPS

-----------------------------------------------------------------------------
(* Every set of naturals that is not empty has a least element. *)

LEMMA LeastNatural ==
  ASSUME NEW T \in SUBSET Nat, T # {}
  PROVE  \E k \in T : \A m \in T : k <= m
<1>1. PICK k \in T : \A m \in T : <<m, k>> \notin OpToRel(<, Nat)
  BY WFMin, NatLessThanWellFounded
<1>2. k \in Nat /\ \A m \in T : m \in Nat /\ ~(m < k)
  BY <1>1 DEF OpToRel
<1>3. \A m \in T : k <= m
  BY <1>2
<1> QED BY <1>3

LEMMA GreatestIndex ==
  ASSUME NEW n \in Nat, NEW S \in SUBSET (1..n), S # {}
  PROVE  \E m \in S : \A j \in S : j <= m
<1> DEFINE T == {k \in Nat : \A j \in S : j <= k}
<1>1. n \in T
  OBVIOUS
<1>2. T \in SUBSET Nat /\ T # {}
  BY <1>1
<1> HIDE DEF T
<1>3. PICK k \in T : \A m \in T : k <= m
  BY <1>2, LeastNatural
<1>4. k \in Nat /\ \A j \in S : j <= k
  BY <1>3 DEF T
<1>5. k \in S
  <2> SUFFICES ASSUME k \notin S PROVE FALSE
    OBVIOUS
  <2>1. \A j \in S : j \in Nat /\ j <= k /\ j # k /\ j >= 1
    BY <1>4
  <2>2. PICK j \in S : TRUE
    OBVIOUS
  <2>3. k - 1 \in Nat /\ \A i \in S : i <= k - 1
    <3>1. k >= 1
      BY <1>4, <2>1, <2>2
    <3> QED BY <1>4, <2>1, <3>1
  <2>4. k - 1 \in T
    BY <2>3 DEF T
  <2> QED BY <1>3, <1>4, <2>4
<1> QED BY <1>4, <1>5

-----------------------------------------------------------------------------
(* Appending at the end: what is where afterwards. *)

LEMMA AppendFacts ==
  ASSUME NEW S, NEW s \in Seq(S), NEW e \in S
  PROVE  /\ Append(s, e) \in Seq(S)
         /\ Len(Append(s, e)) = Len(s) + 1
         /\ \A i \in 1..Len(s) : Append(s, e)[i] = s[i]
         /\ Append(s, e)[Len(s) + 1] = e
OBVIOUS

\* What precedes position i is the same before and after an append.
LEMMA PrefixOfAppend ==
  ASSUME NEW S, NEW s \in Seq(S), NEW e \in S, NEW i \in 1..(Len(s) + 1)
  PROVE  SubSeq(Append(s, e), 1, i - 1) = SubSeq(s, 1, i - 1)
<1> DEFINE t == SubSeq(Append(s, e), 1, i - 1)
           u == SubSeq(s, 1, i - 1)
<1>1. t \in Seq(S) /\ Len(t) = i - 1 /\ \A j \in 1..(i - 1) : t[j] = Append(s, e)[j]
  OBVIOUS
<1>2. u \in Seq(S) /\ Len(u) = i - 1 /\ \A j \in 1..(i - 1) : u[j] = s[j]
  OBVIOUS
<1>3. \A j \in 1..(i - 1) : t[j] = u[j]
  BY <1>1, <1>2, AppendFacts
<1> HIDE DEF t, u
<1> QED
  BY <1>1, <1>2, <1>3

LEMMA WholePrefix ==
  ASSUME NEW S, NEW s \in Seq(S)
  PROVE  SubSeq(s, 1, Len(s)) = s
OBVIOUS

\* The ids of a log grow by exactly the id of the appended event.
LEMMA IdsOfAppend ==
  ASSUME NEW s \in Seq(Event), NEW e \in Event
  PROVE  IdsOf(Append(s, e)) = IdsOf(s) \cup {e.event_id}
BY AppendFacts DEF IdsOf

-----------------------------------------------------------------------------
(* Logs that append could have built. *)

\* A prefix of a prefix.
LEMMA PrefixOfPrefix ==
  ASSUME NEW S, NEW s \in Seq(S), NEW k \in 0..Len(s), NEW i \in 0..k
  PROVE  SubSeq(SubSeq(s, 1, k), 1, i) = SubSeq(s, 1, i)
<1> DEFINE t == SubSeq(SubSeq(s, 1, k), 1, i)
           u == SubSeq(s, 1, i)
<1>1. SubSeq(s, 1, k) \in Seq(S) /\ Len(SubSeq(s, 1, k)) = k
      /\ \A j \in 1..k : SubSeq(s, 1, k)[j] = s[j]
  OBVIOUS
<1>2. t \in Seq(S) /\ Len(t) = i /\ \A j \in 1..i : t[j] = SubSeq(s, 1, k)[j]
  BY <1>1
<1>3. u \in Seq(S) /\ Len(u) = i /\ \A j \in 1..i : u[j] = s[j]
  OBVIOUS
<1>4. \A j \in 1..i : t[j] = u[j]
  BY <1>1, <1>2, <1>3
<1> HIDE DEF t, u
<1> QED
  BY <1>2, <1>3, <1>4

LEMMA AppendablePrefix ==
  ASSUME NEW log \in Seq(Event), NEW k \in 0..Len(log), Appendable(log)
  PROVE  Appendable(SubSeq(log, 1, k))
<1> DEFINE p == SubSeq(log, 1, k)
<1>1. p \in Seq(Event) /\ Len(p) = k /\ \A i \in 1..k : p[i] = log[i]
  OBVIOUS
<1>2. \A i \in 1..k : SubSeq(p, 1, i - 1) = SubSeq(log, 1, i - 1)
  BY PrefixOfPrefix
<1>3. 1..k \subseteq 1..Len(log)
  OBVIOUS
<1> HIDE DEF p
<1>4. Appendable(p)
  BY <1>1, <1>2, <1>3 DEF Appendable
<1> QED
  BY <1>4 DEF p

\* Whether an event may follow a log is what appending it decides.
LEMMA AppendableAppend ==
  ASSUME NEW log \in Seq(Event), NEW e \in Event
  PROVE  Appendable(Append(log, e)) <=> Appendable(log) /\ Accepts(log, IdsOf(log), e)
<1> DEFINE n == Len(log)
           a == Append(log, e)
<1>1. n \in Nat /\ Len(a) = n + 1 /\ a[n + 1] = e /\ \A i \in 1..n : a[i] = log[i]
  BY AppendFacts
<1>2. \A i \in 1..(n + 1) : SubSeq(a, 1, i - 1) = SubSeq(log, 1, i - 1)
  BY PrefixOfAppend
<1>3. SubSeq(log, 1, (n + 1) - 1) = log
  BY <1>1, WholePrefix
<1>4. 1..(n + 1) = 1..n \cup {n + 1}
  BY <1>1
<1> DEFINE Q(i) == Accepts(SubSeq(log, 1, i - 1), IdsOf(SubSeq(log, 1, i - 1)), a[i])
<1>5. Appendable(a) <=> \A i \in 1..(n + 1) : Q(i)
  BY <1>1, <1>2 DEF Appendable
<1>6. Appendable(log) <=> \A i \in 1..n : Q(i)
  BY <1>1 DEF Appendable
<1>7. Q(n + 1) <=> Accepts(log, IdsOf(log), e)
  BY <1>1, <1>3
<1> HIDE DEF n, a, Q
<1>8. Appendable(a) <=> Appendable(log) /\ Accepts(log, IdsOf(log), e)
  BY <1>4, <1>5, <1>6, <1>7
<1> QED
  BY <1>8 DEF a

-----------------------------------------------------------------------------
(* Sequences one after the other: what is in them, wherever it is. *)

ElementsOf(s) == {s[i] : i \in 1..Len(s)}

LEMMA ConcatElements ==
  ASSUME NEW S, NEW s \in Seq(S), NEW t \in Seq(S)
  PROVE  s \o t \in Seq(S) /\ ElementsOf(s \o t) = ElementsOf(s) \cup ElementsOf(t)
<1> DEFINE n == Len(s)
           m == Len(t)
           u == s \o t
<1>1. n \in Nat /\ m \in Nat
  OBVIOUS
<1>2. /\ u \in Seq(S) /\ Len(u) = n + m
      /\ \A i \in 1..n : u[i] = s[i]
      /\ \A i \in 1..m : u[n + i] = t[i]
  OBVIOUS
<1> HIDE DEF u
<1>3. ElementsOf(u) \subseteq ElementsOf(s) \cup ElementsOf(t)
  <2> SUFFICES ASSUME NEW i \in 1..(n + m)
               PROVE  u[i] \in ElementsOf(s) \cup ElementsOf(t)
    BY <1>2 DEF ElementsOf
  <2>1. CASE i \in 1..n
    BY <1>2, <2>1 DEF ElementsOf
  <2>2. CASE i \notin 1..n
    <3>1. i - n \in 1..m /\ n + (i - n) = i
      BY <1>1, <2>2
    <3>2. u[i] = t[i - n]
      BY <1>2, <3>1
    <3> QED BY <3>1, <3>2 DEF ElementsOf
  <2> QED BY <2>1, <2>2
<1>4. \A i \in 1..n : i \in 1..(n + m)
  BY <1>1
<1>5. \A i \in 1..m : n + i \in 1..(n + m)
  BY <1>1
<1>6. ElementsOf(s) \subseteq ElementsOf(u)
  BY <1>2, <1>4 DEF ElementsOf
<1>7. ElementsOf(t) \subseteq ElementsOf(u)
  <2> SUFFICES ASSUME NEW i \in 1..m
               PROVE  t[i] \in ElementsOf(u)
    BY DEF ElementsOf
  <2>1. t[i] = u[n + i] /\ n + i \in 1..Len(u)
    BY <1>2, <1>5
  <2> QED BY <2>1 DEF ElementsOf
<1>8. ElementsOf(u) = ElementsOf(s) \cup ElementsOf(t)
  BY <1>3, <1>6, <1>7
<1> QED BY <1>2, <1>8 DEF u

LEMMA FewElements ==
  /\ ElementsOf(<<>>) = {}
  /\ \A a : ElementsOf(<<a>>) = {a}
  /\ \A a, b : ElementsOf(<<a, b>>) = {a, b}
<1>1. ElementsOf(<<>>) = {}
  BY DEF ElementsOf
<1>2. ASSUME NEW a
      PROVE  ElementsOf(<<a>>) = {a}
  BY DEF ElementsOf
<1>3. ASSUME NEW a, NEW b
      PROVE  ElementsOf(<<a, b>>) = {a, b}
  <2> DEFINE s == <<a, b>>
  <2>1. s[1] = a /\ s[2] = b /\ Len(s) = 2
    OBVIOUS
  <2>2. 1..2 = {1, 2}
    OBVIOUS
  <2> HIDE DEF s
  <2>3. ElementsOf(s) = {a, b}
    BY <2>1, <2>2 DEF ElementsOf
  <2> QED BY <2>3 DEF s
<1> QED BY <1>1, <1>2, <1>3

\* The recursion by which FlattenSeq joins sequences.
JoinedBy(texts, f) ==
  f = [i \in 1..Len(texts) |-> IF i = 1 THEN texts[i] ELSE f[i - 1] \o texts[i]]

LEMMA JoinIsDefined ==
  ASSUME NEW S, NEW texts \in Seq(Seq(S))
  PROVE  \E f : JoinedBy(texts, f)
<1> DEFINE Solved(n, f) ==
             f = [i \in 1..n |-> IF i = 1 THEN texts[i] ELSE f[i - 1] \o texts[i]]
           unsolved == {n \in 0..Len(texts) : ~\E f : Solved(n, f)}
<1>1. Len(texts) \in Nat
  OBVIOUS
<1>2. Solved(0, [i \in 1..0 |-> <<>>])
  OBVIOUS
<1>3. ASSUME NEW n \in 1..Len(texts), NEW f, Solved(n - 1, f)
      PROVE  \E longer : Solved(n, longer)
  <2> DEFINE last == IF n = 1 THEN texts[n] ELSE f[n - 1] \o texts[n]
             longer == [i \in 1..n |-> IF i = n THEN last ELSE f[i]]
  <2>1. \A i \in 1..(n - 1) : f[i] = IF i = 1 THEN texts[i] ELSE f[i - 1] \o texts[i]
    BY <1>3
  <2>2. ASSUME NEW i \in 1..n
        PROVE  longer[i] = IF i = 1 THEN texts[i] ELSE longer[i - 1] \o texts[i]
    <3>1. CASE i = n
      <4>1. longer[n] = last /\ (n # 1 => longer[n - 1] = f[n - 1])
        BY <1>1
      <4> HIDE DEF longer
      <4> QED BY <3>1, <4>1
    <3>2. CASE i \in 1..(n - 1)
      <4>1. longer[i] = f[i] /\ (i # 1 => longer[i - 1] = f[i - 1])
        BY <3>2, <1>1
      <4> HIDE DEF longer
      <4> QED BY <3>2, <4>1, <2>1
    <3> QED BY <3>1, <3>2, <1>1
  <2>3. longer = [i \in 1..n |-> longer[i]]
    OBVIOUS
  <2> HIDE DEF longer
  <2>4. Solved(n, longer)
    BY <2>2, <2>3
  <2> QED BY <2>4
<1> HIDE DEF Solved
<1>4. ASSUME unsolved # {}
      PROVE  FALSE
  <2>0. unsolved \in SUBSET Nat
    BY <1>1
  <2>1. PICK n \in unsolved : \A k \in unsolved : n <= k
    <3> HIDE DEF unsolved
    <3> QED BY <1>4, <2>0, LeastNatural
  <2>2. n # 0
    BY <1>2, <2>1
  <2>3. n \in 1..Len(texts) /\ n - 1 \in 0..Len(texts)
    BY <1>1, <2>1, <2>2
  <2>4. n - 1 \notin unsolved
    <3> HIDE DEF unsolved
    <3> QED BY <2>0, <2>1
  <2>5. PICK f : Solved(n - 1, f)
    BY <2>3, <2>4
  <2> QED BY <1>3, <2>1, <2>3, <2>5
<1>5. \E f : Solved(Len(texts), f)
  BY <1>1, <1>4
<1> QED BY <1>5 DEF JoinedBy, Solved

\* Joined up to some place they hold what each of them up to there holds.
LEMMA JoinElements ==
  ASSUME NEW S, NEW texts \in Seq(Seq(S)), NEW f, JoinedBy(texts, f), Len(texts) # 0
  PROVE  /\ f[Len(texts)] \in Seq(S)
         /\ \A e : e \in ElementsOf(f[Len(texts)]) <=>
                   \E i \in 1..Len(texts) : e \in ElementsOf(texts[i])
<1> DEFINE Holds(n) ==
             /\ f[n] \in Seq(S)
             /\ \A e : e \in ElementsOf(f[n]) <=> \E i \in 1..n : e \in ElementsOf(texts[i])
           failing == {n \in 1..Len(texts) : ~Holds(n)}
<1>1. Len(texts) \in Nat
  OBVIOUS
<1>2. \A n \in 1..Len(texts) : f[n] = IF n = 1 THEN texts[n] ELSE f[n - 1] \o texts[n]
  BY DEF JoinedBy
<1>3. ASSUME 1 \in 1..Len(texts)
      PROVE  Holds(1)
  <2>1. f[1] = texts[1] /\ texts[1] \in Seq(S) /\ 1..1 = {1}
    BY <1>2, <1>3
  <2> QED BY <2>1
<1>4. ASSUME NEW n \in 2..Len(texts), Holds(n - 1)
      PROVE  Holds(n)
  <2>1. /\ texts[n] \in Seq(S) /\ 1..n = 1..(n - 1) \cup {n}
        /\ n \in 1..Len(texts) /\ n # 1
    BY <1>1
  <2>2. f[n] = f[n - 1] \o texts[n]
    BY <1>2, <2>1
  <2>3. f[n] \in Seq(S) /\ ElementsOf(f[n]) = ElementsOf(f[n - 1]) \cup ElementsOf(texts[n])
    BY <1>4, <2>1, <2>2, ConcatElements
  <2> QED BY <1>4, <2>1, <2>3
<1> HIDE DEF Holds
<1>5. ASSUME failing # {}
      PROVE  FALSE
  <2>0. failing \in SUBSET Nat
    BY <1>1
  <2>1. PICK n \in failing : \A k \in failing : n <= k
    <3> HIDE DEF failing
    <3> QED BY <1>5, <2>0, LeastNatural
  <2>2. n \in 1..Len(texts) /\ ~Holds(n)
    BY <2>1
  <2>3. n # 1
    BY <1>3, <2>2
  <2>4. n \in 2..Len(texts) /\ n - 1 \in 1..Len(texts) /\ n - 1 \notin failing
    BY <1>1, <2>1, <2>2, <2>3
  <2>5. Holds(n - 1)
    BY <2>4
  <2> QED BY <1>4, <2>2, <2>4, <2>5
<1>6. Holds(Len(texts))
  BY <1>1, <1>5
<1> QED BY <1>6 DEF Holds

-----------------------------------------------------------------------------
(* The lines of the diagrams. *)

NodeName ==
  { "task", "route", "assignment", "artifact_declared", "artifact_ready", "decommission",
    "memory", "agent", "integration", "integration_group", "integration_report" }
    \cup TopologyType
Node == NodeName \X (EventId \cup TaskId)
TextLine == Seq(Node)

\* Texts joined have the lines of each of them.
LEMMA JointElements ==
  ASSUME NEW S, NEW n \in Nat, NEW texts \in [1..n -> Seq(S)]
  PROVE  /\ Joint(texts) \in Seq(S)
         /\ \A e : e \in ElementsOf(Joint(texts)) <=>
                   \E i \in 1..n : e \in ElementsOf(texts[i])
<1> DEFINE f == CHOOSE f : JoinedBy(texts, f)
<1>0. texts \in Seq(Seq(S)) /\ Len(texts) = n
  OBVIOUS
<1>1. CASE n = 0
  <2>1. Joint(texts) = texts
    BY <1>0, <1>1 DEF Joint, Sequence!FlattenSeq
  <2>2. Joint(texts) = <<>>
    BY <1>0, <1>1, <2>1
  <2>3. ElementsOf(<<>>) = {} /\ <<>> \in Seq(S) /\ 1..n = {}
    BY <1>1, FewElements
  <2> QED BY <2>2, <2>3
<1>2. CASE n # 0
  <2>1. JoinedBy(texts, f)
    BY <1>0, JoinIsDefined
  <2>2. Joint(texts) = f[Len(texts)]
    BY <1>0, <1>2 DEF Joint, Sequence!FlattenSeq, JoinedBy
  <2> HIDE DEF f
  <2> QED BY <1>0, <1>2, <2>1, <2>2, JoinElements
<1> QED BY <1>1, <1>2

LEMMA LinesAreNodes ==
  ASSUME NEW m \in Node, NEW n \in Node
  PROVE  <<m>> \in TextLine /\ <<m, n>> \in TextLine /\ << <<m>> >> \in Seq(TextLine) /\ << <<m, n>> >> \in Seq(TextLine)
         /\ << <<n>>, <<m, n>> >> \in Seq(TextLine)
<1>1. <<m>> \in TextLine /\ <<m, n>> \in TextLine /\ <<n>> \in TextLine
  BY DEF TextLine
<1> HIDE DEF TextLine
<1> QED BY <1>1

LEMMA DrawnElements ==
  ASSUME NEW from \in Node, NEW to \in Node
  PROVE  Drawn(from, to) \in Seq(TextLine) /\ ElementsOf(Drawn(from, to)) = {<<to>>, <<from, to>>}
BY LinesAreNodes, FewElements DEF Drawn

LEMMA NodeFacts ==
  /\ \A e \in Event : \A name \in NodeName : <<name, e.event_id>> \in Node
  /\ \A e \in Event : e.task_id # None => Task(e.task_id) \in Node
  /\ \A e \in Event : e.parent_task_id # None => Task(e.parent_task_id) \in Node
  /\ \A t \in TaskId : Task(t) \in Node /\ <<"integration", t>> \in Node
<1>1. \A e \in Event : /\ e.event_id \in EventId
                       /\ e.task_id \in TaskId \cup {None} /\ e.parent_task_id \in TaskId \cup {None}
  BY DEF Event
<1>2. "task" \in NodeName /\ "integration" \in NodeName
  BY DEF NodeName
<1> QED BY <1>1, <1>2 DEF Node, Task

LEMMA AgentElements ==
  ASSUME NEW from \in Node, NEW e \in Event
  PROVE  LET agent == <<"agent", e.event_id>> IN
         /\ AgentDrawn(from, e) \in Seq(TextLine)
         /\ ElementsOf(AgentDrawn(from, e)) =
              IF e.has_agent THEN {<<agent>>, <<from, agent>>} ELSE {}
<1>1. <<"agent", e.event_id>> \in Node
  BY NodeFacts DEF NodeName
<1>2. <<>> \in Seq(TextLine)
  OBVIOUS
<1> QED BY <1>1, <1>2, DrawnElements, FewElements DEF AgentDrawn

LEMMA CausedElements ==
  ASSUME NEW from \in Node, NEW next \in Event, NEW name \in NodeName, NEW with_agent \in BOOLEAN
  PROVE  LET n == <<name, next.event_id>>
             agent == <<"agent", next.event_id>>
         IN /\ Caused(from, next, name, with_agent) \in Seq(TextLine)
            /\ ElementsOf(Caused(from, next, name, with_agent)) =
                 {<<n>>, <<from, n>>}
                   \cup IF with_agent /\ next.has_agent THEN {<<agent>>, <<n, agent>>} ELSE {}
<1> DEFINE n == <<name, next.event_id>>
           rest == IF with_agent THEN AgentDrawn(n, next) ELSE <<>>
<1>1. n \in Node
  BY NodeFacts
<1>2. Drawn(from, n) \in Seq(TextLine) /\ ElementsOf(Drawn(from, n)) = {<<n>>, <<from, n>>}
  BY <1>1, DrawnElements
<1>3. rest \in Seq(TextLine) /\ ElementsOf(rest) =
        IF with_agent /\ next.has_agent
        THEN {<<<<"agent", next.event_id>>>>, <<n, <<"agent", next.event_id>>>>} ELSE {}
  <2>1. CASE with_agent
    BY <1>1, <2>1, AgentElements
  <2>2. CASE ~with_agent
    BY <2>2, FewElements
  <2> QED BY <2>1, <2>2
<1>4. Caused(from, next, name, with_agent) = Drawn(from, n) \o rest
  BY DEF Caused
<1> HIDE DEF rest
<1>5. /\ Caused(from, next, name, with_agent) \in Seq(TextLine)
      /\ ElementsOf(Caused(from, next, name, with_agent)) = {<<n>>, <<from, n>>} \cup ElementsOf(rest)
  <2> DEFINE drawn == Drawn(from, n)
  <2>1. drawn \in Seq(TextLine) /\ rest \in Seq(TextLine) /\ Caused(from, next, name, with_agent) = drawn \o rest
        /\ ElementsOf(drawn) = {<<n>>, <<from, n>>}
    BY <1>2, <1>3, <1>4
  <2> HIDE DEF drawn, n
  <2> QED BY <2>1, ConcatElements
<1> QED BY <1>3, <1>5

\* The last of the events that are hit, or none.
LEMMA LastOfIs ==
  ASSUME NEW log \in Seq(Event), NEW hits \in SUBSET (1..Len(log))
  PROVE  /\ hits = {} => LastOf(log, hits) = <<>>
         /\ hits # {} => \E m \in hits : /\ \A j \in hits : j <= m
                                         /\ LastOf(log, hits) = <<log[m]>>
<1>1. hits = {} => LastOf(log, hits) = <<>>
  BY DEF LastOf
<1>2. ASSUME hits # {}
      PROVE  \E m \in hits : (\A j \in hits : j <= m) /\ LastOf(log, hits) = <<log[m]>>
  <2> DEFINE m == CHOOSE i \in hits : \A j \in hits : j <= i
  <2>1. m \in hits /\ \A j \in hits : j <= m
    <3>1. \E i \in hits : \A j \in hits : j <= i
      <4>1. Len(log) \in Nat
        OBVIOUS
      <4> QED BY <1>2, <4>1, GreatestIndex
    <3> QED BY <3>1
  <2>2. LastOf(log, hits) = <<log[m]>>
    BY <1>2 DEF LastOf
  <2> HIDE DEF m
  <2> QED BY <2>1, <2>2
<1> QED BY <1>1, <1>2

\* What is drawn for it, if it is there.
LEMMA LastDrawn ==
  ASSUME NEW log \in Seq(Event), NEW hits \in SUBSET (1..Len(log)),
         NEW texts \in [1..Len(LastOf(log, hits)) -> Seq(TextLine)]
  PROVE  /\ Joint(texts) \in Seq(TextLine)
         /\ hits = {} => ElementsOf(Joint(texts)) = {}
         /\ \A m \in hits : (\A j \in hits : j <= m) =>
              /\ Len(LastOf(log, hits)) = 1 /\ LastOf(log, hits)[1] = log[m]
              /\ ElementsOf(Joint(texts)) = ElementsOf(texts[1])
<1> DEFINE n == Len(LastOf(log, hits))
<1>0. texts \in [1..n -> Seq(TextLine)]
  OBVIOUS
<1> HIDE DEF n
<1>1. CASE hits = {}
  <2>1. n = 0 /\ 1..0 = {} /\ n \in Nat
    BY <1>1, LastOfIs DEF n
  <2>2. Joint(texts) \in Seq(TextLine) /\ ElementsOf(Joint(texts)) = {}
    BY <1>0, <2>1, JointElements
  <2> QED BY <1>1, <2>2
<1>2. CASE hits # {}
  <2>1. PICK m \in hits : (\A j \in hits : j <= m) /\ LastOf(log, hits) = <<log[m]>>
    BY <1>2, LastOfIs
  <2>2. n = 1 /\ LastOf(log, hits)[1] = log[m] /\ 1..1 = {1} /\ n \in Nat
    BY <2>1 DEF n
  <2>3. Joint(texts) \in Seq(TextLine) /\ ElementsOf(Joint(texts)) = ElementsOf(texts[1])
    <3>1. /\ Joint(texts) \in Seq(TextLine)
          /\ \A e : e \in ElementsOf(Joint(texts)) <=> \E i \in 1..n : e \in ElementsOf(texts[i])
      BY <1>0, <2>2, JointElements
    <3>2. \A e : e \in ElementsOf(Joint(texts)) <=> e \in ElementsOf(texts[1])
      BY <2>2, <3>1
    <3> QED BY <3>1, <3>2
  <2>4. \A k \in hits : (\A j \in hits : j <= k) => k = m
    BY <2>1
  <2> QED BY <1>2, <2>2, <2>3, <2>4 DEF n
<1> QED BY <1>1, <1>2

\* The last of some places in the log.
LastAt(hits, m) == m \in hits /\ \A j \in hits : j <= m

LEMMA TraceOfElements ==
  ASSUME NEW log \in Seq(Event), NEW e \in Event, NEW type, NEW name \in NodeName,
         NEW next_type, NEW next_name \in NodeName, NEW with_agent \in BOOLEAN
  PROVE  LET t == Task(e.task_id)
             n == <<name, e.event_id>>
             text == TraceOf(log, e, type, name, next_type, next_name, with_agent)
         IN /\ text \in Seq(TextLine)
            /\ \A l : l \in ElementsOf(text) <=>
                 /\ e.event_type = type /\ e.task_id # None
                 /\ \/ l \in {<<t>>, <<n>>, <<t, n>>}
                    \/ \E m \in 1..Len(log) :
                         /\ LastAt(CausedBy(log, next_type, e.event_id), m)
                         /\ l \in ElementsOf(Caused(n, log[m], next_name, with_agent))
<1> DEFINE t == Task(e.task_id)
           n == <<name, e.event_id>>
           text == TraceOf(log, e, type, name, next_type, next_name, with_agent)
           hits == CausedBy(log, next_type, e.event_id)
           next == LastOf(log, hits)
           texts == [i \in 1..Len(next) |-> Caused(n, next[i], next_name, with_agent)]
           OfNext(l) == \E m \in 1..Len(log) :
                          /\ LastAt(hits, m)
                          /\ l \in ElementsOf(Caused(n, log[m], next_name, with_agent))
<1>1. n \in Node /\ hits \in SUBSET (1..Len(log)) /\ Len(log) \in Nat
  BY NodeFacts DEF CausedBy
<1>2. next \in Seq(Event)
  <2> HIDE DEF hits, n
  <2>1. CASE hits = {}
    <3>1. next = <<>>
      BY <1>1, <2>1, LastOfIs
    <3> QED BY <3>1
  <2>2. CASE hits # {}
    <3>1. PICK m \in hits : next = <<log[m]>>
      BY <1>1, <2>2, LastOfIs
    <3>2. log[m] \in Event
      BY <1>1
    <3> QED BY <3>1, <3>2
  <2> QED BY <2>1, <2>2
<1>3. texts \in [1..Len(next) -> Seq(TextLine)]
  <2>1. \A i \in 1..Len(next) : next[i] \in Event
    BY <1>2
  <2>2. \A i \in 1..Len(next) : Caused(n, next[i], next_name, with_agent) \in Seq(TextLine)
    BY <1>1, <2>1, CausedElements
  <2> QED BY <2>2
<1>4. Joint(texts) \in Seq(TextLine) /\ \A l : l \in ElementsOf(Joint(texts)) <=> OfNext(l)
  <2>1. CASE hits = {}
    <3>1. \A l : ~OfNext(l)
      BY <2>1 DEF LastAt
    <3>2. Joint(texts) \in Seq(TextLine) /\ ElementsOf(Joint(texts)) = {}
      <4> HIDE DEF hits, texts
      <4> QED BY <1>1, <1>3, <2>1, LastDrawn
    <3> HIDE DEF OfNext, texts
    <3> QED BY <3>1, <3>2
  <2>2. CASE hits # {}
    <3>1. PICK m \in hits : \A j \in hits : j <= m
      BY <1>1, <2>2, LastOfIs
    <3>2. Len(next) = 1 /\ next[1] = log[m] /\ Joint(texts) \in Seq(TextLine)
          /\ ElementsOf(Joint(texts)) = ElementsOf(texts[1])
      <4> HIDE DEF hits, texts
      <4> QED BY <1>1, <1>3, <3>1, LastDrawn
    <3>3. texts[1] = Caused(n, log[m], next_name, with_agent)
      BY <3>2
    <3>4. \A k : LastAt(hits, k) <=> k = m
      <4> HIDE DEF hits
      <4>1. \A k \in hits : k \in Nat
        BY <1>1
      <4> QED BY <3>1, <4>1 DEF LastAt
    <3> HIDE DEF texts, next, hits
    <3> QED BY <1>1, <3>1, <3>2, <3>3, <3>4
  <2> QED BY <2>1, <2>2
<1>5. CASE e.event_type # type \/ e.task_id = None
  <2>1. text = <<>>
    BY <1>5 DEF TraceOf
  <2>2. text \in Seq(TextLine) /\ ElementsOf(text) = {}
    BY <2>1, FewElements
  <2>3. \A l : l \notin ElementsOf(text)
    BY <2>2
  <2> HIDE DEF text, OfNext
  <2>4. \A l : l \in ElementsOf(text) <=>
               e.event_type = type /\ e.task_id # None /\ (l \in {<<t>>, <<n>>, <<t, n>>} \/ OfNext(l))
    BY <1>5, <2>3
  <2> QED BY <2>2, <2>4 DEF text, OfNext
<1>6. CASE ~(e.event_type # type \/ e.task_id = None)
  <2>1. t \in Node
    BY <1>6, NodeFacts
  <2>2. text = << <<t>> >> \o Drawn(t, n) \o Joint(texts)
    BY <1>6 DEF TraceOf, LastCausedBy
  <2>3. /\ << <<t>> >> \in Seq(TextLine) /\ ElementsOf(<< <<t>> >>) = {<<t>>}
        /\ Drawn(t, n) \in Seq(TextLine) /\ ElementsOf(Drawn(t, n)) = {<<n>>, <<t, n>>}
    BY <1>1, <2>1, LinesAreNodes, FewElements, DrawnElements
  <2> HIDE DEF texts, t, n
  <2> DEFINE a == << <<t>> >>
             b == Drawn(t, n)
             c == Joint(texts)
  <2>4. text = a \o b \o c
    BY <2>2
  <2>5. /\ a \in Seq(TextLine) /\ b \in Seq(TextLine) /\ c \in Seq(TextLine)
        /\ ElementsOf(a) = {<<t>>} /\ ElementsOf(b) = {<<n>>, <<t, n>>}
    BY <1>4, <2>3
  <2> HIDE DEF a, b, c, text
  <2> DEFINE ab == a \o b
  <2>6. ab \in Seq(TextLine) /\ ElementsOf(ab) = ElementsOf(a) \cup ElementsOf(b)
    BY <2>5, ConcatElements
  <2>7. text = ab \o c
    BY <2>4
  <2> HIDE DEF ab
  <2>8. text \in Seq(TextLine) /\ ElementsOf(text) = ElementsOf(ab) \cup ElementsOf(c)
    BY <2>5, <2>6, <2>7, ConcatElements
  <2>9. ElementsOf(text) = {<<t>>, <<n>>, <<t, n>>} \cup ElementsOf(c)
    BY <2>5, <2>6, <2>8
  <2> HIDE DEF OfNext
  <2>10. \A l : l \in ElementsOf(text) <=> l \in {<<t>>, <<n>>, <<t, n>>} \/ OfNext(l)
    BY <1>4, <2>9 DEF c
  <2> QED BY <1>6, <2>8, <2>10 DEF text, OfNext, t, n
<1> QED BY <1>5, <1>6

\* A trace has the lines of its events.
LEMMA TraceElements ==
  ASSUME NEW log \in Seq(Event), NEW type, NEW name \in NodeName,
         NEW next_type, NEW next_name \in NodeName, NEW with_agent \in BOOLEAN
  PROVE  /\ Trace(log, type, name, next_type, next_name, with_agent) \in Seq(TextLine)
         /\ \A l : l \in ElementsOf(Trace(log, type, name, next_type, next_name, with_agent)) <=>
              \E i \in 1..Len(log) :
                l \in ElementsOf(TraceOf(log, log[i], type, name, next_type, next_name, with_agent))
<1> DEFINE texts == [i \in 1..Len(log) |->
                       TraceOf(log, log[i], type, name, next_type, next_name, with_agent)]
<1>1. texts \in [1..Len(log) -> Seq(TextLine)]
  <2> SUFFICES ASSUME NEW i \in 1..Len(log)
               PROVE  TraceOf(log, log[i], type, name, next_type, next_name, with_agent) \in Seq(TextLine)
    OBVIOUS
  <2>1. log[i] \in Event
    OBVIOUS
  <2> QED BY <2>1, TraceOfElements
<1>2. Len(log) \in Nat /\ Trace(log, type, name, next_type, next_name, with_agent) = Joint(texts)
  BY DEF Trace
<1>3. \A i \in 1..Len(log) :
        texts[i] = TraceOf(log, log[i], type, name, next_type, next_name, with_agent)
  OBVIOUS
<1> HIDE DEF texts
<1> QED BY <1>1, <1>2, <1>3, JointElements

LEMMA TopologyOfElements ==
  ASSUME NEW log \in Seq(Event), NEW e \in Event
  PROVE  /\ TopologyOf(log, e) \in Seq(TextLine)
         /\ \A l : l \in ElementsOf(TopologyOf(log, e)) <=>
              /\ e.event_type \in TopologyType
              /\ \/ l = <<TopologyNode(e)>>
                 \/ \E m \in 1..Len(log) :
                      /\ LastAt(TopologyCauses(log, e), m)
                      /\ l = <<TopologyNode(log[m]), TopologyNode(e)>>
<1> DEFINE hits == TopologyCauses(log, e)
           cause == LastOf(log, hits)
           texts == [i \in 1..Len(cause) |-> << <<TopologyNode(cause[i]), TopologyNode(e)>> >>]
           OfCause(l) == \E m \in 1..Len(log) :
                           LastAt(hits, m) /\ l = <<TopologyNode(log[m]), TopologyNode(e)>>
<1>1. hits \in SUBSET (1..Len(log)) /\ Len(log) \in Nat
  BY DEF TopologyCauses
<1>2. \A x \in Event : x.event_type \in TopologyType => TopologyNode(x) \in Node
  BY NodeFacts DEF TopologyNode, NodeName
<1>3. CASE e.event_type \notin TopologyType
  <2>1. TopologyOf(log, e) = <<>>
    BY <1>3 DEF TopologyOf
  <2>2. <<>> \in Seq(TextLine)
    OBVIOUS
  <2>3. \A l : l \notin ElementsOf(TopologyOf(log, e))
    BY <2>1, FewElements
  <2> QED BY <1>3, <2>1, <2>2, <2>3
<1>4. CASE e.event_type \in TopologyType
  <2> DEFINE a == << <<TopologyNode(e)>> >>
             b == Joint(texts)
  <2>1. TopologyNode(e) \in Node
    BY <1>2, <1>4
  <2>2. a \in Seq(TextLine) /\ ElementsOf(a) = {<<TopologyNode(e)>>}
    BY <2>1, LinesAreNodes, FewElements
  <2>3. b \in Seq(TextLine) /\ \A l : l \in ElementsOf(b) <=> OfCause(l)
    <3>1. CASE hits = {}
      <4>1. \A l : ~OfCause(l)
        BY <3>1 DEF LastAt
      <4>2. cause = <<>> /\ Len(cause) = 0
        <5> HIDE DEF hits
        <5> QED BY <1>1, <3>1, LastOfIs
      <4>3. texts \in [1..Len(cause) -> Seq(TextLine)]
        BY <4>2
      <4> HIDE DEF texts, hits, OfCause
      <4>4. b \in Seq(TextLine) /\ ElementsOf(b) = {}
        BY <1>1, <3>1, <4>3, LastDrawn
      <4> QED BY <4>1, <4>4
    <3>2. CASE hits # {}
      <4>1. PICK m \in hits : (\A j \in hits : j <= m) /\ cause = <<log[m]>>
        <5> HIDE DEF hits
        <5> QED BY <1>1, <3>2, LastOfIs
      <4>2. log[m] \in Event /\ log[m].event_type \in TopologyType
        BY <1>1, <4>1 DEF TopologyCauses
      <4>3. TopologyNode(log[m]) \in Node /\ Len(cause) = 1 /\ cause[1] = log[m] /\ 1..1 = {1}
        BY <1>2, <4>1, <4>2
      <4> DEFINE edge == <<TopologyNode(log[m]), TopologyNode(e)>>
      <4>4. texts = [i \in 1..1 |-> <<edge>>]
        BY <4>3
      <4>5. <<edge>> \in Seq(TextLine) /\ ElementsOf(<<edge>>) = {edge}
        BY <2>1, <4>3, LinesAreNodes, FewElements
      <4>6. texts \in [1..Len(cause) -> Seq(TextLine)] /\ texts[1] = <<edge>>
        BY <4>3, <4>4, <4>5
      <4>7. \A k : LastAt(hits, k) <=> k = m
        <5>1. \A k \in hits : k \in Nat
          BY <1>1
        <5> HIDE DEF hits
        <5> QED BY <4>1, <5>1 DEF LastAt
      <4>8. \A l : OfCause(l) <=> l = edge
        <5>1. m \in 1..Len(log)
          BY <1>1, <4>1
        <5> HIDE DEF hits
        <5> QED BY <4>7, <5>1
      <4>9. m \in hits /\ \A j \in hits : j <= m
        BY <4>1
      <4>10. texts \in [1..Len(LastOf(log, hits)) -> Seq(TextLine)]
        BY <4>6
      <4> HIDE DEF texts, hits, OfCause, edge
      <4>11. b \in Seq(TextLine) /\ ElementsOf(b) = ElementsOf(texts[1])
        BY <1>1, <4>9, <4>10, LastDrawn
      <4> QED BY <4>5, <4>6, <4>8, <4>11
    <3> QED BY <3>1, <3>2
  <2>4. TopologyOf(log, e) = a \o b
    BY <1>4 DEF TopologyOf
  <2> HIDE DEF a, b, OfCause
  <2>5. a \o b \in Seq(TextLine) /\ ElementsOf(a \o b) = ElementsOf(a) \cup ElementsOf(b)
    BY <2>2, <2>3, ConcatElements
  <2>6. \A l : l \in ElementsOf(TopologyOf(log, e)) <=> l = <<TopologyNode(e)>> \/ OfCause(l)
    BY <2>2, <2>3, <2>4, <2>5
  <2> QED BY <1>4, <2>4, <2>5, <2>6 DEF OfCause
<1> QED BY <1>3, <1>4

LEMMA TopologyElements ==
  ASSUME NEW log \in Seq(Event)
  PROVE  /\ TopologyGovernance(log) \in Seq(TextLine)
         /\ \A l : l \in ElementsOf(TopologyGovernance(log)) <=>
              \E i \in 1..Len(log) : l \in ElementsOf(TopologyOf(log, log[i]))
<1> DEFINE texts == [i \in 1..Len(log) |-> TopologyOf(log, log[i])]
<1>1. texts \in [1..Len(log) -> Seq(TextLine)]
  <2> SUFFICES ASSUME NEW i \in 1..Len(log)
               PROVE  TopologyOf(log, log[i]) \in Seq(TextLine)
    OBVIOUS
  <2>1. log[i] \in Event
    OBVIOUS
  <2> QED BY <2>1, TopologyOfElements
<1>2. Len(log) \in Nat /\ TopologyGovernance(log) = Joint(texts)
  BY DEF TopologyGovernance
<1>3. \A i \in 1..Len(log) : texts[i] = TopologyOf(log, log[i])
  OBVIOUS
<1> HIDE DEF texts
<1> QED BY <1>1, <1>2, <1>3, JointElements

LEMMA TaskOfElements ==
  ASSUME NEW e \in Event
  PROVE  /\ TaskOf(e) \in Seq(TextLine)
         /\ \A l : l \in ElementsOf(TaskOf(e)) <=>
              /\ e.event_type = "TaskCreated" /\ e.task_id # None
              /\ \/ l = <<Task(e.task_id)>>
                 \/ e.parent_task_id # None /\ l = <<Task(e.parent_task_id), Task(e.task_id)>>
<1>1. CASE e.event_type # "TaskCreated" \/ e.task_id = None
  <2>1. TaskOf(e) = <<>> /\ <<>> \in Seq(TextLine)
    BY <1>1 DEF TaskOf
  <2>2. \A l : l \notin ElementsOf(TaskOf(e))
    BY <2>1, FewElements
  <2> QED BY <1>1, <2>1, <2>2
<1>2. CASE ~(e.event_type # "TaskCreated" \/ e.task_id = None)
  <2> DEFINE a == << <<Task(e.task_id)>> >>
             b == IF e.parent_task_id = None THEN <<>>
                  ELSE << <<Task(e.parent_task_id), Task(e.task_id)>> >>
  <2>1. Task(e.task_id) \in Node /\ (e.parent_task_id # None => Task(e.parent_task_id) \in Node)
    BY <1>2, NodeFacts
  <2>2. a \in Seq(TextLine) /\ ElementsOf(a) = {<<Task(e.task_id)>>}
    BY <2>1, LinesAreNodes, FewElements
  <2>3. b \in Seq(TextLine) /\ ElementsOf(b) =
          IF e.parent_task_id = None THEN {} ELSE {<<Task(e.parent_task_id), Task(e.task_id)>>}
    <3>1. CASE e.parent_task_id = None
      <4>1. b = <<>> /\ <<>> \in Seq(TextLine)
        BY <3>1
      <4> QED BY <3>1, <4>1, FewElements
    <3>2. CASE e.parent_task_id # None
      <4>1. b = << <<Task(e.parent_task_id), Task(e.task_id)>> >>
        BY <3>2
      <4> QED BY <2>1, <3>2, <4>1, LinesAreNodes, FewElements
    <3> QED BY <3>1, <3>2
  <2>4. TaskOf(e) = a \o b
    BY <1>2 DEF TaskOf
  <2> HIDE DEF a, b
  <2>5. a \o b \in Seq(TextLine) /\ ElementsOf(a \o b) = ElementsOf(a) \cup ElementsOf(b)
    BY <2>2, <2>3, ConcatElements
  <2>6. \A l : l \in ElementsOf(TaskOf(e)) <=>
               \/ l = <<Task(e.task_id)>>
               \/ e.parent_task_id # None /\ l = <<Task(e.parent_task_id), Task(e.task_id)>>
    BY <2>2, <2>3, <2>4, <2>5
  <2> QED BY <1>2, <2>4, <2>5, <2>6
<1> QED BY <1>1, <1>2

LEMMA IntegrationOfElements ==
  ASSUME NEW log \in Seq(Event), NEW parent \in TaskId
  PROVE  /\ IntegrationOf(log, parent) \in Seq(TextLine)
         /\ \A l : l \in ElementsOf(IntegrationOf(log, parent)) <=>
              \/ l = << <<"integration", parent>> >>
              \/ \E i \in 1..Len(log) :
                   IsChildOf(log[i], parent) /\ l = <<Task(log[i].task_id), <<"integration", parent>>>>
<1> DEFINE n == <<"integration", parent>>
           a == << <<n>> >>
           texts == [i \in 1..Len(log) |-> ChildIntegrated(log[i], parent)]
           b == Joint(texts)
<1>1. n \in Node /\ Len(log) \in Nat
  BY NodeFacts
<1>2. a \in Seq(TextLine) /\ ElementsOf(a) = {<<n>>}
  BY <1>1, LinesAreNodes, FewElements
<1>3. ASSUME NEW i \in 1..Len(log)
      PROVE  /\ ChildIntegrated(log[i], parent) \in Seq(TextLine)
             /\ \A l : l \in ElementsOf(ChildIntegrated(log[i], parent)) <=>
                  IsChildOf(log[i], parent) /\ l = <<Task(log[i].task_id), n>>
  <2>0. log[i] \in Event
    OBVIOUS
  <2>1. CASE IsChildOf(log[i], parent)
    <3>1. Task(log[i].task_id) \in Node
      BY <2>0, <2>1, NodeFacts DEF IsChildOf
    <3>2. ChildIntegrated(log[i], parent) = << <<Task(log[i].task_id), n>> >>
      BY <2>1 DEF ChildIntegrated
    <3> DEFINE from == Task(log[i].task_id)
               edge == <<from, n>>
    <3>3. from \in Node /\ ChildIntegrated(log[i], parent) = <<edge>>
      BY <3>1, <3>2
    <3>4. edge \in TextLine /\ << edge >> \in Seq(TextLine)
      <4> HIDE DEF n, from
      <4> QED BY <1>1, <3>3, LinesAreNodes
    <3>5. ElementsOf(<<edge>>) = {edge}
      <4> HIDE DEF edge
      <4> QED BY <3>4, FewElements
    <3> HIDE DEF edge
    <3>6. /\ ChildIntegrated(log[i], parent) \in Seq(TextLine)
          /\ \A l : l \in ElementsOf(ChildIntegrated(log[i], parent)) <=> l = edge
      BY <3>3, <3>4, <3>5
    <3> QED BY <2>1, <3>6 DEF edge
  <2>2. CASE ~IsChildOf(log[i], parent)
    <3>1. ChildIntegrated(log[i], parent) = <<>> /\ <<>> \in Seq(TextLine)
      BY <2>2 DEF ChildIntegrated
    <3> QED BY <2>2, <3>1, FewElements
  <2> QED BY <2>1, <2>2
<1>4. texts \in [1..Len(log) -> Seq(TextLine)] /\ \A i \in 1..Len(log) : texts[i] = ChildIntegrated(log[i], parent)
  BY <1>3
<1>5. IntegrationOf(log, parent) = a \o b
  BY DEF IntegrationOf
<1> HIDE DEF texts, n
<1>6. b \in Seq(TextLine) /\ \A l : l \in ElementsOf(b) <=>
        \E i \in 1..Len(log) : IsChildOf(log[i], parent) /\ l = <<Task(log[i].task_id), n>>
  <2>1. b \in Seq(TextLine) /\ \A l : l \in ElementsOf(b) <=>
          \E i \in 1..Len(log) : l \in ElementsOf(texts[i])
    BY <1>1, <1>4, JointElements
  <2> QED BY <1>3, <1>4, <2>1
<1> HIDE DEF a, b
<1>7. a \o b \in Seq(TextLine) /\ ElementsOf(a \o b) = ElementsOf(a) \cup ElementsOf(b)
  BY <1>2, <1>6, ConcatElements
<1> QED BY <1>2, <1>5, <1>6, <1>7 DEF n

LEMMA ParentsAreFinite ==
  ASSUME NEW log \in Seq(Event)
  PROVE  IntegrationParents(log) \subseteq TaskId /\ IsFiniteSet(IntegrationParents(log))
<1> DEFINE hits == {i \in 1..Len(log) : log[i].event_type = "IntegrationRequested"}
           all == {log[i].task_id : i \in hits}
           f == [i \in hits |-> log[i].task_id]
<1>1. ASSUME NEW i \in 1..Len(log)
      PROVE  log[i].task_id \in TaskId \cup {None}
  <2>1. log[i] \in Event
    OBVIOUS
  <2> QED BY <2>1 DEF Event
<1>2. Len(log) \in Nat /\ 1 \in Int /\ Len(log) \in Int
  OBVIOUS
<1>3. IsFiniteSet(1..Len(log))
  BY <1>2, FS_Interval
<1>4. IsFiniteSet(hits)
  BY <1>3, FS_Subset
<1>5. f \in Surjection(hits, all)
  BY DEF Surjection
<1>6. IsFiniteSet(all)
  BY <1>4, <1>5, FS_Surjection
<1>7. IntegrationParents(log) = all \ {None}
  BY DEF IntegrationParents
<1>8. IntegrationParents(log) \in SUBSET all
  BY <1>7
<1>9. IsFiniteSet(IntegrationParents(log))
  BY <1>6, <1>8, FS_Subset
<1> QED BY <1>1, <1>7, <1>9

\* However the HashSet is walked through, each parent is met.
LEMMA EachIsMet ==
  ASSUME NEW S, IsFiniteSet(S), NEW order \in Sequence!SetToSeqs(S)
  PROVE  /\ Cardinality(S) \in Nat /\ order \in [1..Cardinality(S) -> S]
         /\ \A p \in S : \E i \in 1..Cardinality(S) : order[i] = p
<1>1. Cardinality(S) \in Nat
  BY FS_CardinalityType
<1>2. order \in Injection(1..Cardinality(S), S)
  <2> DEFINE D == 1..Cardinality(S)
  <2>1. order \in [D -> S] /\ \A i, j \in D : i # j => order[i] # order[j]
    <3>1. Sequence!Cardinality(S) = Cardinality(S)
      BY DEF Sequence!Cardinality, Cardinality
    <3> QED BY <3>1 DEF Sequence!SetToSeqs
  <2> HIDE DEF D
  <2>2. \A i, j \in D : order[i] = order[j] => i = j
    BY <2>1
  <2>3. order \in Injection(D, S)
    BY <2>1, <2>2, Fun_IsInj
  <2> QED BY <2>3 DEF D
<1>3. IsFiniteSet(1..Cardinality(S)) /\ Cardinality(1..Cardinality(S)) = Cardinality(S)
  BY <1>1, FS_Interval
<1>4. order \in Surjection(1..Cardinality(S), S)
  BY <1>2, <1>3, FS_Injection
<1> QED BY <1>1, <1>4 DEF Surjection

\* Whatever order the parents come in, the task diagram has the same lines.
LEMMA TaskDependencyElements ==
  ASSUME NEW log \in Seq(Event), NEW text \in TaskDependencyTexts(log)
  PROVE  /\ text \in Seq(TextLine)
         /\ \A l : l \in ElementsOf(text) <=>
              \/ \E i \in 1..Len(log) : l \in ElementsOf(TaskOf(log[i]))
              \/ \E p \in IntegrationParents(log) : l \in ElementsOf(IntegrationOf(log, p))
<1> DEFINE P == IntegrationParents(log)
           tasks == [i \in 1..Len(log) |-> TaskOf(log[i])]
           OfTasks(l) == \E i \in 1..Len(log) : l \in ElementsOf(TaskOf(log[i]))
           OfParents(l) == \E p \in P : l \in ElementsOf(IntegrationOf(log, p))
<1>1. PICK order \in Sequence!SetToSeqs(P) :
        text = Joint(tasks) \o Joint([i \in 1..Len(order) |-> IntegrationOf(log, order[i])])
  BY DEF TaskDependencyTexts
<1>2. P \subseteq TaskId /\ IsFiniteSet(P)
  BY ParentsAreFinite
<1> DEFINE n == Cardinality(P)
<1>3. n \in Nat /\ order \in [1..n -> P] /\ \A p \in P : \E i \in 1..n : order[i] = p
  <2> HIDE DEF P
  <2> QED BY <1>1, <1>2, EachIsMet
<1> HIDE DEF n, P
<1>4. Len(order) = n
  BY <1>3
<1> DEFINE parents == [i \in 1..n |-> IntegrationOf(log, order[i])]
<1>5. /\ Joint(tasks) \in Seq(TextLine)
      /\ \A l : l \in ElementsOf(Joint(tasks)) <=> OfTasks(l)
  <2>1. tasks \in [1..Len(log) -> Seq(TextLine)] /\ Len(log) \in Nat
    <3>1. \A i \in 1..Len(log) : log[i] \in Event
      OBVIOUS
    <3>2. \A i \in 1..Len(log) : TaskOf(log[i]) \in Seq(TextLine)
      BY <3>1, TaskOfElements
    <3> QED BY <3>2
  <2>2. \A i \in 1..Len(log) : tasks[i] = TaskOf(log[i])
    OBVIOUS
  <2> HIDE DEF tasks
  <2> QED BY <2>1, <2>2, JointElements
<1>6. /\ Joint(parents) \in Seq(TextLine)
      /\ \A l : l \in ElementsOf(Joint(parents)) <=> OfParents(l)
  <2>1. parents \in [1..n -> Seq(TextLine)]
    <3>1. \A i \in 1..n : order[i] \in TaskId
      BY <1>2, <1>3
    <3>2. \A i \in 1..n : IntegrationOf(log, order[i]) \in Seq(TextLine)
      BY <3>1, IntegrationOfElements
    <3> QED BY <3>2
  <2>2. \A i \in 1..n : parents[i] = IntegrationOf(log, order[i]) /\ order[i] \in P
    BY <1>3
  <2> HIDE DEF parents
  <2>3. /\ Joint(parents) \in Seq(TextLine)
        /\ \A l : l \in ElementsOf(Joint(parents)) <=> \E i \in 1..n : l \in ElementsOf(parents[i])
    BY <1>3, <2>1, JointElements
  <2>4. ASSUME NEW l, NEW i \in 1..n, l \in ElementsOf(parents[i])
        PROVE  OfParents(l)
    BY <2>2, <2>4
  <2>5. ASSUME NEW l, NEW p \in P, l \in ElementsOf(IntegrationOf(log, p))
        PROVE  \E i \in 1..n : l \in ElementsOf(parents[i])
    <3>1. PICK i \in 1..n : order[i] = p
      BY <1>3
    <3> QED BY <2>2, <2>5, <3>1
  <2> QED BY <2>3, <2>4, <2>5
<1>7. text = Joint(tasks) \o Joint(parents)
  BY <1>1, <1>4
<1> DEFINE a == Joint(tasks)
           b == Joint(parents)
<1>8. a \in Seq(TextLine) /\ b \in Seq(TextLine) /\ text = a \o b
  BY <1>5, <1>6, <1>7
<1>9. \A l : (l \in ElementsOf(a) <=> OfTasks(l)) /\ (l \in ElementsOf(b) <=> OfParents(l))
  BY <1>5, <1>6
<1> HIDE DEF a, b, OfTasks, OfParents
<1>10. text \in Seq(TextLine) /\ ElementsOf(text) = ElementsOf(a) \cup ElementsOf(b)
  BY <1>8, ConcatElements
<1>11. \A l : l \in ElementsOf(text) <=> OfTasks(l) \/ OfParents(l)
  BY <1>9, <1>10
<1> QED BY <1>10, <1>11 DEF OfTasks, OfParents, P

LEMMA GroupOfElements ==
  ASSUME NEW log \in Seq(Event), NEW g \in Event
  PROVE  LET group == <<"integration_group", g.event_id>> IN
         /\ GroupOf(log, g) \in Seq(TextLine)
         /\ \A l : l \in ElementsOf(GroupOf(log, g)) <=>
              /\ IsGroup(g) /\ g.task_id # None
              /\ \/ l \in {<<Task(g.task_id)>>, <<group>>, <<Task(g.task_id), group>>}
                 \/ \E i \in 1..Len(log) : l \in ElementsOf(ChildGrouped(log[i], g))
                 \/ \E m \in 1..Len(log) :
                      /\ LastAt(ReportsOf(log, g), m)
                      /\ l \in ElementsOf(Caused(group, log[m], "integration_report", TRUE))
<1> DEFINE t == Task(g.task_id)
           group == <<"integration_group", g.event_id>>
           text == GroupOf(log, g)
           hits == ReportsOf(log, g)
           report == LastOf(log, hits)
           grouped == [i \in 1..Len(log) |-> ChildGrouped(log[i], g)]
           reported == [i \in 1..Len(report) |-> Caused(group, report[i], "integration_report", TRUE)]
           OfChildren(l) == \E i \in 1..Len(log) : l \in ElementsOf(ChildGrouped(log[i], g))
           OfReport(l) == \E m \in 1..Len(log) :
                            /\ LastAt(hits, m)
                            /\ l \in ElementsOf(Caused(group, log[m], "integration_report", TRUE))
<1>1. group \in Node /\ hits \in SUBSET (1..Len(log)) /\ Len(log) \in Nat
      /\ "integration_report" \in NodeName /\ TRUE \in BOOLEAN
  BY NodeFacts DEF ReportsOf, NodeName
<1>2. CASE ~IsGroup(g) \/ g.task_id = None
  <2>1. text = <<>>
    BY <1>2 DEF GroupOf
  <2>2. text \in Seq(TextLine) /\ \A l : l \notin ElementsOf(text)
    BY <2>1, FewElements
  <2> HIDE DEF text, OfChildren, OfReport
  <2>3. \A l : l \in ElementsOf(text) <=>
                 /\ IsGroup(g) /\ g.task_id # None
                 /\ l \in {<<t>>, <<group>>, <<t, group>>} \/ OfChildren(l) \/ OfReport(l)
    BY <1>2, <2>2
  <2> QED BY <2>2, <2>3 DEF text, OfChildren, OfReport
<1>3. CASE IsGroup(g) /\ g.task_id # None
  <2>1. t \in Node
    BY <1>3, NodeFacts
  <2>2. /\ << <<t>> >> \in Seq(TextLine) /\ ElementsOf(<< <<t>> >>) = {<<t>>}
        /\ Drawn(t, group) \in Seq(TextLine) /\ ElementsOf(Drawn(t, group)) = {<<group>>, <<t, group>>}
    <3> HIDE DEF t, group
    <3> QED BY <1>1, <2>1, LinesAreNodes, FewElements, DrawnElements
  <2>3. Joint(grouped) \in Seq(TextLine) /\ \A l : l \in ElementsOf(Joint(grouped)) <=> OfChildren(l)
    <3>1. ASSUME NEW i \in 1..Len(log)
          PROVE  ChildGrouped(log[i], g) \in Seq(TextLine)
      <4>1. CASE IsChildOf(log[i], g.task_id)
        <5>1. log[i] \in Event
          OBVIOUS
        <5>2. Task(log[i].task_id) \in Node
          BY <4>1, <5>1, NodeFacts DEF IsChildOf
        <5> DEFINE c == Task(log[i].task_id)
        <5>3. ChildGrouped(log[i], g) = << <<c>>, <<c, group>> >>
          BY <4>1 DEF ChildGrouped
        <5> HIDE DEF c, group
        <5>4. <<c>> \in TextLine /\ <<c, group>> \in TextLine
          BY <1>1, <5>2, LinesAreNodes DEF c
        <5> QED BY <5>3, <5>4
      <4>2. CASE ~IsChildOf(log[i], g.task_id)
        BY <4>2 DEF ChildGrouped
      <4> QED BY <4>1, <4>2
    <3>2. grouped \in [1..Len(log) -> Seq(TextLine)]
          /\ \A i \in 1..Len(log) : grouped[i] = ChildGrouped(log[i], g)
      BY <3>1
    <3> HIDE DEF grouped
    <3> QED BY <1>1, <3>2, JointElements
  <2>4. Joint(reported) \in Seq(TextLine) /\ \A l : l \in ElementsOf(Joint(reported)) <=> OfReport(l)
    <3>0. report \in Seq(Event)
      <4> HIDE DEF hits
      <4>1. CASE hits = {}
        <5>1. report = <<>>
          BY <1>1, <4>1, LastOfIs
        <5> QED BY <5>1
      <4>2. CASE hits # {}
        <5>1. PICK m \in hits : report = <<log[m]>>
          BY <1>1, <4>2, LastOfIs
        <5>2. log[m] \in Event
          BY <1>1
        <5> QED BY <5>1, <5>2
      <4> QED BY <4>1, <4>2
    <3>1. reported \in [1..Len(report) -> Seq(TextLine)]
      <4>1. \A i \in 1..Len(report) : report[i] \in Event
        BY <3>0
      <4>2. \A i \in 1..Len(report) :
              Caused(group, report[i], "integration_report", TRUE) \in Seq(TextLine)
        BY <1>1, <4>1, CausedElements
      <4> QED BY <4>2
    <3>2. CASE hits = {}
      <4>1. \A l : ~OfReport(l)
        BY <3>2 DEF LastAt
      <4>2. Joint(reported) \in Seq(TextLine) /\ ElementsOf(Joint(reported)) = {}
        <5> HIDE DEF hits, reported
        <5> QED BY <1>1, <3>1, <3>2, LastDrawn
      <4> HIDE DEF OfReport, reported
      <4> QED BY <4>1, <4>2
    <3>3. CASE hits # {}
      <4>1. PICK m \in hits : \A j \in hits : j <= m
        BY <1>1, <3>3, LastOfIs
      <4>2. Len(report) = 1 /\ report[1] = log[m] /\ Joint(reported) \in Seq(TextLine)
            /\ ElementsOf(Joint(reported)) = ElementsOf(reported[1])
        <5> HIDE DEF hits, reported
        <5> QED BY <1>1, <3>1, <4>1, LastDrawn
      <4>3. reported[1] = Caused(group, log[m], "integration_report", TRUE)
        <5>1. 1 \in 1..Len(report)
          BY <4>2
        <5>2. reported[1] = Caused(group, report[1], "integration_report", TRUE)
          <6> HIDE DEF report, group
          <6> QED BY <5>1
        <5> QED BY <4>2, <5>2
      <4>4. \A k : LastAt(hits, k) <=> k = m
        <5> HIDE DEF hits
        <5>1. \A k \in hits : k \in Nat
          BY <1>1
        <5> QED BY <4>1, <5>1 DEF LastAt
      <4> HIDE DEF reported, report, hits
      <4> QED BY <1>1, <4>1, <4>2, <4>3, <4>4
    <3> QED BY <3>2, <3>3
  <2>5. text = << <<t>> >> \o Drawn(t, group) \o Joint(grouped) \o Joint(reported)
    BY <1>3 DEF GroupOf
  <2> HIDE DEF t, group, grouped, reported
  <2> DEFINE a == << <<t>> >>
             b == Drawn(t, group)
             c == Joint(grouped)
             d == Joint(reported)
  <2>6. /\ text = a \o b \o c \o d
        /\ a \in Seq(TextLine) /\ b \in Seq(TextLine) /\ c \in Seq(TextLine) /\ d \in Seq(TextLine)
        /\ ElementsOf(a) = {<<t>>} /\ ElementsOf(b) = {<<group>>, <<t, group>>}
    BY <2>2, <2>3, <2>4, <2>5
  <2> HIDE DEF a, b, c, d, text
  <2> DEFINE ab == a \o b
             abc == ab \o c
  <2>7. ab \in Seq(TextLine) /\ ElementsOf(ab) = ElementsOf(a) \cup ElementsOf(b)
    BY <2>6, ConcatElements
  <2>8. abc \in Seq(TextLine) /\ ElementsOf(abc) = ElementsOf(ab) \cup ElementsOf(c)
    <3> HIDE DEF ab
    <3> QED BY <2>6, <2>7, ConcatElements
  <2>9. text = abc \o d
    BY <2>6
  <2> HIDE DEF ab, abc
  <2>10. text \in Seq(TextLine) /\ ElementsOf(text) = ElementsOf(abc) \cup ElementsOf(d)
    BY <2>6, <2>8, <2>9, ConcatElements
  <2>11. ElementsOf(text) = {<<t>>, <<group>>, <<t, group>>} \cup ElementsOf(c) \cup ElementsOf(d)
    BY <2>6, <2>7, <2>8, <2>10
  <2> HIDE DEF OfChildren, OfReport
  <2>12. \A l : l \in ElementsOf(text) <=>
                  l \in {<<t>>, <<group>>, <<t, group>>} \/ OfChildren(l) \/ OfReport(l)
    BY <2>3, <2>4, <2>11 DEF c, d
  <2> QED BY <1>3, <2>10, <2>12 DEF text, OfChildren, OfReport, t, group
<1> QED BY <1>2, <1>3

LEMMA GroupElements ==
  ASSUME NEW log \in Seq(Event)
  PROVE  /\ IntegrationGroup(log) \in Seq(TextLine)
         /\ \A l : l \in ElementsOf(IntegrationGroup(log)) <=>
              \E i \in 1..Len(log) : l \in ElementsOf(GroupOf(log, log[i]))
<1> DEFINE texts == [i \in 1..Len(log) |-> GroupOf(log, log[i])]
<1>1. texts \in [1..Len(log) -> Seq(TextLine)]
  <2> SUFFICES ASSUME NEW i \in 1..Len(log)
               PROVE  GroupOf(log, log[i]) \in Seq(TextLine)
    OBVIOUS
  <2>1. log[i] \in Event
    OBVIOUS
  <2> QED BY <2>1, GroupOfElements
<1>2. Len(log) \in Nat /\ IntegrationGroup(log) = Joint(texts)
  BY DEF IntegrationGroup
<1>3. \A i \in 1..Len(log) : texts[i] = GroupOf(log, log[i])
  OBVIOUS
<1> HIDE DEF texts
<1> QED BY <1>1, <1>2, <1>3, JointElements
===============================================================================
