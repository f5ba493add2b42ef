---------------------------- MODULE JsonlFileProofs ----------------------------
(***************************************************************************)
(* What holds of a JSONL file for every number of writers, every set of records  *)
(* and every way writes may stop.                                            *)
(*                                                                         *)
(* The inductive invariant follows the lines: a whole line never changes again,   *)
(* and a line that was damaged once and got a newline stays (AckedInFile); what   *)
(* a writer has checked stays true until the next line is written                *)
(* (FreshChecks).                                                            *)
(***************************************************************************)
EXTENDS JsonlFile, LoomEventsProofs, FiniteSetTheorems

\* While a file is created nobody appends to it, and its lines are whole.
CreatedAlone ==
  creating # <<>> =>
    /\ acked = {}
    /\ \A w \in Writer : pending[w] = None
    /\ \A i \in 1..Len(file) : file[i].kind = "record"

IsLine(e) == \E i \in 1..Len(file) : file[i].kind = "record" /\ file[i].record = e
Damaged == \E i \in 1..Len(file) : file[i].kind = "garbage"
AckedInFile == \A e \in acked : IsLine(e) \/ Damaged

FreshChecks ==
  \A w \in Writer :
    /\ checked[w] <= version
    /\ pending[w] # None /\ checked[w] = version =>
         Readable /\ Admits(RecordsOf(file), pending[w])

IInv == TypeOK /\ CreatedAlone /\ AckedInFile /\ FreshChecks

-----------------------------------------------------------------------------
(* Lines. *)

LEMMA WholeIsLine ==
  ASSUME NEW e \in Offered
  PROVE  Whole(e) \in Line /\ Whole(e).kind = "record" /\ Whole(e).record = e
BY OfferedAssumption DEF Whole, Line

LEMMA PartIsLine ==
  ASSUME NEW e \in Offered, NEW kind \in Faults
  PROVE  LET l == [kind |-> kind, record |-> IF kind = "bare" THEN e ELSE None]
         IN  l \in Line /\ l.kind \in {"bare", "torn"}
BY OfferedAssumption, FaultsAssumption DEF Line

\* What text written at the end does: whole and garbage lines stay as they are, and
\* a whole line that is written is there afterwards, or a line is garbage.
LEMMA ExtendedFacts ==
  ASSUME TypeOK, NEW line \in Line, line.kind # "garbage"
  PROVE  /\ Extended(line) \in Seq(Line)
         /\ Len(Extended(line)) \in {Len(file), Len(file) + 1}
         /\ \A i \in 1..(Len(Extended(line)) - 1) :
              Extended(line)[i].kind \in {"record", "garbage"}
         /\ \A i \in 1..Len(file) :
              file[i].kind \in {"record", "garbage"} => Extended(line)[i] = file[i]
         /\ line.kind = "record" =>
              \E i \in 1..Len(Extended(line)) :
                Extended(line)[i] = line \/ Extended(line)[i].kind = "garbage"
<1> DEFINE n == Len(file)
           x == [kind |-> IF line.kind = "record" THEN "garbage" ELSE "torn", record |-> None]
<1>1. file \in Seq(Line) /\ n \in Nat /\ \A i \in 1..(n - 1) : file[i].kind \in {"record", "garbage"}
  BY DEF TypeOK
<1>2. CASE ~Unterminated
  <2>1. Extended(line) = Append(file, line)
    BY <1>2 DEF Extended
  <2>2. /\ Append(file, line) \in Seq(Line) /\ Len(Append(file, line)) = n + 1
        /\ Append(file, line)[n + 1] = line
        /\ \A i \in 1..n : Append(file, line)[i] = file[i]
    BY <1>1, AppendFacts
  <2>3. ASSUME n # 0 PROVE file[n].kind \in {"record", "garbage"}
    <3>1. file # <<>> /\ file[n] \in Line
      BY <1>1, <2>3
    <3> QED
      BY <1>2, <3>1 DEF Unterminated, Line
  <2>4. \A i \in 1..n : file[i].kind \in {"record", "garbage"}
    BY <1>1, <2>3
  <2> QED
    BY <1>1, <2>1, <2>2, <2>4
<1>3. CASE Unterminated
  <2>1. Extended(line) = [file EXCEPT ![n] = x]
    BY <1>3 DEF Extended
  <2>2. x \in Line /\ n \in 1..n /\ file[n].kind \in {"bare", "torn"}
    BY <1>1, <1>3 DEF Line, Unterminated
  <2>3. /\ [file EXCEPT ![n] = x] \in Seq(Line) /\ Len([file EXCEPT ![n] = x]) = n
        /\ [file EXCEPT ![n] = x][n] = x
        /\ \A i \in 1..n : i # n => [file EXCEPT ![n] = x][i] = file[i]
    BY <1>1, <2>2
  <2>4. \A i \in 1..n : file[i].kind \in {"record", "garbage"} => i # n
    BY <2>2
  <2>5. line.kind = "record" => x.kind = "garbage"
    OBVIOUS
  <2> HIDE DEF x
  <2>6. \A i \in 1..(n - 1) : Extended(line)[i].kind \in {"record", "garbage"}
    <3> SUFFICES ASSUME NEW i \in 1..(n - 1)
                 PROVE  Extended(line)[i].kind \in {"record", "garbage"}
      OBVIOUS
    <3>1. i \in 1..n /\ i # n
      BY <1>1
    <3>2. Extended(line)[i] = file[i]
      BY <2>1, <2>3, <3>1
    <3> QED
      BY <1>1, <3>2
  <2>7. \A i \in 1..n : file[i].kind \in {"record", "garbage"} => Extended(line)[i] = file[i]
    BY <2>1, <2>3, <2>4
  <2>8. line.kind = "record" => Extended(line)[n].kind = "garbage"
    BY <2>1, <2>3, <2>5
  <2>9. Extended(line) \in Seq(Line) /\ Len(Extended(line)) = n
    BY <2>1, <2>3
  <2> QED
    BY <2>2, <2>6, <2>7, <2>8, <2>9
<1> QED
  BY <1>2, <1>3

\* What was a line, or garbage, remains one.
LEMMA LinesStay ==
  ASSUME TypeOK, TypeOK', Len(file) <= Len(file'),
         \A i \in 1..Len(file) : file[i].kind \in {"record", "garbage"} => file'[i] = file[i]
  PROVE  (\A e : IsLine(e) => IsLine(e)') /\ (Damaged => Damaged')
<1>1. Len(file) \in Nat /\ Len(file') \in Nat
  BY DEF TypeOK
<1>2. ASSUME NEW e, IsLine(e) PROVE IsLine(e)'
  BY <1>1, <1>2 DEF IsLine
<1>3. ASSUME Damaged PROVE Damaged'
  BY <1>1, <1>3 DEF Damaged
<1> QED
  BY <1>2, <1>3

-----------------------------------------------------------------------------
(* The invariant is inductive. *)

LEMMA InvariantAtFirst == Init => IInv
<1> SUFFICES ASSUME Init PROVE IInv
  OBVIOUS
<1>1. TypeOK
  BY GivenAssumption, MaxWritesAssumption DEF Init, TypeOK
<1>2. CreatedAlone /\ AckedInFile /\ FreshChecks
  BY DEF Init, CreatedAlone, AckedInFile, FreshChecks
<1> QED
  BY <1>1, <1>2 DEF IInv

LEMMA CreateLineStep ==
  ASSUME IInv, CreateLine
  PROVE  IInv'
<1> DEFINE l == Whole(Head(creating))
           n == Len(file)
<1>1. /\ TypeOK /\ CreatedAlone /\ FreshChecks /\ creating # <<>>
      /\ file' = Append(file, l) /\ creating' = Tail(creating)
      /\ acked' = IF creating' = <<>> THEN {file'[i].record : i \in 1..Len(file')} ELSE acked
      /\ UNCHANGED <<rules, pending, version, checked>>
  BY DEF IInv, CreateLine
<1>2. /\ creating \in Seq(Offered) /\ Head(creating) \in Offered /\ Tail(creating) \in Seq(Offered)
      /\ file \in Seq(Line) /\ n \in Nat
  BY <1>1 DEF TypeOK
<1>3. l \in Line /\ l.kind = "record" /\ l.record \in Offered
  BY <1>2, WholeIsLine
<1>4. /\ file' \in Seq(Line) /\ Len(file') = n + 1 /\ file'[n + 1] = l
      /\ \A i \in 1..n : file'[i] = file[i]
  BY <1>1, <1>2, <1>3, AppendFacts
<1>5. \A i \in 1..Len(file') : file'[i].kind = "record"
  BY <1>1, <1>2, <1>3, <1>4 DEF CreatedAlone
<1>6. TypeOK'
  <2>1. \A i \in 1..Len(file') : file'[i].record \in Offered
    BY <1>4, <1>5 DEF Line
  <2>2. acked' \subseteq Offered
    BY <1>1, <2>1 DEF TypeOK
  <2>3. \A i \in 1..(Len(file') - 1) : file'[i].kind \in {"record", "garbage"}
    BY <1>2, <1>4, <1>5
  <2> QED
    BY <1>1, <1>2, <1>4, <2>2, <2>3 DEF TypeOK
<1>7. CreatedAlone'
  BY <1>1, <1>5 DEF CreatedAlone
<1>8. AckedInFile'
  <2> SUFFICES ASSUME NEW e \in acked' PROVE IsLine(e)'
    BY DEF AckedInFile
  <2>1. creating' = <<>> /\ \E i \in 1..Len(file') : file'[i].record = e
    BY <1>1 DEF CreatedAlone
  <2> QED
    BY <1>5, <2>1 DEF IsLine
<1>9. FreshChecks'
  BY <1>1 DEF CreatedAlone, FreshChecks
<1> QED
  BY <1>6, <1>7, <1>8, <1>9 DEF IInv

LEMMA CreateStopsStep ==
  ASSUME IInv, NEW kind \in Faults, CreateStops(kind)
  PROVE  IInv'
<1> DEFINE l == [kind |-> kind, record |-> IF kind = "bare" THEN Head(creating) ELSE None]
           n == Len(file)
<1>1. /\ TypeOK /\ CreatedAlone /\ FreshChecks /\ creating # <<>>
      /\ file' \in {file, Append(file, l)} /\ creating' = <<>>
      /\ UNCHANGED <<rules, pending, acked, version, checked>>
  BY DEF IInv, CreateStops
<1>2. /\ creating \in Seq(Offered) /\ Head(creating) \in Offered
      /\ file \in Seq(Line) /\ n \in Nat /\ \A i \in 1..n : file[i].kind = "record"
  BY <1>1 DEF TypeOK, CreatedAlone
<1>3. l \in Line
  BY <1>2, PartIsLine
<1> HIDE DEF l
<1>4. /\ Append(file, l) \in Seq(Line) /\ Len(Append(file, l)) = n + 1
      /\ \A i \in 1..n : Append(file, l)[i] = file[i]
  BY <1>2, <1>3, AppendFacts
<1>5. file' \in Seq(Line) /\ \A i \in 1..(Len(file') - 1) : file'[i].kind \in {"record", "garbage"}
  <2>1. CASE file' = file
    BY <1>2, <2>1
  <2>2. CASE file' = Append(file, l)
    BY <1>2, <1>4, <2>2
  <2> QED
    BY <1>1, <2>1, <2>2
<1>6. TypeOK'
  BY <1>1, <1>5 DEF TypeOK
<1>7. CreatedAlone' /\ AckedInFile' /\ FreshChecks'
  BY <1>1 DEF CreatedAlone, AckedInFile, FreshChecks
<1> QED
  BY <1>6, <1>7 DEF IInv

LEMMA PrepareStep ==
  ASSUME IInv, NEW w \in Writer, NEW e \in Offered, Prepare(w, e)
  PROVE  IInv'
<1>1. /\ TypeOK /\ CreatedAlone /\ AckedInFile /\ FreshChecks
      /\ creating = <<>> /\ Readable /\ Admits(RecordsOf(file), e)
      /\ pending' = [pending EXCEPT ![w] = e] /\ checked' = [checked EXCEPT ![w] = version]
      /\ UNCHANGED <<rules, file, creating, acked, version>>
  BY DEF IInv, Prepare, Check
<1>2. TypeOK'
  BY <1>1 DEF TypeOK
<1>3. CreatedAlone' /\ AckedInFile'
  BY <1>1 DEF CreatedAlone, AckedInFile, IsLine, Damaged
<1>4. /\ Readable' <=> Readable
      /\ \A x : Admits(RecordsOf(file), x)' <=> Admits(RecordsOf(file), x)
  BY <1>1 DEF Readable, Reads, Parses, Admissible, RecordsOf, Admits
<1>5. FreshChecks'
  <2> SUFFICES ASSUME NEW v \in Writer
               PROVE  /\ checked'[v] <= version'
                      /\ pending'[v] # None /\ checked'[v] = version' =>
                           Readable' /\ Admits(RecordsOf(file), pending[v])'
    BY DEF FreshChecks
  <2>1. CASE v = w
    BY <1>1, <1>4, <2>1 DEF TypeOK
  <2>2. CASE v # w
    BY <1>1, <1>4, <2>2 DEF TypeOK, FreshChecks
  <2> QED
    BY <2>1, <2>2
<1> QED
  BY <1>2, <1>3, <1>5 DEF IInv

\* The line of a record appended: whole, or in part.
LEMMA AppendStep ==
  ASSUME IInv, NEW w \in Writer, pending[w] # None, version < MaxWrites,
         NEW line \in Line, line.kind # "garbage",
         file' = Extended(line), version' = version + 1,
         pending' = [pending EXCEPT ![w] = None],
         UNCHANGED <<rules, creating, checked>>,
         \/ acked' = acked
         \/ /\ line.kind = "record" /\ line.record = pending[w]
            /\ acked' = acked \cup {pending[w]}
  PROVE  IInv'
<1>1. TypeOK /\ CreatedAlone /\ AckedInFile /\ FreshChecks
  BY DEF IInv
<1>2. pending[w] \in Offered
  BY <1>1 DEF TypeOK
<1>3. /\ file' \in Seq(Line) /\ Len(file') \in {Len(file), Len(file) + 1} /\ Len(file) \in Nat
      /\ \A i \in 1..(Len(file') - 1) : file'[i].kind \in {"record", "garbage"}
      /\ \A i \in 1..Len(file) : file[i].kind \in {"record", "garbage"} => file'[i] = file[i]
      /\ line.kind = "record" =>
           \E i \in 1..Len(file') : file'[i] = line \/ file'[i].kind = "garbage"
  <2>1. /\ file' \in Seq(Line) /\ Len(file') \in {Len(file), Len(file) + 1}
        /\ \A i \in 1..(Len(file') - 1) : file'[i].kind \in {"record", "garbage"}
    BY <1>1, ExtendedFacts
  <2>2. \A i \in 1..Len(file) : file[i].kind \in {"record", "garbage"} => file'[i] = file[i]
    BY <1>1, ExtendedFacts
  <2>3. line.kind = "record" =>
          \E i \in 1..Len(file') : file'[i] = line \/ file'[i].kind = "garbage"
    BY <1>1, ExtendedFacts, Zenon
  <2>4. Len(file) \in Nat
    BY <1>1 DEF TypeOK
  <2> QED
    BY <2>1, <2>2, <2>3, <2>4
<1>4. TypeOK'
  BY <1>1, <1>2, <1>3, MaxWritesAssumption DEF TypeOK
<1>5. creating = <<>>
  BY <1>1 DEF CreatedAlone
<1>6. CreatedAlone'
  BY <1>5 DEF CreatedAlone
<1>7. AckedInFile'
  <2>1. (\A e : IsLine(e) => IsLine(e)') /\ (Damaged => Damaged')
    BY <1>1, <1>3, <1>4, LinesStay
  <2>2. PICK p : p = pending[w]
    OBVIOUS
  <2>3. ASSUME line.kind = "record" /\ line.record = p
        PROVE  IsLine(p)' \/ Damaged'
    <3>1. PICK i \in 1..Len(file') : file'[i] = line \/ file'[i].kind = "garbage"
      BY <1>3, <2>3
    <3>2. CASE file'[i] = line
      BY <2>3, <3>2 DEF IsLine
    <3>3. CASE file'[i].kind = "garbage"
      BY <3>3 DEF Damaged
    <3> QED
      BY <3>1, <3>2, <3>3
  <2>4. acked' \subseteq acked \cup {p}
        /\ (p \in acked' => p \in acked \/ (line.kind = "record" /\ line.record = p))
    BY <2>2
  <2> SUFFICES ASSUME NEW e \in acked' PROVE IsLine(e)' \/ Damaged'
    BY DEF AckedInFile
  <2>5. CASE e \in acked
    BY <1>1, <2>1, <2>5 DEF AckedInFile
  <2>6. CASE e = p /\ p \notin acked
    BY <2>3, <2>4, <2>6
  <2> QED
    BY <2>4, <2>5, <2>6
<1>8. FreshChecks'
  <2>1. version \in Nat /\ \A v \in Writer : checked[v] \in Nat /\ checked[v] <= version
    BY <1>1, MaxWritesAssumption DEF TypeOK, FreshChecks
  <2> QED
    BY <2>1 DEF FreshChecks
<1> QED
  BY <1>4, <1>6, <1>7, <1>8 DEF IInv

LEMMA GiveUpStep ==
  ASSUME IInv, NEW w \in Writer, GiveUp(w)
  PROVE  IInv'
<1>1. /\ TypeOK /\ CreatedAlone /\ AckedInFile /\ FreshChecks
      /\ pending' = [pending EXCEPT ![w] = None]
      /\ UNCHANGED <<rules, file, creating, acked, version, checked>>
  BY DEF IInv, GiveUp
<1>2. TypeOK' /\ CreatedAlone' /\ AckedInFile'
  BY <1>1 DEF TypeOK, CreatedAlone, AckedInFile, IsLine, Damaged
<1>3. /\ Readable' <=> Readable
      /\ \A x : Admits(RecordsOf(file), x)' <=> Admits(RecordsOf(file), x)
  BY <1>1 DEF Readable, Reads, Parses, Admissible, RecordsOf, Admits
<1>4. FreshChecks'
  BY <1>1, <1>3 DEF TypeOK, FreshChecks
<1> QED
  BY <1>2, <1>4 DEF IInv

LEMMA EveryStep ==
  ASSUME IInv, [Next]_vars
  PROVE  IInv'
<1>1. CASE CreateLine
  BY <1>1, CreateLineStep
<1>2. ASSUME NEW kind \in Faults, CreateStops(kind) PROVE IInv'
  BY <1>2, CreateStopsStep
<1>3. ASSUME NEW w \in Writer, NEW e \in Offered, Prepare(w, e) PROVE IInv'
  BY <1>3, PrepareStep
<1>4. ASSUME NEW w \in Writer, Write(w) PROVE IInv'
  <2>1. pending[w] \in Offered
    BY <1>4 DEF IInv, TypeOK, Write
  <2>2. Whole(pending[w]) \in Line /\ Whole(pending[w]).kind = "record"
        /\ Whole(pending[w]).record = pending[w]
    BY <2>1, WholeIsLine
  <2> QED
    BY <1>4, <2>2, AppendStep DEF Write
<1>5. ASSUME NEW w \in Writer, NEW kind \in Faults, WriteStops(w, kind) PROVE IInv'
  <2> DEFINE l == [kind |-> kind, record |-> IF kind = "bare" THEN pending[w] ELSE None]
  <2>1. pending[w] \in Offered
    BY <1>5 DEF IInv, TypeOK, WriteStops
  <2>2. l \in Line /\ l.kind # "garbage"
    BY <2>1, PartIsLine
  <2>3. /\ pending[w] # None /\ version < MaxWrites /\ file' = Extended(l)
        /\ version' = version + 1 /\ pending' = [pending EXCEPT ![w] = None]
        /\ acked' = acked /\ UNCHANGED <<rules, creating, checked>>
    BY <1>5 DEF WriteStops
  <2> QED
    BY <2>2, <2>3, AppendStep
<1>6. ASSUME NEW w \in Writer, GiveUp(w) PROVE IInv'
  BY <1>6, GiveUpStep
<1>7. CASE UNCHANGED vars
  BY <1>7 DEF vars, IInv, TypeOK, CreatedAlone, AckedInFile, IsLine, Damaged, FreshChecks,
              Readable, Reads, Parses, Admissible, RecordsOf, Admits
<1> QED
  BY <1>1, <1>2, <1>3, <1>4, <1>5, <1>6, <1>7 DEF Next

\* Lines stay, and what was checked stays true until the next line.
THEOREM FileInvariant == Spec => []IInv
BY InvariantAtFirst, EveryStep, PTL DEF Spec

\* Type correctness of a file and its writers.
THEOREM FileTypeCorrect == Spec => []TypeOK
BY FileInvariant, PTL DEF IInv

\* For any number of writers, records and stopped writes: as long as a file can be
\* read, no acknowledged record is missing from it.
THEOREM NothingIsLostSilently == Spec => []AckedOrUnreadable
<1>1. IInv => AckedOrUnreadable
  <2> SUFFICES ASSUME IInv, Readable, NEW e \in acked
               PROVE  \E i \in 1..Len(file) : file[i].record = e
    BY DEF AckedOrUnreadable
  <2>1. ~Damaged
    BY DEF Readable, Reads, Parses, Damaged
  <2> QED
    BY <2>1 DEF IInv, AckedInFile, IsLine
<1> QED
  BY <1>1, FileInvariant, PTL

-----------------------------------------------------------------------------
(* Reading, of any lines f under any rules r: what the whole lines hold. *)

AdmissibleBy(r, log) == IF r = "events" THEN Appendable(log) ELSE UniqueIds(log)
AdmitsBy(r, log, e) ==
  IF r = "events" THEN Accepts(log, IdsOf(log), e) ELSE e.event_id \notin IdsOf(log)
WholeBy(r, f, k) ==
  (\A i \in 1..k : f[i].kind = "record") /\ AdmissibleBy(r, RecordsOf(SubSeq(f, 1, k)))
CountBy(r, f) == Cardinality({ k \in 1..Len(f) : WholeBy(r, f, k) })
KeptBy(r, f) == RecordsOf(SubSeq(f, 1, CountBy(r, f)))

LEMMA CountUpTo ==
  ASSUME NEW n \in Nat
  PROVE  IsFiniteSet(1..n) /\ Cardinality(1..n) = n
<1>1. 1 \in Int /\ n \in Int
  OBVIOUS
<1>2. IsFiniteSet(1..n) /\ Cardinality(1..n) = IF 1 > n THEN 0 ELSE n - 1 + 1
  BY <1>1, FS_Interval
<1>3. (IF 1 > n THEN 0 ELSE n - 1 + 1) = n
  OBVIOUS
<1> QED
  BY <1>2, <1>3

LEMMA SeqOfEvents ==
  ASSUME NEW log \in Seq(Offered)
  PROVE  log \in Seq(Event)
BY OfferedAssumption

LEMMA AdmissibleAppend ==
  ASSUME NEW r, NEW log \in Seq(Event), NEW e \in Event
  PROVE  AdmissibleBy(r, Append(log, e)) <=> AdmissibleBy(r, log) /\ AdmitsBy(r, log, e)
<1>1. CASE r = "events"
  BY <1>1, AppendableAppend DEF AdmissibleBy, AdmitsBy
<1>2. CASE r # "events"
  <2>1. /\ Len(log) \in Nat /\ Len(Append(log, e)) = Len(log) + 1
        /\ Append(log, e)[Len(log) + 1] = e
        /\ \A i \in 1..Len(log) : Append(log, e)[i] = log[i]
    BY AppendFacts
  <2>2. UniqueIds(Append(log, e)) <=>
          UniqueIds(log) /\ \A i \in 1..Len(log) : log[i].event_id # e.event_id
    BY <2>1 DEF UniqueIds
  <2>3. e.event_id \notin IdsOf(log) <=> \A i \in 1..Len(log) : log[i].event_id # e.event_id
    BY DEF IdsOf
  <2> QED
    BY <1>2, <2>2, <2>3 DEF AdmissibleBy, AdmitsBy
<1> QED
  BY <1>1, <1>2

LEMMA AdmissiblePrefix ==
  ASSUME NEW r, NEW log \in Seq(Event), NEW k \in 0..Len(log), AdmissibleBy(r, log)
  PROVE  AdmissibleBy(r, SubSeq(log, 1, k))
<1>1. CASE r = "events"
  BY <1>1, AppendablePrefix DEF AdmissibleBy
<1>2. CASE r # "events"
  <2>1. Len(SubSeq(log, 1, k)) = k /\ \A i \in 1..k : SubSeq(log, 1, k)[i] = log[i]
    OBVIOUS
  <2>2. UniqueIds(log)
    BY <1>2 DEF AdmissibleBy
  <2>3. UniqueIds(SubSeq(log, 1, k))
    BY <2>1, <2>2 DEF UniqueIds
  <2> QED
    BY <1>2, <2>3 DEF AdmissibleBy
<1> QED
  BY <1>1, <1>2

\* The records of whole lines, all of them or the first k.
LEMMA WholeRecords ==
  ASSUME NEW f \in Seq(Line), NEW k \in 0..Len(f),
         \A i \in 1..k : f[i].kind = "record"
  PROVE  /\ RecordsOf(SubSeq(f, 1, k)) \in Seq(Offered)
         /\ Len(RecordsOf(SubSeq(f, 1, k))) = k
         /\ \A i \in 1..k : RecordsOf(SubSeq(f, 1, k))[i] = f[i].record
<1> DEFINE g == SubSeq(f, 1, k)
<1>1. g \in Seq(Line) /\ Len(g) = k /\ k \in Nat /\ \A i \in 1..k : g[i] = f[i]
  OBVIOUS
<1>2. \A i \in 1..k : g[i].record \in Offered
  BY <1>1 DEF Line
<1> HIDE DEF g
<1>3. RecordsOf(g) = [i \in 1..k |-> g[i].record]
  BY <1>1 DEF RecordsOf
<1>4. /\ RecordsOf(g) \in Seq(Offered) /\ Len(RecordsOf(g)) = k
      /\ \A i \in 1..k : RecordsOf(g)[i] = f[i].record
  BY <1>1, <1>2, <1>3
<1> QED
  BY <1>4 DEF g

LEMMA RecordsPrefix ==
  ASSUME NEW f \in Seq(Line), NEW k \in 0..Len(f), NEW j \in 0..k,
         \A i \in 1..k : f[i].kind = "record"
  PROVE  RecordsOf(SubSeq(f, 1, j)) = SubSeq(RecordsOf(SubSeq(f, 1, k)), 1, j)
<1> DEFINE r == RecordsOf(SubSeq(f, 1, k))
           q == RecordsOf(SubSeq(f, 1, j))
<1>1. r \in Seq(Offered) /\ Len(r) = k /\ \A i \in 1..k : r[i] = f[i].record
  BY WholeRecords
<1>2. q \in Seq(Offered) /\ Len(q) = j /\ \A i \in 1..j : q[i] = f[i].record
  <2>1. j \in 0..Len(f) /\ \A i \in 1..j : f[i].kind = "record"
    OBVIOUS
  <2> QED
    BY <2>1, WholeRecords
<1> HIDE DEF r, q
<1>3. SubSeq(r, 1, j) \in Seq(Offered) /\ Len(SubSeq(r, 1, j)) = j
      /\ \A i \in 1..j : SubSeq(r, 1, j)[i] = r[i]
  BY <1>1
<1>4. \A i \in 1..j : SubSeq(r, 1, j)[i] = q[i]
  BY <1>1, <1>2, <1>3
<1>5. SubSeq(r, 1, j) = q
  BY <1>2, <1>3, <1>4
<1> QED
  BY <1>5 DEF r, q

\* Where k whole lines can be read, fewer can.
LEMMA WholePrefixes ==
  ASSUME NEW r, NEW f \in Seq(Line), NEW k \in 0..Len(f), NEW j \in 0..k, WholeBy(r, f, k)
  PROVE  WholeBy(r, f, j)
<1>1. \A i \in 1..k : f[i].kind = "record"
  BY DEF WholeBy
<1>2. /\ RecordsOf(SubSeq(f, 1, k)) \in Seq(Event)
      /\ Len(RecordsOf(SubSeq(f, 1, k))) = k
      /\ AdmissibleBy(r, RecordsOf(SubSeq(f, 1, k)))
  BY <1>1, WholeRecords, SeqOfEvents DEF WholeBy
<1>3. AdmissibleBy(r, RecordsOf(SubSeq(f, 1, j)))
  BY <1>1, <1>2, AdmissiblePrefix, RecordsPrefix
<1> QED
  BY <1>1, <1>3 DEF WholeBy

\* All lines are whole and can be read: they are what is kept.
LEMMA AllKept ==
  ASSUME NEW r, NEW f \in Seq(Line), WholeBy(r, f, Len(f))
  PROVE  KeptBy(r, f) = RecordsOf(f)
<1>1. Len(f) \in Nat
  OBVIOUS
<1>2. { k \in 1..Len(f) : WholeBy(r, f, k) } = 1..Len(f)
  BY <1>1, WholePrefixes
<1>3. CountBy(r, f) = Len(f)
  BY <1>1, <1>2, CountUpTo DEF CountBy
<1>4. SubSeq(f, 1, Len(f)) = f
  BY WholePrefix
<1> QED
  BY <1>3, <1>4 DEF KeptBy

\* The same first k lines read the same.
LEMMA SameReading ==
  ASSUME NEW r, NEW f \in Seq(Line), NEW g \in Seq(Line),
         NEW k \in 0..Len(f), k <= Len(g), \A i \in 1..k : g[i] = f[i]
  PROVE  SubSeq(g, 1, k) = SubSeq(f, 1, k) /\ (WholeBy(r, g, k) <=> WholeBy(r, f, k))
<1> DEFINE s == SubSeq(f, 1, k)
           t == SubSeq(g, 1, k)
<1>1. s \in Seq(Line) /\ Len(s) = k /\ \A i \in 1..k : s[i] = f[i]
  OBVIOUS
<1>2. k \in 0..Len(g)
  OBVIOUS
<1>3. t \in Seq(Line) /\ Len(t) = k /\ \A i \in 1..k : t[i] = g[i]
  BY <1>2
<1> HIDE DEF s, t
<1>4. s = t
  BY <1>1, <1>3
<1> USE DEF s, t
<1> QED
  BY <1>4 DEF WholeBy

\* Where two files agree on m lines and nothing beyond is kept, the same is kept.
LEMMA KeptAlike ==
  ASSUME NEW r, NEW f \in Seq(Line), NEW g \in Seq(Line), NEW m \in 0..Len(f),
         m <= Len(g), \A i \in 1..m : g[i] = f[i],
         \A k \in (m + 1)..Len(f) : ~WholeBy(r, f, k),
         \A k \in (m + 1)..Len(g) : ~WholeBy(r, g, k)
  PROVE  KeptBy(r, g) = KeptBy(r, f)
<1> DEFINE whole == { k \in 1..m : WholeBy(r, f, k) }
<1>1. Len(f) \in Nat /\ Len(g) \in Nat /\ m \in Nat
  OBVIOUS
<1>2. \A k \in 0..m : /\ SubSeq(g, 1, k) = SubSeq(f, 1, k)
                      /\ WholeBy(r, g, k) <=> WholeBy(r, f, k)
  <2> SUFFICES ASSUME NEW k \in 0..m
               PROVE  /\ SubSeq(g, 1, k) = SubSeq(f, 1, k)
                      /\ WholeBy(r, g, k) <=> WholeBy(r, f, k)
    OBVIOUS
  <2>1. k \in 0..Len(f) /\ k <= Len(g) /\ \A i \in 1..k : g[i] = f[i]
    BY <1>1
  <2> QED
    BY <2>1, SameReading
<1>3. { k \in 1..Len(f) : WholeBy(r, f, k) } = whole
  BY <1>1
<1>4. { k \in 1..Len(g) : WholeBy(r, g, k) } = whole
  BY <1>1, <1>2
<1>5. CountBy(r, f) = Cardinality(whole) /\ CountBy(r, g) = Cardinality(whole)
  BY <1>3, <1>4 DEF CountBy
<1>6. Cardinality(whole) \in 0..m
  <2>1. IsFiniteSet(1..m) /\ Cardinality(1..m) = m
    BY <1>1, CountUpTo
  <2>2. whole \in SUBSET (1..m)
    OBVIOUS
  <2>3. IsFiniteSet(whole) /\ Cardinality(whole) <= Cardinality(1..m)
    BY <2>1, <2>2, FS_Subset
  <2>4. Cardinality(whole) \in Nat
    BY <2>3, FS_CardinalityType
  <2> QED
    BY <1>1, <2>1, <2>3, <2>4
<1> HIDE DEF whole
<1>7. SubSeq(g, 1, CountBy(r, g)) = SubSeq(f, 1, CountBy(r, f))
  BY <1>2, <1>5, <1>6
<1> QED
  BY <1>7 DEF KeptBy

LEMMA RecordsOfAppend ==
  ASSUME NEW h \in Seq(Line), NEW e \in Offered, \A i \in 1..Len(h) : h[i].kind = "record"
  PROVE  /\ RecordsOf(h) \in Seq(Offered)
         /\ RecordsOf(Append(h, Whole(e))) = Append(RecordsOf(h), e)
<1> DEFINE n == Len(h)
           f == Append(h, Whole(e))
           s == RecordsOf(h)
           q == RecordsOf(f)
<1>1. n \in Nat /\ Whole(e) \in Line /\ Whole(e).record = e /\ Whole(e).kind = "record"
  BY WholeIsLine
<1>2. f \in Seq(Line) /\ Len(f) = n + 1 /\ f[n + 1] = Whole(e) /\ \A i \in 1..n : f[i] = h[i]
  BY <1>1, AppendFacts
<1>3. SubSeq(h, 1, n) = h /\ SubSeq(f, 1, n + 1) = f
  BY <1>1, <1>2, WholePrefix
<1>4. s \in Seq(Offered) /\ Len(s) = n /\ \A i \in 1..n : s[i] = h[i].record
  <2>1. n \in 0..Len(h)
    BY <1>1
  <2> QED
    BY <1>3, <2>1, WholeRecords
<1>5. q \in Seq(Offered) /\ Len(q) = n + 1 /\ \A i \in 1..(n + 1) : q[i] = f[i].record
  <2>1. n + 1 \in 0..Len(f) /\ \A i \in 1..(n + 1) : f[i].kind = "record"
    BY <1>1, <1>2
  <2> HIDE DEF f, n
  <2> QED
    BY <1>2, <1>3, <2>1, WholeRecords
<1>6. Append(s, e) \in Seq(Offered) /\ Len(Append(s, e)) = n + 1 /\ Append(s, e)[n + 1] = e
      /\ \A i \in 1..n : Append(s, e)[i] = s[i]
  BY <1>4, AppendFacts
<1>7. \A i \in 1..(n + 1) : q[i] = Append(s, e)[i]
  BY <1>1, <1>2, <1>4, <1>5, <1>6
<1> HIDE DEF q, s
<1>8. q = Append(s, e)
  BY <1>5, <1>6, <1>7
<1> QED
  BY <1>4, <1>8 DEF q, s

-----------------------------------------------------------------------------
(* How what is kept changes. *)

\* A whole line more: its record is kept, and was admissible, or nothing changes.
LEMMA KeptGrows ==
  ASSUME NEW r, NEW f \in Seq(Line), NEW e \in Offered
  PROVE  LET g == Append(f, Whole(e)) IN
         /\ \/ KeptBy(r, g) = KeptBy(r, f)
            \/ /\ KeptBy(r, f) \in Seq(Offered) /\ AdmitsBy(r, KeptBy(r, f), e)
               /\ KeptBy(r, g) = Append(KeptBy(r, f), e)
         /\ WholeBy(r, f, Len(f)) /\ AdmitsBy(r, RecordsOf(f), e) =>
              /\ WholeBy(r, g, Len(g))
              /\ KeptBy(r, g) = Append(KeptBy(r, f), e)
<1> DEFINE n == Len(f)
           g == Append(f, Whole(e))
<1>1. n \in Nat /\ e \in Event /\ Whole(e) \in Line /\ Whole(e).kind = "record"
  BY OfferedAssumption, WholeIsLine
<1>2. /\ g \in Seq(Line) /\ Len(g) = n + 1 /\ g[n + 1] = Whole(e)
      /\ \A i \in 1..n : g[i] = f[i]
  BY <1>1, AppendFacts
<1>3. SubSeq(f, 1, n) = f /\ SubSeq(g, 1, n + 1) = g
  BY <1>1, <1>2, WholePrefix
<1>4. WholeBy(r, g, n + 1) <=> WholeBy(r, f, n) /\ AdmitsBy(r, RecordsOf(f), e)
  <2>1. CASE \A i \in 1..n : f[i].kind = "record"
    <3>1. RecordsOf(f) \in Seq(Event) /\ RecordsOf(g) = Append(RecordsOf(f), e)
      BY <2>1, RecordsOfAppend, SeqOfEvents
    <3>2. AdmissibleBy(r, RecordsOf(g)) <=>
            AdmissibleBy(r, RecordsOf(f)) /\ AdmitsBy(r, RecordsOf(f), e)
      BY <1>1, <3>1, AdmissibleAppend
    <3>3. \A i \in 1..(n + 1) : g[i].kind = "record"
      BY <1>1, <1>2, <2>1
    <3> QED
      BY <1>3, <2>1, <3>2, <3>3 DEF WholeBy
  <2>2. CASE ~ \A i \in 1..n : f[i].kind = "record"
    BY <1>1, <1>2, <2>2 DEF WholeBy
  <2> QED
    BY <2>1, <2>2
<1>5. CASE ~WholeBy(r, g, n + 1)
  <2>1. /\ n \in 0..Len(f) /\ n <= Len(g)
        /\ \A k \in (n + 1)..Len(f) : ~WholeBy(r, f, k)
        /\ \A k \in (n + 1)..Len(g) : ~WholeBy(r, g, k)
    BY <1>1, <1>2, <1>5
  <2>2. KeptBy(r, g) = KeptBy(r, f)
    BY <1>2, <2>1, KeptAlike
  <2> QED
    BY <1>4, <1>5, <2>2
<1>6. CASE WholeBy(r, g, n + 1)
  <2>1. WholeBy(r, f, n) /\ AdmitsBy(r, RecordsOf(f), e)
    BY <1>4, <1>6
  <2>2. KeptBy(r, f) = RecordsOf(f)
    BY <2>1, AllKept
  <2>3. KeptBy(r, g) = RecordsOf(g)
    BY <1>2, <1>6, AllKept
  <2>4. RecordsOf(f) \in Seq(Offered) /\ RecordsOf(g) = Append(RecordsOf(f), e)
    BY <2>1, RecordsOfAppend DEF WholeBy
  <2> HIDE DEF g, n
  <2>5. WholeBy(r, g, Len(g))
    BY <1>2, <1>6
  <2> QED
    BY <2>1, <2>2, <2>3, <2>4, <2>5 DEF g
<1> QED
  BY <1>5, <1>6

\* A line more that is not whole, or one that was not whole and is not now.
LEMMA KeptStays ==
  ASSUME NEW r, NEW f \in Seq(Line), NEW x \in Line, x.kind # "record"
  PROVE  /\ KeptBy(r, Append(f, x)) = KeptBy(r, f)
         /\ f # <<>> /\ f[Len(f)].kind # "record" =>
              KeptBy(r, [f EXCEPT ![Len(f)] = x]) = KeptBy(r, f)
<1> DEFINE n == Len(f)
<1>1. n \in Nat
  OBVIOUS
<1>2. KeptBy(r, Append(f, x)) = KeptBy(r, f)
  <2> DEFINE g == Append(f, x)
  <2>1. g \in Seq(Line) /\ Len(g) = n + 1 /\ g[n + 1] = x /\ \A i \in 1..n : g[i] = f[i]
    BY AppendFacts
  <2>2. ~WholeBy(r, g, n + 1)
    BY <1>1, <2>1 DEF WholeBy
  <2>3. /\ n \in 0..Len(f) /\ n <= Len(g)
        /\ \A k \in (n + 1)..Len(f) : ~WholeBy(r, f, k)
        /\ \A k \in (n + 1)..Len(g) : ~WholeBy(r, g, k)
    BY <1>1, <2>1, <2>2
  <2> HIDE DEF g
  <2>4. KeptBy(r, g) = KeptBy(r, f)
    BY <2>1, <2>3, KeptAlike
  <2> QED
    BY <2>4 DEF g
<1>3. ASSUME f # <<>>, f[n].kind # "record"
      PROVE  KeptBy(r, [f EXCEPT ![n] = x]) = KeptBy(r, f)
  <2> DEFINE g == [f EXCEPT ![n] = x]
  <2>1. n # 0 /\ n \in 1..n /\ n - 1 \in 0..n
    BY <1>1, <1>3
  <2>2. g \in Seq(Line) /\ Len(g) = n /\ g[n] = x /\ \A i \in 1..n : i # n => g[i] = f[i]
    BY <1>1, <2>1
  <2>3. ~WholeBy(r, g, n) /\ ~WholeBy(r, f, n)
    BY <1>3, <2>1, <2>2 DEF WholeBy
  <2> HIDE DEF g
  <2>4. PICK m \in 0..Len(f) : m = n - 1
    BY <1>1, <2>1
  <2>5. \A i \in 1..m : g[i] = f[i]
    <3>1. \A i \in 1..m : i \in 1..n /\ i # n
      BY <1>1, <2>4
    <3> QED
      BY <2>2, <3>1
  <2>6. m <= Len(g) /\ (m + 1)..Len(f) = {n} /\ (m + 1)..Len(g) = {n}
    BY <1>1, <2>2, <2>4
  <2>7. KeptBy(r, g) = KeptBy(r, f)
    BY <2>2, <2>3, <2>5, <2>6, KeptAlike
  <2> QED
    BY <2>7 DEF g
<1> QED
  BY <1>2, <1>3

-----------------------------------------------------------------------------
(* The file read by these rules. *)

LEMMA KeptNow ==
  /\ Kept = KeptBy(rules, file)
  /\ Kept' = KeptBy(rules', file')
<1>1. /\ \A k : WholeLines(k) <=> WholeBy(rules, file, k)
      /\ \A k : WholeLines(k)' <=> WholeBy(rules', file', k)
  BY DEF WholeLines, Reads, Parses, Admissible, WholeBy, AdmissibleBy
<1>2. /\ { k \in 1..Len(file) : WholeLines(k) } = { k \in 1..Len(file) : WholeBy(rules, file, k) }
      /\ { k \in 1..Len(file) : WholeLines(k) }' = { k \in 1..Len(file') : WholeBy(rules', file', k) }
  BY <1>1
<1>3. KeptLines = CountBy(rules, file) /\ KeptLines' = CountBy(rules', file')
  BY <1>2 DEF KeptLines, CountBy
<1> QED
  BY <1>3 DEF Kept, KeptBy

\* One line changes at most: a record's is added, or one that is not whole is
\* added or continued.
LEMMA OneLineStep ==
  ASSUME IInv, [Next]_vars
  PROVE  /\ rules' = rules
         /\ \/ file' = file
            \/ \E e \in Offered : file' = Append(file, Whole(e))
            \/ \E x \in Line :
                 /\ x.kind # "record"
                 /\ \/ file' = Append(file, x)
                    \/ Unterminated /\ file' = [file EXCEPT ![Len(file)] = x]
<1>1. CASE CreateLine
  <2>1. Head(creating) \in Offered
    BY <1>1 DEF IInv, TypeOK, CreateLine
  <2> QED
    BY <1>1, <2>1 DEF CreateLine
<1>2. ASSUME NEW kind \in Faults, CreateStops(kind)
      PROVE  /\ rules' = rules
             /\ file' = file \/ \E x \in Line : x.kind # "record" /\ file' = Append(file, x)
  <2> DEFINE x == [kind |-> kind, record |-> IF kind = "bare" THEN Head(creating) ELSE None]
  <2>1. Head(creating) \in Offered
    BY <1>2 DEF IInv, TypeOK, CreateStops
  <2>2. x \in Line /\ x.kind # "record"
    BY <2>1, PartIsLine
  <2>3. rules' = rules /\ file' \in {file, Append(file, x)}
    BY <1>2 DEF CreateStops
  <2> HIDE DEF x
  <2> QED
    BY <2>2, <2>3
<1>3. ASSUME NEW w \in Writer, Write(w)
      PROVE  /\ rules' = rules
             /\ \/ \E e \in Offered : file' = Append(file, Whole(e))
                \/ \E x \in Line : /\ x.kind # "record" /\ Unterminated
                                   /\ file' = [file EXCEPT ![Len(file)] = x]
  <2>1. pending[w] \in Offered
    BY <1>3 DEF IInv, TypeOK, Write
  <2>2. rules' = rules /\ file' = Extended(Whole(pending[w]))
    BY <1>3 DEF Write
  <2>3. [kind |-> "garbage", record |-> None] \in Line
    BY DEF Line
  <2> QED
    BY <2>1, <2>2, <2>3, WholeIsLine DEF Extended
<1>4. ASSUME NEW w \in Writer, NEW kind \in Faults, WriteStops(w, kind)
      PROVE  /\ rules' = rules
             /\ \E x \in Line :
                  /\ x.kind # "record"
                  /\ \/ file' = Append(file, x)
                     \/ Unterminated /\ file' = [file EXCEPT ![Len(file)] = x]
  <2> DEFINE x == [kind |-> kind, record |-> IF kind = "bare" THEN pending[w] ELSE None]
             y == [kind |-> "torn", record |-> None]
  <2>1. pending[w] \in Offered
    BY <1>4 DEF IInv, TypeOK, WriteStops
  <2>2. x \in Line /\ x.kind # "record"
    BY <2>1, PartIsLine
  <2>3. y \in Line /\ y.kind # "record"
    BY DEF Line
  <2>4. rules' = rules /\ file' = Extended(x)
    BY <1>4 DEF WriteStops
  <2> HIDE DEF x
  <2>5. file' = IF ~Unterminated THEN Append(file, x) ELSE [file EXCEPT ![Len(file)] = y]
    BY <2>2, <2>4 DEF Extended
  <2> HIDE DEF y
  <2> QED
    BY <2>2, <2>3, <2>4, <2>5
<1>5. ASSUME NEW w \in Writer, NEW e \in Offered, Prepare(w, e) PROVE UNCHANGED <<rules, file>>
  BY <1>5 DEF Prepare
<1>6. ASSUME NEW w \in Writer, GiveUp(w) PROVE UNCHANGED <<rules, file>>
  BY <1>6 DEF GiveUp
<1>7. CASE UNCHANGED vars
  BY <1>7 DEF vars
<1> QED
  BY <1>1, <1>2, <1>3, <1>4, <1>5, <1>6, <1>7 DEF Next

\* What is kept stays, or one admissible record is added to it.
LEMMA KeptStep ==
  ASSUME IInv, [Next]_vars
  PROVE  /\ rules' = rules
         /\ \/ Kept' = Kept
            \/ \E e \in Offered : /\ Kept \in Seq(Offered)
                                  /\ AdmitsBy(rules, Kept, e)
                                  /\ Kept' = Append(Kept, e)
<1>1. file \in Seq(Line)
  BY DEF IInv, TypeOK
<1>2. rules' = rules /\ Kept = KeptBy(rules, file) /\ Kept' = KeptBy(rules, file')
  BY KeptNow, OneLineStep
<1>3. CASE file' = file
  BY <1>2, <1>3
<1>4. ASSUME NEW e \in Offered, file' = Append(file, Whole(e))
      PROVE  \/ Kept' = Kept
             \/ Kept \in Seq(Offered) /\ AdmitsBy(rules, Kept, e) /\ Kept' = Append(Kept, e)
  BY <1>1, <1>2, <1>4, KeptGrows
<1>5. ASSUME NEW x \in Line, x.kind # "record",
             \/ file' = Append(file, x)
             \/ Unterminated /\ file' = [file EXCEPT ![Len(file)] = x]
      PROVE  Kept' = Kept
  <2>1. Unterminated => file # <<>> /\ file[Len(file)].kind # "record"
    BY DEF Unterminated
  <2>2. KeptBy(rules, file') = KeptBy(rules, file)
    BY <1>1, <1>5, <2>1, KeptStays
  <2> QED
    BY <1>2, <2>2
<1> QED
  BY <1>2, <1>3, <1>4, <1>5, OneLineStep

\* For any number of writers, records and stopped writes: an append whose check is
\* fresh adds its record to what is kept, and the file stays readable.
THEOREM FreshAppendsStick == Spec => FreshAppendSticks
<1>1. ASSUME IInv, [Next]_vars, NEW w \in Writer,
             creating = <<>>, pending[w] \in acked' \ acked,
             checked[w] = version, ~Unterminated
      PROVE  Readable' /\ Kept' = Append(Kept, pending[w])
  <2>1. PICK e \in Offered : e = pending[w]
    <3>1. acked' \subseteq Offered
      BY <1>1, EveryStep DEF IInv, TypeOK
    <3> QED
      BY <1>1, <3>1
  <2>2. file' = Append(file, Whole(e)) /\ rules' = rules /\ e # None
    <3>1. CASE CreateLine
      BY <1>1, <3>1 DEF CreateLine
    <3>2. ASSUME NEW v \in Writer, Write(v)
          PROVE  file' = Append(file, Whole(e)) /\ rules' = rules /\ e # None
      BY <1>1, <2>1, <3>2 DEF Write, Extended
    <3>3. CASE acked' = acked
      BY <1>1, <3>3
    <3> QED
      BY <1>1, <3>1, <3>2, <3>3
         DEF Next, vars, CreateStops, Prepare, WriteStops, GiveUp
  <2>3. file \in Seq(Line) /\ Len(file) \in Nat
        /\ \A i \in 1..(Len(file) - 1) : file[i].kind \in {"record", "garbage"}
    BY <1>1 DEF IInv, TypeOK
  <2>4. Readable /\ Admits(RecordsOf(file), e)
    BY <1>1, <2>1, <2>2 DEF IInv, FreshChecks
  <2>5. \A i \in 1..Len(file) : file[i].kind = "record"
    <3>1. \A i \in 1..Len(file) : file[i].kind \in {"record", "bare"}
      BY <2>4 DEF Readable, Reads, Parses
    <3>2. Len(file) # 0 => file[Len(file)].kind # "bare"
      BY <1>1, <2>3 DEF Unterminated
    <3>3. \A i \in 1..Len(file) : i = Len(file) \/ i \in 1..(Len(file) - 1)
      BY <2>3
    <3> QED
      BY <2>3, <3>1, <3>2, <3>3
  <2>6. WholeBy(rules, file, Len(file)) /\ AdmitsBy(rules, RecordsOf(file), e)
    BY <2>4, <2>5 DEF Readable, Reads, Admissible, Admits, WholeBy, AdmissibleBy, AdmitsBy
  <2>7. /\ WholeBy(rules, file', Len(file'))
        /\ KeptBy(rules, file') = Append(KeptBy(rules, file), e)
    BY <2>2, <2>3, <2>6, KeptGrows
  <2>8. Readable'
    BY <2>2, <2>7 DEF Readable, Reads, Parses, Admissible, WholeBy, AdmissibleBy
  <2> QED
    BY <2>1, <2>2, <2>7, <2>8, KeptNow
<1>2. ASSUME IInv, [Next]_vars
      PROVE  [ \A w \in Writer :
                 /\ creating = <<>> /\ pending[w] \in acked' \ acked
                 /\ checked[w] = version /\ ~Unterminated
                 => Readable' /\ Kept' = Append(Kept, pending[w]) ]_vars
  BY <1>1, <1>2
<1> QED
  BY <1>2, FileInvariant, PTL DEF Spec, FreshAppendSticks

-----------------------------------------------------------------------------
(* The abstract logs. *)

LEMMA SameRules ==
  /\ \A log, ids, e : Log!Accepts(log, ids, e) <=> Accepts(log, ids, e)
  /\ \A log : Log!IdsOf(log) = IdsOf(log) /\ Ledger!IdsOf(log) = IdsOf(log)
BY DEF Log!Accepts, Log!Validates, Log!RequiresTaskId, Log!RequiresAgentId,
       Log!RequiresTopologySnapshotId, Log!ValidCausation, Log!IsCause, Log!RequiredCause,
       Log!AgreesWithCause, Log!SameContext, Log!IdsOf, Ledger!IdsOf,
       Accepts, Validates, RequiresTaskId, RequiresAgentId, RequiresTopologySnapshotId,
       ValidCausation, IsCause, RequiredCause, AgreesWithCause, SameContext, IdsOf

LEMMA NothingKeptAtFirst ==
  ASSUME Init
  PROVE  Kept = <<>>
<1>1. file = <<>>
  BY DEF Init
<1>2. { k \in 1..Len(file) : WholeLines(k) } = {}
  BY <1>1
<1>3. KeptLines = 0
  BY <1>2, FS_EmptySet DEF KeptLines
<1> QED
  BY <1>1, <1>3 DEF Kept, RecordsOf

LEMMA LogStep ==
  ASSUME IInv, [Next]_vars
  PROVE  [Log!LogNext]_<<KeptUnder("events"), IdsOf(KeptUnder("events"))>>
<1>1. CASE rules = "events" /\ Kept' # Kept
  <2>1. PICK e \in Offered : /\ Kept \in Seq(Offered) /\ AdmitsBy(rules, Kept, e)
                             /\ Kept' = Append(Kept, e) /\ rules' = rules
    BY <1>1, KeptStep
  <2>2. /\ KeptUnder("events") = Kept /\ KeptUnder("events")' = Append(Kept, e)
        /\ IdsOf(KeptUnder("events"))' = IdsOf(Append(Kept, e))
    BY <1>1, <2>1 DEF KeptUnder, IdsOf
  <2>3. IdsOf(Append(Kept, e)) = IdsOf(Kept) \cup {e.event_id}
    BY <2>1, SeqOfEvents, OfferedAssumption, IdsOfAppend
  <2>4. Accepts(Kept, IdsOf(Kept), e)
    BY <1>1, <2>1 DEF AdmitsBy
  <2>5. Log!AppendEvent(e)
    BY <2>2, <2>3, <2>4, SameRules DEF Log!AppendEvent
  <2> QED
    BY <2>5 DEF Log!LogNext
<1>2. CASE ~(rules = "events" /\ Kept' # Kept)
  <2>1. KeptUnder("events")' = KeptUnder("events")
    BY <1>2, KeptStep DEF KeptUnder
  <2> QED
    BY <2>1 DEF IdsOf
<1> QED
  BY <1>1, <1>2

LEMMA LedgerStep ==
  ASSUME IInv, [Next]_vars
  PROVE  [Ledger!LedgerNext]_(KeptUnder("unique_ids"))
<1>1. CASE rules = "unique_ids" /\ Kept' # Kept
  <2>1. PICK e \in Offered : /\ AdmitsBy(rules, Kept, e)
                             /\ Kept' = Append(Kept, e) /\ rules' = rules
    BY <1>1, KeptStep
  <2>2. KeptUnder("unique_ids") = Kept /\ KeptUnder("unique_ids")' = Append(Kept, e)
    BY <1>1, <2>1 DEF KeptUnder
  <2>3. e.event_id \notin IdsOf(Kept)
    BY <1>1, <2>1 DEF AdmitsBy
  <2>4. Ledger!Add(e)
    BY <2>2, <2>3, SameRules DEF Ledger!Add
  <2> QED
    BY <2>4 DEF Ledger!LedgerNext
<1>2. CASE ~(rules = "unique_ids" /\ Kept' # Kept)
  BY <1>2, KeptStep DEF KeptUnder
<1> QED
  BY <1>1, <1>2

\* Whatever goes wrong with writes, and however many write, what is kept of an event
\* log's file is a log that append could have built, and only grows; what is kept of a
\* ledger's file has every id once, and only grows.
THEOREM FilesImplementLogs == Spec => ImplementsLog
<1>1. Init => Log!LogInit /\ Ledger!LedgerInit
  BY NothingKeptAtFirst, SameRules
     DEF KeptUnder, Log!LogInit, Ledger!LedgerInit, IdsOf
<1>2. IInv /\ [Next]_vars => [Log!LogNext]_(Log!logVars)
  BY LogStep DEF Log!logVars
<1>3. IInv /\ [Next]_vars => [Ledger!LedgerNext]_(KeptUnder("unique_ids"))
  BY LedgerStep
<1> QED
  BY <1>1, <1>2, <1>3, FileInvariant, PTL
     DEF Spec, ImplementsLog, Log!LogSpec, Ledger!LedgerSpec

\* What is kept is at every time a log, or a ledger, that could be read back.
KeptAdmissible == Kept \in Seq(Offered) /\ AdmissibleBy(rules, Kept)

LEMMA AdmissibleStep ==
  ASSUME IInv, KeptAdmissible, [Next]_vars
  PROVE  KeptAdmissible'
<1>1. CASE Kept' = Kept
  BY <1>1, KeptStep DEF KeptAdmissible
<1>2. ASSUME NEW e \in Offered, AdmitsBy(rules, Kept, e), Kept' = Append(Kept, e)
      PROVE  KeptAdmissible'
  <2>1. Kept \in Seq(Offered) /\ Kept \in Seq(Event) /\ e \in Event /\ AdmissibleBy(rules, Kept)
    BY SeqOfEvents, OfferedAssumption DEF KeptAdmissible
  <2>2. AdmissibleBy(rules, Kept')
    BY <1>2, <2>1, AdmissibleAppend
  <2>3. Kept' \in Seq(Offered)
    BY <1>2, <2>1
  <2> QED
    BY <2>2, <2>3, KeptStep DEF KeptAdmissible
<1> QED
  BY <1>1, <1>2, KeptStep

\* For any number of writers, records and stopped writes: what is kept of an event log's
\* file replays without an error, and no id is twice in what is kept of a ledger's file.
THEOREM KeptCanBeReadBack == Spec => [](Log!Replayable /\ Ledger!UniqueRecordIds)
<1>1. Init => KeptAdmissible
  BY NothingKeptAtFirst DEF KeptAdmissible, AdmissibleBy, Appendable, UniqueIds
<1>2. KeptAdmissible => Log!Replayable /\ Ledger!UniqueRecordIds
  <2>1. \A log : Log!Appendable(log) <=> Appendable(log)
    BY SameRules DEF Log!Appendable, Appendable
  <2>2. ASSUME KeptAdmissible, rules = "events" PROVE Log!Replayable
    BY <2>1, <2>2 DEF KeptAdmissible, AdmissibleBy, KeptUnder, Log!Replayable
  <2>3. ASSUME rules # "events" PROVE Log!Replayable
    BY <2>1, <2>3 DEF KeptUnder, Log!Replayable, Appendable
  <2>4. ASSUME KeptAdmissible, rules = "unique_ids" PROVE Ledger!UniqueRecordIds
    BY <2>4 DEF KeptAdmissible, AdmissibleBy, UniqueIds, KeptUnder, Ledger!UniqueRecordIds
  <2>5. ASSUME rules # "unique_ids" PROVE Ledger!UniqueRecordIds
    BY <2>5 DEF KeptUnder, Ledger!UniqueRecordIds
  <2> QED
    BY <2>2, <2>3, <2>4, <2>5
<1> QED
  BY <1>1, <1>2, AdmissibleStep, FileInvariant, PTL DEF Spec
===============================================================================
