------------------------------- MODULE JsonlFile -------------------------------
(***************************************************************************)
(* A JSONL file that several writers append to: the event log, or a ledger of   *)
(* decommission packets, evaluations, proposals, snapshots or rollback records.  *)
(* append_*_jsonl reads and checks the whole file, then writes one line at its   *)
(* end.  Nothing is locked between the two, a write may stop anywhere, and       *)
(* reading fails at a line that does not parse or a record that the kind of      *)
(* file does not admit.                                                       *)
(*                                                                         *)
(* Files differ in what they admit: an event log what InMemoryEventLog::append   *)
(* takes, a ledger any record whose id is new.  Of a ledger's record nothing but  *)
(* its id is looked at, so that events stand for records of all kinds.           *)
(*                                                                         *)
(* A file may be created by write_*_jsonl with records in it, before anyone       *)
(* appends.  (Writing over a ledger in use is the subject of TopologyLedgers.)    *)
(*                                                                         *)
(* A line is what a reader can tell of its text:                             *)
(*   record   a whole record and its newline                                 *)
(*   bare     a whole record, the newline missing (last line only)            *)
(*   torn     anything else without a newline (last line only)                *)
(*   garbage  anything else with one                                         *)
(* Blank lines, which reading skips, are left out.                            *)
(***************************************************************************)
EXTENDS LoomEvents, FiniteSets

CONSTANTS
  Writer,
  Offered,    \* the records writers may try to append
  Given,      \* the sequences of records a file may be created with
  Faults,     \* what a write that stops may leave: a subset of {"torn", "bare"}
  MaxWrites   \* bound: how often a line is appended to the file

ASSUME OfferedAssumption == Offered \subseteq Event
ASSUME GivenAssumption == Given \subseteq Seq(Offered) /\ <<>> \in Given
ASSUME FaultsAssumption == Faults \subseteq {"torn", "bare"}
ASSUME MaxWritesAssumption == MaxWrites \in Nat

VARIABLES
  rules,     \* what the file admits: "events" or "unique_ids"
  file,      \* the lines of the file
  creating,  \* what write_*_jsonl has still to write of the records it was given
  pending,   \* the record each writer has checked and not yet written
  acked,     \* the records whose write returned Ok
  version,   \* how often a line was appended
  checked    \* the version each writer checked its record against

vars == <<rules, file, creating, pending, acked, version, checked>>

Line ==
  [kind : {"record", "bare"}, record : Offered] \cup [kind : {"torn", "garbage"}, record : {None}]

Whole(e) == [kind |-> "record", record |-> e]

TypeOK ==
  /\ rules \in {"events", "unique_ids"}
  /\ file \in Seq(Line)
  /\ \A i \in 1..(Len(file) - 1) : file[i].kind \in {"record", "garbage"}
  /\ creating \in Seq(Offered)
  /\ pending \in [Writer -> Offered \cup {None}]
  /\ acked \subseteq Offered
  /\ version \in 0..MaxWrites
  /\ checked \in [Writer -> 0..MaxWrites]

-----------------------------------------------------------------------------
(* What a file admits. *)

\* Faulty: each record is compared with the one before it alone.
NextToItsOwn(log) == \A i \in 2..Len(log) : log[i].event_id # log[i - 1].event_id

\* validate_unique_packet_ids and its siblings.
UniqueIds(log) == \A i, j \in 1..Len(log) : log[i].event_id = log[j].event_id => i = j

Admissible(log) == IF rules = "events" THEN Appendable(log) ELSE UniqueIds(log)

\* One more record after those of a log that is admissible.
Admits(log, e) ==
  IF rules = "events" THEN Accepts(log, IdsOf(log), e) ELSE e.event_id \notin IdsOf(log)

\* A file starts out missing, or is created.  The ledgers' write_*_jsonl refuse
\* duplicate ids before they open the file; write_event_log_jsonl, which checks
\* nothing, is handed the events of a log.
Init ==
  /\ rules \in {"events", "unique_ids"}
  /\ file = <<>>
  /\ creating \in {given \in Given : Admissible(given)}
  /\ pending = [w \in Writer |-> None]
  /\ acked = {}
  /\ version = 0
  /\ checked = [w \in Writer |-> 0]

-----------------------------------------------------------------------------
(* Reading. *)

RecordsOf(lines) == [i \in 1..Len(lines) |-> lines[i].record]

\* Each of the first k lines is JSON of a record.
Parses(k) == \A i \in 1..k : file[i].kind \in {"record", "bare"}

\* The first k lines can be read.
Reads(k) == Parses(k) /\ Admissible(RecordsOf(SubSeq(file, 1, k)))

\* read_*_jsonl succeeds.
Readable == Reads(Len(file))

\* What can be read of the file's whole lines, as far as reading gets.  (Where k
\* lines can be read, fewer can.)
WholeLines(k) == Reads(k) /\ \A i \in 1..k : file[i].kind = "record"
KeptLines == Cardinality({ k \in 1..Len(file) : WholeLines(k) })
Kept == RecordsOf(SubSeq(file, 1, KeptLines))

Unterminated == file # <<>> /\ file[Len(file)].kind \in {"bare", "torn"}

-----------------------------------------------------------------------------
(* write_*_jsonl creates the file. *)

\* The next record reaches the file.  With the last one the call returns Ok.
CreateLine ==
  /\ creating # <<>>
  /\ file' = Append(file, Whole(Head(creating)))
  /\ creating' = Tail(creating)
  /\ acked' = IF creating' = <<>> THEN {file'[i].record : i \in 1..Len(file')} ELSE acked
  /\ UNCHANGED <<rules, pending, version, checked>>

\* An I/O error, or the process dies: the rest is not written, and of the record
\* under way nothing or a part.
CreateStops(kind) ==
  /\ creating # <<>>
  /\ file' \in
       { file,
         Append(file, [ kind   |-> kind,
                        record |-> IF kind = "bare" THEN Head(creating) ELSE None ]) }
  /\ creating' = <<>>
  /\ UNCHANGED <<rules, pending, acked, version, checked>>

-----------------------------------------------------------------------------
(* append_*_jsonl. *)

\* A faulty check parses the file and does not replay its events.
CheckParses(e) ==
  /\ Parses(Len(file))
  /\ rules = "events" => Validates(e)

\* The file as read, appended to in memory.
Check(e) ==
  /\ Readable
  /\ Admits(RecordsOf(file), e)

\* First half: read the file and append the record in memory.
Prepare(w, e) ==
  /\ creating = <<>>
  /\ pending[w] = None
  /\ Check(e)
  /\ pending' = [pending EXCEPT ![w] = e]
  /\ checked' = [checked EXCEPT ![w] = version]
  /\ UNCHANGED <<rules, file, creating, acked, version>>

\* Faulty writes: the file opened without appending, its old content gone, and a
\* line that always starts anew.
Overwritten(line) == <<line>>
OnItsOwnLine(line) == Append(file, line)

\* Text written at the end continues a line that has no newline yet; what comes
\* out does not parse.
Extended(line) ==
  IF ~Unterminated THEN Append(file, line)
  ELSE [file EXCEPT ![Len(file)] =
          [kind |-> IF line.kind = "record" THEN "garbage" ELSE "torn", record |-> None]]

\* Second half: the line and its newline reach the file, the call returns Ok.
Write(w) ==
  /\ pending[w] # None
  /\ version < MaxWrites
  /\ file' = Extended(Whole(pending[w]))
  /\ acked' = acked \cup {pending[w]}
  /\ version' = version + 1
  /\ pending' = [pending EXCEPT ![w] = None]
  /\ UNCHANGED <<rules, creating, checked>>

\* The write stops part of the way: an I/O error is returned, or the process
\* dies and starts anew.
WriteStops(w, kind) ==
  /\ pending[w] # None
  /\ version < MaxWrites
  /\ file' = Extended([kind |-> kind, record |-> IF kind = "bare" THEN pending[w] ELSE None])
  /\ version' = version + 1
  /\ pending' = [pending EXCEPT ![w] = None]
  /\ UNCHANGED <<rules, creating, acked, checked>>

\* The file cannot be opened, or the process dies before it writes.
GiveUp(w) ==
  /\ pending[w] # None
  /\ pending' = [pending EXCEPT ![w] = None]
  /\ UNCHANGED <<rules, file, creating, acked, version, checked>>

Next ==
  \/ CreateLine
  \/ \E kind \in Faults : CreateStops(kind)
  \/ \E w \in Writer :
       \/ \E e \in Offered : Prepare(w, e)
       \/ Write(w)
       \/ \E kind \in Faults : WriteStops(w, kind)
       \/ GiveUp(w)

Spec == Init /\ [][Next]_vars

-----------------------------------------------------------------------------
\* The whole lines that can be read are an event log as append builds it, or a
\* ledger without duplicates that only grows: appends to a file by any number of
\* writers, whatever goes wrong, implement EventLog or RecordLedger.
KeptUnder(r) == IF rules = r THEN Kept ELSE <<>>
Log == INSTANCE EventLog
         WITH events <- KeptUnder("events"), event_ids <- IdsOf(KeptUnder("events"))
Ledger == INSTANCE RecordLedger WITH records <- KeptUnder("unique_ids")
ImplementsLog == Log!LogSpec /\ Ledger!LedgerSpec

\* A file that can be read holds every acknowledged record: nothing is lost
\* silently, loss shows as an error at the next read.
AckedOrUnreadable ==
  Readable => \A e \in acked : \E i \in 1..Len(file) : file[i].record = e

\* An append whose check is still fresh when it writes, and which does not
\* continue an unfinished line, keeps the file readable and adds its record.  (One
\* that does spoils that line and is acknowledged all the same, even if the line
\* was an event that could be read.)
FreshAppendSticks ==
  [][ \A w \in Writer :
        /\ creating = <<>> /\ pending[w] \in acked' \ acked
        /\ checked[w] = version /\ ~Unterminated
        => Readable' /\ Kept' = Append(Kept, pending[w]) ]_vars
===============================================================================
