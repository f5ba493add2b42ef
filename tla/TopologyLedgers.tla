---------------------------- MODULE TopologyLedgers ----------------------------
(***************************************************************************)
(* The topology governance store and its three JSONL ledgers.  One process     *)
(* governs: it holds a store (TopologyGovernance), writes what an operation      *)
(* changed to the ledgers, and may die in any call or between two; it then      *)
(* starts over from what read_topology_governance_store_jsonl gives it.  Another *)
(* process reads the ledgers meanwhile, one after the other.                   *)
(*                                                                         *)
(* Records are added by append_*_jsonl, and added or changed by writing a whole  *)
(* ledger with write_*_jsonl, which empties the file first.  No function writes  *)
(* two ledgers; an operation that changes two writes them in either order.  All  *)
(* ledgers have been written once with no records.                             *)
(*                                                                         *)
(* A ledger is represented as the store's part it holds: ids are unique and the  *)
(* order of proposals and snapshots says nothing.  What two writers do to one    *)
(* file is the subject of JsonlFile.                                       *)
(***************************************************************************)
EXTENDS TopologyGovernance

VARIABLES
  disk,     \* what each ledger holds
  torn,     \* the ledgers that end in part of a line
  short,    \* the ledgers emptied by a write that has not come to its end
  up,       \* the governing process runs
  calls,    \* the calls its last operation still needs
  reader    \* the other process: how far its reading is, and what it has read

memory == <<proposals, snapshots, rollbacks>>
ledgers == <<disk, torn, short>>

Ledger == {"proposals", "snapshots", "rollbacks"}
Store == [proposals |-> proposals, snapshots |-> snapshots, rollbacks |-> rollbacks]
Empty ==
  [ proposals |-> [p \in ProposalId |-> NoProposal],
    snapshots |-> [s \in SnapshotId |-> NoSnapshot],
    rollbacks |-> <<>> ]

NotReading == [at |-> "idle", proposals |-> {}, snapshots |-> {}, behind |-> {}, lost |-> FALSE]

LedgersInit ==
  /\ Init
  /\ disk = Empty /\ torn = {} /\ short = {}
  /\ up = TRUE /\ calls = <<>>
  /\ reader = NotReading

-----------------------------------------------------------------------------
(* Reading. *)

Present(rows) == {k \in DOMAIN rows : rows[k].status # "Absent"}
WithSource(rows) == {<<s, rows[s].source>> : s \in Present(rows)}

\* validate_topology_governance_records, unique ids apart: for the proposals with
\* these ids, the snapshots with these ids and sources, and rollback records.
ValidRecords(known, committed, records) ==
  /\ \A s \in committed : s[2] \in known
  /\ \A i \in 1..Len(records) :
       {records[i].from, records[i].to} \subseteq {s[1] : s \in committed}

ValidLedgers ==
  ValidRecords(Present(disk.proposals), WithSource(disk.snapshots), disk.rollbacks)

\* read_topology_governance_store_jsonl, by the process that governs: nobody
\* writes meanwhile.
Restart ==
  /\ ~up
  /\ torn = {} /\ ValidLedgers
  /\ up' = TRUE
  /\ proposals' = disk.proposals
  /\ snapshots' = disk.snapshots
  /\ rollbacks' = disk.rollbacks
  /\ UNCHANGED <<ledgers, calls, reader>>

Calling(op, l) == up /\ calls # <<>> /\ Head(calls) = [op |-> op, ledger |-> l]

\* Ledger l is emptied and its writer still at work, or its writer has died: what
\* was in it and is not in it now is lost.
BeingWritten(l) == l \in short /\ Calling("fill", l)
CutShort(l) == l \in short /\ ~Calling("fill", l)

\* How far a reader is behind that read a ledger while it was being written, or
\* that two ledgers have changed for since it began.
Overtaken == Ledger

\* The same by the other process: read_topology_proposals_jsonl, then
\* read_topology_snapshots_jsonl, then read_rollback_records_jsonl and the checks.
\* A ledger that ends in part of a line gives a parse error, and no store.
ReadProposals ==
  /\ reader.at \notin {"proposals", "snapshots"}
  /\ "proposals" \notin torn
  /\ reader' = [ NotReading EXCEPT !.at = "proposals",
                                   !.proposals = Present(disk.proposals),
                                   !.behind = IF BeingWritten("proposals") THEN Overtaken ELSE {},
                                   !.lost = CutShort("proposals") ]
  /\ UNCHANGED <<memory, ledgers, up, calls>>

ReadSnapshots ==
  /\ reader.at = "proposals"
  /\ "snapshots" \notin torn
  /\ reader' = [ reader EXCEPT !.at = "snapshots",
                               !.snapshots = WithSource(disk.snapshots),
                               !.behind = IF BeingWritten("snapshots") THEN Overtaken ELSE @,
                               !.lost = @ \/ CutShort("snapshots") ]
  /\ UNCHANGED <<memory, ledgers, up, calls>>

ReadRollbacks ==
  /\ reader.at = "snapshots"
  /\ "rollbacks" \notin torn
  /\ reader' = IF ValidRecords(reader.proposals, reader.snapshots, disk.rollbacks)
               THEN NotReading ELSE [NotReading EXCEPT !.at = "refused"]
  /\ UNCHANGED <<memory, ledgers, up, calls>>

ReadFails ==
  /\ \/ reader.at = "proposals" /\ "snapshots" \in torn
     \/ reader.at = "snapshots" /\ "rollbacks" \in torn
  /\ reader' = NotReading
  /\ UNCHANGED <<memory, ledgers, up, calls>>

\* The reader's view of a ledger that changes: it falls behind.
Overtake(l) ==
  reader' = [reader EXCEPT !.behind = IF reader.at \notin {"proposals", "snapshots"} THEN @
                                      ELSE IF @ \subseteq {l} THEN {l} ELSE Overtaken]

-----------------------------------------------------------------------------
(* Governing: an operation in memory, and the calls that make it last.  A ledger *)
(* may also be written again as it is; not one that was cut short, whose losses    *)
(* the writing would only hide.                                             *)

Appends(l) == [op |-> "append", ledger |-> l]
Writes(l) == [op |-> "write", ledger |-> l]
Adds(l) == {Appends(l), Writes(l)}
EitherWay(a, b) == {<<a, b>>, <<b, a>>}

Govern ==
  /\ up /\ calls = <<>>
  /\ \/ \E p \in ProposalId, t \in 1..MaxTime :
          \/ Draft(p, t) /\ calls' \in {<<c>> : c \in Adds("proposals")}
          \/ /\ MarkTested(p, t) \/ MarkShadowed(p, t) \/ MarkApproved(p, t)
             /\ calls' = <<Writes("proposals")>>
          \/ \E s \in SnapshotId :
               /\ Commit(p, s, t)
               /\ \E add \in Adds("snapshots") : calls' \in EitherWay(Writes("proposals"), add)
     \/ \E r \in RollbackRecord :
          /\ ApplyRollback(r)
          /\ \E add \in Adds("rollbacks") : calls' \in EitherWay(Writes("snapshots"), add)
     \/ UNCHANGED memory /\ calls' \in {<<Writes(l)>> : l \in Ledger \ short}
  /\ UNCHANGED <<ledgers, up, reader>>

\* Faulty: what is in the file already is not kept.
AppendedAlone(l) ==
  IF l = "rollbacks" THEN <<rollbacks[Len(rollbacks)]>>
  ELSE [ k \in DOMAIN disk[l] |->
           IF k \in Present(disk[l]) THEN Empty[l][k] ELSE Store[l][k] ]

\* Ledger l with the one record memory has and the ledger has not.
Appended(l) ==
  IF l = "rollbacks" THEN Append(disk.rollbacks, rollbacks[Len(rollbacks)])
  ELSE [ k \in DOMAIN disk[l] |->
           IF k \in Present(disk[l]) THEN disk[l][k] ELSE Store[l][k] ]

\* append_topology_proposal_jsonl, append_topology_snapshot_jsonl and
\* append_rollback_record_jsonl.  Their reading and checking changes nothing, and
\* does not fail for a process that has loaded the ledgers and writes alone.
AppendRecord(l) ==
  /\ Calling("append", l)
  /\ disk' = [disk EXCEPT ![l] = Appended(l)]
  /\ calls' = Tail(calls)
  /\ Overtake(l)
  /\ UNCHANGED <<memory, torn, short, up>>

\* write_topology_proposals_jsonl, write_topology_snapshots_jsonl and
\* write_rollback_records_jsonl: File::create empties the file.
Truncate(l) ==
  /\ Calling("write", l)
  /\ disk' = [disk EXCEPT ![l] = Empty[l]]
  /\ short' = short \cup {l}
  /\ calls' = <<[op |-> "fill", ledger |-> l]>> \o Tail(calls)
  /\ Overtake(l)
  /\ UNCHANGED <<memory, torn, up>>

\* Faulty: history is left out.
CurrentOnly(l) ==
  [k \in DOMAIN Store[l] |->
     IF Store[l][k].status \in {"RolledBack", "Superseded", "Committed"}
     THEN Empty[l][k] ELSE Store[l][k]]

\* The records written: all that memory has.
Written(l) == Store[l]

Fill(l) ==
  /\ Calling("fill", l)
  /\ disk' = [disk EXCEPT ![l] = Written(l)]
  /\ short' = short \ {l}
  /\ calls' = Tail(calls)
  /\ Overtake(l)
  /\ UNCHANGED <<memory, torn, up>>

\* The process dies, or gets an error from a call and starts over.
Down ==
  /\ up' = FALSE
  /\ calls' = <<>>
  /\ proposals' = Empty.proposals
  /\ snapshots' = Empty.snapshots
  /\ rollbacks' = Empty.rollbacks

Die == up /\ Down /\ UNCHANGED <<ledgers, reader>>

\* A record is written in part.
AppendStops(l) ==
  /\ Calling("append", l)
  /\ torn' = torn \cup {l}
  /\ Overtake(l)
  /\ Down
  /\ UNCHANGED <<disk, short>>

\* Some of the records of ledger l.  (Only rollbacks have an order that matters.)
SomeOf(l) ==
  IF l = "rollbacks" THEN { SubSeq(rollbacks, 1, k) : k \in 0..Len(rollbacks) }
  ELSE { [k \in DOMAIN Store[l] |-> IF k \in kept THEN Store[l][k] ELSE Empty[l][k]] :
           kept \in SUBSET Present(Store[l]) }

\* Some records are written, the last perhaps in part.
FillStops(l) ==
  /\ Calling("fill", l)
  /\ \E some \in SomeOf(l) : disk' = [disk EXCEPT ![l] = some]
  /\ torn' \in {torn, torn \cup {l}}
  /\ Overtake(l)
  /\ Down
  /\ UNCHANGED short

LedgersNext ==
  \/ Govern
  \/ \E l \in Ledger :
       \/ AppendRecord(l) \/ Truncate(l) \/ Fill(l)
       \/ AppendStops(l) \/ FillStops(l)
  \/ Die \/ Restart
  \/ ReadProposals \/ ReadSnapshots \/ ReadRollbacks \/ ReadFails

ledgersVars == <<memory, ledgers, up, calls, reader>>

LedgersSpec == LedgersInit /\ [][LedgersNext]_ledgersVars

-----------------------------------------------------------------------------
\* What the ledgers hold, as a store.
OnDisk == INSTANCE TopologyGovernance
            WITH proposals <- disk.proposals, snapshots <- disk.snapshots,
                 rollbacks <- disk.rollbacks

\* Death between two calls never keeps the store from being loaded again, nor makes
\* it an unsound one, whichever of an operation's two ledgers was reached: unless a
\* call was cut short itself, every record refers to records that are there,
\* evidence is in order and routing has a snapshot.
LedgersLoad ==
  short = {} => ValidLedgers /\ OnDisk!EvidenceInOrder /\ OnDisk!RoutingTruthExists

\* Once an operation's calls have returned, a death no longer undoes any of it.
DoneIsOnDisk == up /\ calls = <<>> => disk = Store /\ torn = {}

\* A load beside the governing process is refused for an open reference only if it
\* was overtaken (it read a ledger while a living process wrote it, or two ledgers
\* changed since it began), and may then be repeated; or if it read a ledger whose
\* writer died between emptying and filling it, and then tells of lost records.
RefusalsAreExplained ==
  [][ reader.at = "snapshots" /\ reader'.at = "refused" =>
        reader.behind = Overtaken \/ reader.lost ]_ledgersVars
===============================================================================
