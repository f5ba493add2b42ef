-------------------------- MODULE TopologyGovernance --------------------------
(***************************************************************************)
(* The life of topology proposals, the snapshots committed from them and the *)
(* rollbacks between snapshots: TopologyProposal and TopologyGovernanceStore. *)
(*                                                                         *)
(* Callers choose ids and timestamps.  A proposal's own timestamps increase; *)
(* nothing relates the timestamps of two proposals.  The evidence attached to *)
(* a proposal is represented by when it was attached (0: none).  A snapshot's *)
(* version strings and its unchecked parent id are left out.                  *)
(***************************************************************************)
EXTENDS Integers, Sequences

CONSTANTS
  ProposalId, SnapshotId, RollbackId,
  None,         \* the source of a snapshot that is not there
  MaxTime,      \* bound: the last timestamp a caller uses
  MaxStep       \* bound: how far one call moves a proposal's timestamp

ASSUME SnapshotIdAssumption == SnapshotId \subseteq Nat
ASSUME NoneAssumption == None \notin ProposalId
ASSUME BoundsAssumption == MaxTime \in Nat /\ MaxStep \in Nat

VARIABLES
  proposals,    \* TopologyGovernanceStore.proposals, by id
  snapshots,    \* TopologyGovernanceStore.snapshots, by id
  rollbacks     \* TopologyGovernanceStore.rollback_records, in order

vars == <<proposals, snapshots, rollbacks>>

Time == 0..MaxTime

ProposalStatus ==
  { "Drafted", "Tested", "Shadowed", "Canaried",
    "Approved", "Committed", "Rejected", "Superseded" }
SnapshotStatus == {"Active", "Superseded", "RolledBack"}

Proposal ==
  [ status : ProposalStatus \cup {"Absent"}, updated : Time,
    tested : Time, shadowed : Time, approved : Time ]
Snapshot ==
  [ status : SnapshotStatus \cup {"Absent"}, source : ProposalId \cup {None}, created : Time ]
RollbackRecord ==
  [ id : RollbackId, from : SnapshotId, to : SnapshotId ]

TypeOK ==
  /\ proposals \in [ProposalId -> Proposal]
  /\ snapshots \in [SnapshotId -> Snapshot]
  /\ rollbacks \in Seq(RollbackRecord)

NoProposal == [status |-> "Absent", updated |-> 0, tested |-> 0, shadowed |-> 0, approved |-> 0]
NoSnapshot == [status |-> "Absent", source |-> None, created |-> 0]

Known(s) == snapshots[s].status # "Absent"

Init ==
  /\ proposals = [p \in ProposalId |-> NoProposal]
  /\ snapshots = [s \in SnapshotId |-> NoSnapshot]
  /\ rollbacks = <<>>

-----------------------------------------------------------------------------
(* The proposal lifecycle. *)

\* ensure_increasing_timestamp, with the bound MaxStep
Increasing(p, t) ==
  /\ t > proposals[p].updated
  /\ t <= proposals[p].updated + MaxStep

\* TopologyProposal::draft
Draft(p, t) ==
  /\ proposals[p].status = "Absent"
  /\ proposals' = [proposals EXCEPT ![p] = [NoProposal EXCEPT !.status = "Drafted", !.updated = t]]
  /\ UNCHANGED <<snapshots, rollbacks>>

\* TopologyProposal::mark_tested looks at the reports and the timestamp alone:
\* it takes a proposal of any status back to Tested.
MarkTested(p, t) ==
  /\ proposals[p].status # "Absent"
  /\ Increasing(p, t)
  /\ proposals' = [proposals EXCEPT ![p] = [@ EXCEPT !.status = "Tested", !.tested = t, !.updated = t]]
  /\ UNCHANGED <<snapshots, rollbacks>>

\* TopologyProposal::mark_shadowed
MarkShadowed(p, t) ==
  /\ proposals[p].status = "Tested"
  /\ Increasing(p, t)
  /\ proposals' = [proposals EXCEPT ![p] = [@ EXCEPT !.status = "Shadowed", !.shadowed = t, !.updated = t]]
  /\ UNCHANGED <<snapshots, rollbacks>>

\* A faulty mark_approved: tested proposals need no shadow report.
ApproveUnshadowed(p, t) ==
  /\ proposals[p].status \in {"Tested", "Shadowed"}
  /\ Increasing(p, t)
  /\ proposals' = [proposals EXCEPT ![p] = [@ EXCEPT !.status = "Approved", !.approved = t, !.updated = t]]
  /\ UNCHANGED <<snapshots, rollbacks>>

\* TopologyProposal::mark_approved
MarkApproved(p, t) ==
  /\ proposals[p].status = "Shadowed"
  /\ Increasing(p, t)
  /\ proposals' = [proposals EXCEPT ![p] = [@ EXCEPT !.status = "Approved", !.approved = t, !.updated = t]]
  /\ UNCHANGED <<snapshots, rollbacks>>

CommitFrom(statuses, p, s, t) ==
  /\ proposals[p].status \in statuses
  /\ Increasing(p, t)
  /\ ~Known(s)
  /\ proposals' = [proposals EXCEPT ![p] = [@ EXCEPT !.status = "Committed", !.updated = t]]
  /\ snapshots' = [snapshots EXCEPT ![s] = [status |-> "Active", source |-> p, created |-> t]]
  /\ UNCHANGED rollbacks

\* Faulty forms of commit: a shadowed proposal is enough, and the snapshot
\* takes the proposal's status.
CommitUnapproved(p, s, t) == CommitFrom({"Shadowed", "Approved"}, p, s, t)
CommitCopiesStatus(p, s, t) ==
  /\ proposals[p].status = "Approved"
  /\ Increasing(p, t)
  /\ ~Known(s)
  /\ proposals' = [proposals EXCEPT ![p] = [@ EXCEPT !.status = "Committed", !.updated = t]]
  /\ snapshots' = [snapshots EXCEPT ![s] = [status |-> "Committed", source |-> p, created |-> t]]
  /\ UNCHANGED rollbacks

\* TopologyProposal::commit, and the store rebuilt with the committed proposal
\* and its snapshot (TopologyGovernanceStore::new refuses a snapshot id that it
\* already holds).  Snapshots that were Active stay Active.
Commit(p, s, t) == CommitFrom({"Approved"}, p, s, t)

-----------------------------------------------------------------------------
(* Rollback. *)

\* A faulty check looks only at the snapshot rolled back to.
ValidTarget(r) ==
  /\ \A i \in 1..Len(rollbacks) : rollbacks[i].id # r.id
  /\ Known(r.to)

\* What validate_topology_governance_records demands of one more record (whose
\* route decision refs are taken to carry the right prefix).
ValidRollback(r) ==
  /\ \A i \in 1..Len(rollbacks) : rollbacks[i].id # r.id
  /\ Known(r.from)
  /\ Known(r.to)

\* Faulty status updates: the other active snapshots stay active, and the
\* snapshot rolled back from is only superseded when it was the target before.
KeepOthersActive(r, s) ==
  IF s = r.to THEN "Active"
  ELSE IF s = r.from THEN "RolledBack"
  ELSE snapshots[s].status

SupersedeAll(r, s) ==
  IF s = r.from THEN "RolledBack"
  ELSE IF snapshots[s].status = "Active" THEN "Superseded"
  ELSE snapshots[s].status

RollBackActiveOnly(r, s) ==
  IF s = r.to THEN "Active"
  ELSE IF s = r.from /\ snapshots[s].status # "Active" THEN "RolledBack"
  ELSE snapshots[s].status

\* The status apply_rollback gives snapshot s.
StatusAfter(r, s) ==
  IF s = r.to THEN "Active"
  ELSE IF s = r.from THEN "RolledBack"
  ELSE IF snapshots[s].status = "Active" THEN "Superseded"
  ELSE snapshots[s].status

\* RollbackRecord::new and TopologyGovernanceStore::apply_rollback.  Neither
\* asks that r.from be the snapshot in use or that r.to be older than it.
ApplyRollback(r) ==
  /\ r.to # r.from
  /\ ValidRollback(r)
  /\ snapshots' = [s \in SnapshotId |-> [snapshots[s] EXCEPT !.status = StatusAfter(r, s)]]
  /\ rollbacks' = Append(rollbacks, r)
  /\ UNCHANGED proposals

Next ==
  \/ \E p \in ProposalId, t \in 1..MaxTime :
       \/ Draft(p, t)
       \/ MarkTested(p, t)
       \/ MarkShadowed(p, t)
       \/ MarkApproved(p, t)
       \/ \E s \in SnapshotId : Commit(p, s, t)
  \/ \E r \in RollbackRecord : ApplyRollback(r)

Spec == Init /\ [][Next]_vars

-----------------------------------------------------------------------------
\* TopologyGovernanceStore::active_topology_snapshot: s is the greatest active
\* snapshot by timestamp, then id.
IsRoutingTruth(s) ==
  /\ snapshots[s].status = "Active"
  /\ \A o \in SnapshotId :
       snapshots[o].status = "Active" =>
         \/ snapshots[o].created < snapshots[s].created
         \/ snapshots[o].created = snapshots[s].created /\ o <= s

\* Routing always has a snapshot to use once one was committed, whatever was
\* rolled back since: active_topology_snapshot does not fail.
RoutingTruthExists ==
  (\E s \in SnapshotId : Known(s)) => \E s \in SnapshotId : snapshots[s].status = "Active"

\* A proposal is approved or committed on evidence gathered in order: shadow
\* reports newer than the tests they follow, approval newer than the shadow
\* reports.  Testing a proposal anew must not let older reports count.
EvidenceInOrder ==
  \A p \in ProposalId :
    proposals[p].status \in {"Approved", "Committed"} =>
      /\ 0 < proposals[p].tested
      /\ proposals[p].tested < proposals[p].shadowed
      /\ proposals[p].shadowed < proposals[p].approved

\* Every record points to a record the store holds, and no rollback id or pair
\* of equal ends occurs: the store could be loaded again from its ledgers.
ReferencesResolve ==
  /\ \A s \in SnapshotId :
       Known(s) => /\ snapshots[s].source # None
                   /\ proposals[snapshots[s].source].status # "Absent"
  /\ \A i \in 1..Len(rollbacks) :
       /\ Known(rollbacks[i].from) /\ Known(rollbacks[i].to)
       /\ rollbacks[i].from # rollbacks[i].to
  /\ \A i, j \in 1..Len(rollbacks) : rollbacks[i].id = rollbacks[j].id => i = j

\* A snapshot that was rolled back is in use again only if a later rollback
\* names it as its target.
RolledBackStaysOut ==
  \A i \in 1..Len(rollbacks) :
    snapshots[rollbacks[i].from].status = "Active" =>
      \E j \in (i + 1)..Len(rollbacks) : rollbacks[j].to = rollbacks[i].from

\* A rollback moves routing to its target at once: no other snapshot, however
\* recent, is preferred to it.
RollbackMovesRouting ==
  [][ rollbacks' # rollbacks =>
        \A s \in SnapshotId :
          s = rollbacks'[Len(rollbacks')].to => IsRoutingTruth(s)' ]_vars

\* A snapshot appears only on the evidence of its proposal: tests, then shadow
\* reports, then approval, all before the commit.
CommitOnEvidence ==
  [][ \A s \in SnapshotId :
        ~Known(s) /\ Known(s)' =>
          LET p == proposals'[snapshots'[s].source] IN
          /\ 0 < p.tested /\ p.tested < p.shadowed
          /\ p.shadowed < p.approved /\ p.approved < snapshots'[s].created ]_vars
===============================================================================
