----------------------------- MODULE TopologyProofs -----------------------------
(***************************************************************************)
(* Proofs about TopologyGovernance and TopologyLedgers, for any sets of ids   *)
(* and any bounds.                                                        *)
(*                                                                         *)
(* EvidenceInOrder speaks of approved and committed proposals only and is not *)
(* inductive: whether the evidence of an approval is in order was settled by   *)
(* the earlier transitions.  EvidenceByStatus says what each status implies,   *)
(* and that the newest evidence carries the timestamp later calls must exceed. *)
(* It is said of any table of proposals, for the one in memory and the one on  *)
(* disk.                                                                  *)
(***************************************************************************)
EXTENDS TopologyLedgers, TLAPS

EvidenceOf(rows) ==
  \A p \in ProposalId :
    LET x == rows[p] IN
    /\ x.status = "Tested" => 0 < x.tested /\ x.tested = x.updated
    /\ x.status = "Shadowed" =>
         0 < x.tested /\ x.tested < x.shadowed /\ x.shadowed = x.updated
    /\ x.status = "Approved" =>
         /\ 0 < x.tested /\ x.tested < x.shadowed
         /\ x.shadowed < x.approved /\ x.approved = x.updated
    /\ x.status = "Committed" =>
         0 < x.tested /\ x.tested < x.shadowed /\ x.shadowed < x.approved

EvidenceByStatus == EvidenceOf(proposals)

Inv ==
  /\ TypeOK
  /\ EvidenceByStatus
  /\ ReferencesResolve
  /\ RolledBackStaysOut
  /\ RoutingTruthExists

\* No proposal disappears in a step.
ProposalsStay ==
  \A p \in ProposalId : proposals[p].status # "Absent" => proposals'[p].status # "Absent"

-----------------------------------------------------------------------------
(* Governance: types and evidence.  These need no more than themselves, and so  *)
(* hold also of a store that was loaded from a ledger cut short.              *)

LEMMA TimesInRange == \A t \in 1..MaxTime : t \in Time
BY BoundsAssumption DEF Time

LEMMA DraftKeepsTypes ==
  ASSUME TypeOK, EvidenceByStatus, NEW p \in ProposalId, NEW t \in 1..MaxTime, Draft(p, t)
  PROVE  TypeOK' /\ EvidenceByStatus' /\ ProposalsStay
<1>1. TypeOK'
  <2>1. [NoProposal EXCEPT !.status = "Drafted", !.updated = t] \in Proposal
    <3>1. 0 \in Time /\ t \in Time
      BY TimesInRange, BoundsAssumption DEF Time
    <3> QED BY <3>1 DEF NoProposal, Proposal, ProposalStatus
  <2> QED BY <2>1 DEF TypeOK, Draft
<1>2. EvidenceByStatus'
  BY DEF TypeOK, Draft, NoProposal, EvidenceByStatus, EvidenceOf
<1>3. ProposalsStay
  BY DEF TypeOK, Draft, NoProposal, ProposalsStay
<1> QED BY <1>1, <1>2, <1>3

LEMMA MarkTestedKeepsTypes ==
  ASSUME TypeOK, EvidenceByStatus, NEW p \in ProposalId, NEW t \in 1..MaxTime, MarkTested(p, t)
  PROVE  TypeOK' /\ EvidenceByStatus' /\ ProposalsStay
<1>1. TypeOK'
  <2>0. proposals[p] \in Proposal /\ t \in Time
    BY TimesInRange DEF TypeOK
  <2>1. [proposals[p] EXCEPT !.status = "Tested", !.tested = t, !.updated = t] \in Proposal
    BY <2>0 DEF Proposal, ProposalStatus
  <2> QED BY <2>1 DEF TypeOK, MarkTested
<1>2. EvidenceByStatus'
  BY DEF TypeOK, MarkTested, Proposal, EvidenceByStatus, EvidenceOf
<1>3. ProposalsStay
  BY DEF TypeOK, MarkTested, Proposal, ProposalsStay
<1> QED BY <1>1, <1>2, <1>3

LEMMA MarkShadowedKeepsTypes ==
  ASSUME TypeOK, EvidenceByStatus, NEW p \in ProposalId, NEW t \in 1..MaxTime, MarkShadowed(p, t)
  PROVE  TypeOK' /\ EvidenceByStatus' /\ ProposalsStay
<1>1. TypeOK'
  <2>0. proposals[p] \in Proposal /\ t \in Time
    BY TimesInRange DEF TypeOK
  <2>1. [proposals[p] EXCEPT !.status = "Shadowed", !.shadowed = t, !.updated = t] \in Proposal
    BY <2>0 DEF Proposal, ProposalStatus
  <2> QED BY <2>1 DEF TypeOK, MarkShadowed
<1>2. EvidenceByStatus'
  BY DEF TypeOK, MarkShadowed, Increasing, Proposal, EvidenceByStatus, EvidenceOf
<1>3. ProposalsStay
  BY DEF TypeOK, MarkShadowed, Proposal, ProposalsStay
<1> QED BY <1>1, <1>2, <1>3

LEMMA MarkApprovedKeepsTypes ==
  ASSUME TypeOK, EvidenceByStatus, NEW p \in ProposalId, NEW t \in 1..MaxTime, MarkApproved(p, t)
  PROVE  TypeOK' /\ EvidenceByStatus' /\ ProposalsStay
<1>1. TypeOK'
  <2>0. proposals[p] \in Proposal /\ t \in Time
    BY TimesInRange DEF TypeOK
  <2>1. [proposals[p] EXCEPT !.status = "Approved", !.approved = t, !.updated = t] \in Proposal
    BY <2>0 DEF Proposal, ProposalStatus
  <2> QED BY <2>1 DEF TypeOK, MarkApproved
<1>2. EvidenceByStatus'
  BY DEF TypeOK, MarkApproved, Increasing, Proposal, EvidenceByStatus, EvidenceOf
<1>3. ProposalsStay
  BY DEF TypeOK, MarkApproved, Proposal, ProposalsStay
<1> QED BY <1>1, <1>2, <1>3

LEMMA CommitKeepsTypes ==
  ASSUME TypeOK, EvidenceByStatus,
         NEW p \in ProposalId, NEW s \in SnapshotId, NEW t \in 1..MaxTime, Commit(p, s, t)
  PROVE  /\ TypeOK' /\ EvidenceByStatus' /\ ProposalsStay
         /\ snapshots'[s].status = "Active" /\ snapshots'[s].source = p
         /\ \A o \in SnapshotId : o # s => snapshots'[o] = snapshots[o]
<1> USE DEF Commit, CommitFrom
<1>1. TypeOK'
  <2>0. proposals[p] \in Proposal /\ t \in Time
    BY TimesInRange DEF TypeOK
  <2>1. [proposals[p] EXCEPT !.status = "Committed", !.updated = t] \in Proposal
    BY <2>0 DEF Proposal, ProposalStatus
  <2>2. [status |-> "Active", source |-> p, created |-> t] \in Snapshot
    BY TimesInRange DEF Snapshot, SnapshotStatus
  <2> QED BY <2>1, <2>2 DEF TypeOK
<1>2. EvidenceByStatus'
  BY DEF TypeOK, Proposal, EvidenceByStatus, EvidenceOf
<1>3. ProposalsStay
  BY DEF TypeOK, Proposal, ProposalsStay
<1>4. /\ snapshots'[s].status = "Active" /\ snapshots'[s].source = p
      /\ \A o \in SnapshotId : o # s => snapshots'[o] = snapshots[o]
  BY DEF TypeOK
<1> QED BY <1>1, <1>2, <1>3, <1>4

\* What a rollback does to each snapshot.
LEMMA RollbackStatuses ==
  ASSUME TypeOK, NEW r \in RollbackRecord, ApplyRollback(r)
  PROVE  \A s \in SnapshotId :
           /\ snapshots'[s].status \in SnapshotStatus \cup {"Absent"}
           /\ snapshots'[s].source = snapshots[s].source
           /\ snapshots'[s].created = snapshots[s].created
           /\ snapshots'[s].status = "Active" <=> s = r.to
           /\ Known(s) <=> Known(s)'
<1> SUFFICES ASSUME NEW s \in SnapshotId
             PROVE  /\ snapshots'[s].status \in SnapshotStatus \cup {"Absent"}
                    /\ snapshots'[s].source = snapshots[s].source
                    /\ snapshots'[s].created = snapshots[s].created
                    /\ snapshots'[s].status = "Active" <=> s = r.to
                    /\ Known(s) <=> Known(s)'
  OBVIOUS
<1>1. snapshots[s] \in Snapshot
  BY DEF TypeOK
<1>2. snapshots'[s] = [snapshots[s] EXCEPT !.status = StatusAfter(r, s)]
  BY DEF ApplyRollback
<1>3. snapshots'[s].status = StatusAfter(r, s)
  BY <1>1, <1>2 DEF Snapshot
<1>4. StatusAfter(r, s) \in SnapshotStatus \cup {"Absent"}
  BY <1>1 DEF StatusAfter, Snapshot, SnapshotStatus
<1>5. r.to # r.from /\ Known(r.to) /\ Known(r.from)
  BY DEF ApplyRollback, ValidRollback
<1>6. StatusAfter(r, s) = "Active" <=> s = r.to
  BY <1>5 DEF StatusAfter
<1>7. Known(s) <=> StatusAfter(r, s) # "Absent"
  BY <1>5 DEF StatusAfter, Known
<1> QED BY <1>1, <1>2, <1>3, <1>4, <1>6, <1>7 DEF Snapshot, Known

LEMMA ApplyRollbackKeepsTypes ==
  ASSUME TypeOK, EvidenceByStatus, NEW r \in RollbackRecord, ApplyRollback(r)
  PROVE  TypeOK' /\ EvidenceByStatus' /\ ProposalsStay
<1>1. \A s \in SnapshotId : snapshots'[s] \in Snapshot
  <2> SUFFICES ASSUME NEW s \in SnapshotId PROVE snapshots'[s] \in Snapshot
    OBVIOUS
  <2>1. snapshots'[s] = [snapshots[s] EXCEPT !.status = StatusAfter(r, s)]
    BY DEF ApplyRollback
  <2>2. snapshots[s] \in Snapshot
    BY DEF TypeOK
  <2>3. StatusAfter(r, s) \in SnapshotStatus \cup {"Absent"}
    BY <2>2 DEF StatusAfter, Snapshot, SnapshotStatus
  <2> QED BY <2>1, <2>2, <2>3 DEF Snapshot
<1>2. snapshots' \in [SnapshotId -> Snapshot]
  BY <1>1 DEF ApplyRollback
<1>3. rollbacks' \in Seq(RollbackRecord) /\ proposals' = proposals
  BY DEF ApplyRollback, TypeOK
<1> QED BY <1>2, <1>3 DEF TypeOK, EvidenceByStatus, ProposalsStay

-----------------------------------------------------------------------------
(* Governance: references and routing. *)

\* A step that is not a rollback changes one proposal; the invariants about
\* snapshots and rollbacks survive it when they keep their values.
LEMMA ProposalStep ==
  ASSUME Inv, UNCHANGED <<snapshots, rollbacks>>, TypeOK', ProposalsStay
  PROVE  ReferencesResolve' /\ RolledBackStaysOut' /\ RoutingTruthExists'
<1>1. ReferencesResolve'
  BY DEF Inv, TypeOK, ReferencesResolve, Known, Snapshot, ProposalsStay
<1>2. RolledBackStaysOut'
  BY DEF Inv, RolledBackStaysOut
<1>3. RoutingTruthExists'
  BY DEF Inv, RoutingTruthExists, Known
<1> QED BY <1>1, <1>2, <1>3

LEMMA ProposalStepKeepsInv ==
  ASSUME Inv, NEW p \in ProposalId, NEW t \in 1..MaxTime,
         Draft(p, t) \/ MarkTested(p, t) \/ MarkShadowed(p, t) \/ MarkApproved(p, t)
  PROVE  Inv'
<1>1. TypeOK /\ EvidenceByStatus
  BY DEF Inv
<1>2. TypeOK' /\ EvidenceByStatus' /\ ProposalsStay
  BY <1>1, DraftKeepsTypes, MarkTestedKeepsTypes, MarkShadowedKeepsTypes, MarkApprovedKeepsTypes
<1>3. UNCHANGED <<snapshots, rollbacks>>
  BY DEF Draft, MarkTested, MarkShadowed, MarkApproved
<1> QED BY <1>2, <1>3, ProposalStep DEF Inv

\* The snapshot id of a commit is unknown, so no rollback names it: a commit
\* cannot bring a snapshot back that was rolled back.
LEMMA CommitKeepsInv ==
  ASSUME Inv, NEW p \in ProposalId, NEW s \in SnapshotId, NEW t \in 1..MaxTime,
         Commit(p, s, t)
  PROVE  Inv'
<1> USE DEF Commit, CommitFrom
<1>1. TypeOK /\ EvidenceByStatus
  BY DEF Inv
<1>2. TypeOK' /\ EvidenceByStatus' /\ ProposalsStay
  BY <1>1, CommitKeepsTypes
<1>3. /\ snapshots'[s].status = "Active" /\ snapshots'[s].source = p
      /\ \A o \in SnapshotId : o # s => snapshots'[o] = snapshots[o]
  BY <1>1, CommitKeepsTypes
<1>4. \A q \in ProposalId : proposals[q].status # "Absent" => proposals'[q].status # "Absent"
  BY <1>2 DEF ProposalsStay
<1>5. \A i \in 1..Len(rollbacks) :
        rollbacks[i].from \in SnapshotId \ {s} /\ rollbacks[i].to \in SnapshotId \ {s}
  <2> SUFFICES ASSUME NEW i \in 1..Len(rollbacks)
               PROVE  rollbacks[i].from \in SnapshotId \ {s} /\ rollbacks[i].to \in SnapshotId \ {s}
    OBVIOUS
  <2>1. rollbacks[i] \in RollbackRecord
    BY DEF Inv, TypeOK
  <2> QED BY <2>1 DEF Inv, ReferencesResolve, Known, RollbackRecord
<1>6. ReferencesResolve'
  <2>1. ASSUME NEW o \in SnapshotId, Known(o)'
        PROVE  snapshots'[o].source # None /\ proposals'[snapshots'[o].source].status # "Absent"
    <3>1. CASE o = s
      <4>1. proposals'[p].status = "Committed"
        BY DEF Inv, TypeOK, Proposal
      <4> QED BY <3>1, <4>1, <1>3, NoneAssumption
    <3>2. CASE o # s
      <4>1. snapshots[o].source \in ProposalId
        BY <3>2, <2>1, <1>3 DEF Known, Inv, TypeOK, Snapshot, ReferencesResolve
      <4> QED BY <3>2, <4>1, <2>1, <1>3, <1>4 DEF Known, Inv, ReferencesResolve
    <3> QED BY <3>1, <3>2
  <2>2. \A i \in 1..Len(rollbacks) : Known(rollbacks[i].from)' /\ Known(rollbacks[i].to)'
    BY <1>3, <1>5 DEF Inv, ReferencesResolve, Known
  <2> QED BY <2>1, <2>2 DEF Inv, ReferencesResolve
<1>7. RolledBackStaysOut'
  BY <1>3, <1>5 DEF Inv, RolledBackStaysOut
<1>8. RoutingTruthExists'
  BY <1>3 DEF RoutingTruthExists
<1> QED BY <1>2, <1>6, <1>7, <1>8 DEF Inv

LEMMA ApplyRollbackKeepsInv ==
  ASSUME Inv, NEW r \in RollbackRecord, ApplyRollback(r)
  PROVE  Inv'
<1>1. TypeOK
  BY DEF Inv
<1>2. \A s \in SnapshotId :
        /\ snapshots'[s].status \in SnapshotStatus \cup {"Absent"}
        /\ snapshots'[s].source = snapshots[s].source
        /\ snapshots'[s].created = snapshots[s].created
        /\ snapshots'[s].status = "Active" <=> s = r.to
        /\ Known(s) <=> Known(s)'
  BY <1>1, RollbackStatuses
<1>3. /\ rollbacks' = Append(rollbacks, r)
      /\ proposals' = proposals
      /\ rollbacks \in Seq(RollbackRecord)
  BY <1>1 DEF ApplyRollback, TypeOK
<1>4. /\ Len(rollbacks') = Len(rollbacks) + 1
      /\ Len(rollbacks) \in Nat
      /\ rollbacks'[Len(rollbacks')] = r
      /\ \A i \in 1..Len(rollbacks) : rollbacks'[i] = rollbacks[i] /\ rollbacks[i] \in RollbackRecord
  BY <1>3
<1>5. TypeOK' /\ EvidenceByStatus'
  BY ApplyRollbackKeepsTypes DEF Inv
<1>7. ReferencesResolve'
  <2>1. \A s \in SnapshotId :
          Known(s)' => snapshots'[s].source # None /\ proposals'[snapshots'[s].source].status # "Absent"
    BY <1>2, <1>3 DEF Inv, ReferencesResolve
  <2>2. r.from \in SnapshotId /\ r.to \in SnapshotId /\ r.from # r.to
        /\ snapshots'[r.from].status # "Absent" /\ snapshots'[r.to].status # "Absent"
    BY <1>2 DEF ApplyRollback, ValidRollback, RollbackRecord, Known
  <2>3. ASSUME NEW i \in 1..Len(rollbacks')
        PROVE  /\ snapshots'[rollbacks'[i].from].status # "Absent"
               /\ snapshots'[rollbacks'[i].to].status # "Absent"
               /\ rollbacks'[i].from # rollbacks'[i].to
    <3>1. CASE i = Len(rollbacks')
      BY <3>1, <1>4, <2>2
    <3>2. CASE i \in 1..Len(rollbacks)
      <4>1. /\ rollbacks'[i] = rollbacks[i]
            /\ rollbacks[i].from \in SnapshotId /\ rollbacks[i].to \in SnapshotId
        BY <3>2, <1>4 DEF RollbackRecord
      <4>2. /\ Known(rollbacks[i].from) /\ Known(rollbacks[i].to)
            /\ rollbacks[i].from # rollbacks[i].to
        BY <3>2 DEF Inv, ReferencesResolve
      <4> QED BY <4>1, <4>2, <1>2 DEF Known
    <3> QED BY <3>1, <3>2, <1>4
  <2>4. ASSUME NEW i \in 1..Len(rollbacks'), NEW j \in 1..Len(rollbacks'),
               rollbacks'[i].id = rollbacks'[j].id
        PROVE  i = j
    <3>1. \A k \in 1..Len(rollbacks) : rollbacks[k].id # r.id
      BY DEF ApplyRollback, ValidRollback
    <3>2. \A k, l \in 1..Len(rollbacks) : rollbacks[k].id = rollbacks[l].id => k = l
      BY DEF Inv, ReferencesResolve
    <3>3. CASE i = Len(rollbacks') \/ j = Len(rollbacks')
      BY <3>1, <3>3, <2>4, <1>4
    <3>4. CASE i \in 1..Len(rollbacks) /\ j \in 1..Len(rollbacks)
      BY <3>2, <3>4, <2>4, <1>4
    <3> QED BY <3>3, <3>4, <1>4
  <2> QED BY <2>1, <2>3, <2>4 DEF ReferencesResolve, Known
<1>8. RolledBackStaysOut'
  <2> SUFFICES ASSUME NEW i \in 1..Len(rollbacks'),
                      snapshots'[rollbacks'[i].from].status = "Active"
               PROVE  \E j \in (i + 1)..Len(rollbacks') : rollbacks'[j].to = rollbacks'[i].from
    BY DEF RolledBackStaysOut
  <2>1. rollbacks'[i].from = r.to
    BY <1>2, <1>3, <1>4 DEF RollbackRecord
  <2>2. i # Len(rollbacks')
    BY <2>1, <1>4 DEF ApplyRollback
  <2>3. Len(rollbacks') \in (i + 1)..Len(rollbacks')
    BY <2>2, <1>4
  <2> QED BY <2>1, <2>3, <1>4
<1>9. RoutingTruthExists'
  BY <1>2 DEF RoutingTruthExists, RollbackRecord
<1> QED BY <1>5, <1>7, <1>8, <1>9 DEF Inv

-----------------------------------------------------------------------------
\* Every reachable store satisfies the inductive invariant.
THEOREM GovernanceInvariant == Spec => []Inv
<1>1. Init => Inv
  <2> SUFFICES ASSUME Init PROVE Inv
    OBVIOUS
  <2>1. TypeOK
    BY BoundsAssumption
    DEF Init, TypeOK, NoProposal, NoSnapshot, Proposal, Snapshot, Time
  <2>2. EvidenceByStatus
    BY DEF Init, NoProposal, EvidenceByStatus, EvidenceOf
  <2>3. ReferencesResolve /\ RolledBackStaysOut /\ RoutingTruthExists
    BY DEF Init, NoSnapshot, Known, ReferencesResolve, RolledBackStaysOut, RoutingTruthExists
  <2> QED BY <2>1, <2>2, <2>3 DEF Inv
<1>2. Inv /\ [Next]_vars => Inv'
  <2> SUFFICES ASSUME Inv, [Next]_vars PROVE Inv'
    OBVIOUS
  <2>1. ASSUME NEW p \in ProposalId, NEW t \in 1..MaxTime,
               Draft(p, t) \/ MarkTested(p, t) \/ MarkShadowed(p, t) \/ MarkApproved(p, t)
        PROVE  Inv'
    BY <2>1, ProposalStepKeepsInv
  <2>2. ASSUME NEW p \in ProposalId, NEW s \in SnapshotId, NEW t \in 1..MaxTime, Commit(p, s, t)
        PROVE  Inv'
    BY <2>2, CommitKeepsInv
  <2>3. ASSUME NEW r \in RollbackRecord, ApplyRollback(r) PROVE Inv'
    BY <2>3, ApplyRollbackKeepsInv
  <2>4. CASE UNCHANGED vars
    BY <2>4 DEF vars, Inv, TypeOK, EvidenceByStatus, EvidenceOf, ReferencesResolve, Known,
                RolledBackStaysOut, RoutingTruthExists
  <2> QED BY <2>1, <2>2, <2>3, <2>4 DEF Next
<1> QED BY <1>1, <1>2, PTL DEF Spec

\* Proposals, snapshots and rollbacks keep their types.
THEOREM GovernanceTypeCorrect == Spec => []TypeOK
<1>1. Inv => TypeOK
  BY DEF Inv
<1> QED BY <1>1, GovernanceInvariant, PTL

\* Approval and commitment rest on evidence gathered in order, however often a
\* proposal was taken back to Tested.
THEOREM EvidenceComesInOrder == Spec => []EvidenceInOrder
<1>1. Inv => EvidenceInOrder
  BY DEF Inv, EvidenceByStatus, EvidenceOf, EvidenceInOrder
<1> QED BY <1>1, GovernanceInvariant, PTL

\* No snapshot or rollback of a store points to a record it does not hold.
THEOREM StoreReferencesResolve == Spec => []ReferencesResolve
<1>1. Inv => ReferencesResolve
  BY DEF Inv
<1> QED BY <1>1, GovernanceInvariant, PTL

\* Only a rollback to it brings a rolled-back snapshot back.
THEOREM RollbackSticks == Spec => []RolledBackStaysOut
<1>1. Inv => RolledBackStaysOut
  BY DEF Inv
<1> QED BY <1>1, GovernanceInvariant, PTL

\* After the first commit routing always has an active snapshot.
THEOREM RoutingNeverStarves == Spec => []RoutingTruthExists
<1>1. Inv => RoutingTruthExists
  BY DEF Inv
<1> QED BY <1>1, GovernanceInvariant, PTL

\* A rollback's target is what active_topology_snapshot returns right after it.
THEOREM RollbackTakesEffect == Spec => RollbackMovesRouting
<1> DEFINE Moves == rollbacks' # rollbacks =>
                      \A s \in SnapshotId :
                        s = rollbacks'[Len(rollbacks')].to => IsRoutingTruth(s)'
<1>1. Inv /\ [Next]_vars => [Moves]_vars
  <2> SUFFICES ASSUME Inv, Next, rollbacks' # rollbacks,
                      NEW s \in SnapshotId, s = rollbacks'[Len(rollbacks')].to
               PROVE  IsRoutingTruth(s)'
    OBVIOUS
  <2>1. PICK r \in RollbackRecord : ApplyRollback(r)
    BY DEF Next, Draft, MarkTested, MarkShadowed, MarkApproved, Commit, CommitFrom
  <2>2. TypeOK
    BY DEF Inv
  <2>3. s = r.to
    BY <2>1, <2>2 DEF ApplyRollback, TypeOK
  <2>4. \A o \in SnapshotId : snapshots'[o].status = "Active" <=> o = s
    BY <2>1, <2>2, <2>3, RollbackStatuses
  <2>5. s \in Nat
    BY SnapshotIdAssumption
  <2> QED BY <2>4, <2>5 DEF IsRoutingTruth
<1> QED BY <1>1, GovernanceInvariant, PTL DEF Spec, RollbackMovesRouting

\* Every snapshot is committed after an approval that came after the shadow
\* reports that came after the tests of its proposal.
THEOREM CommitsRestOnEvidence == Spec => CommitOnEvidence
<1> DEFINE Evident ==
      \A s \in SnapshotId :
        ~Known(s) /\ Known(s)' =>
          LET p == proposals'[snapshots'[s].source] IN
          /\ 0 < p.tested /\ p.tested < p.shadowed
          /\ p.shadowed < p.approved /\ p.approved < snapshots'[s].created
<1>1. Inv /\ [Next]_vars => [Evident]_vars
  <2> SUFFICES ASSUME Inv, Next, NEW s \in SnapshotId, ~Known(s), Known(s)'
               PROVE  LET p == proposals'[snapshots'[s].source] IN
                      /\ 0 < p.tested /\ p.tested < p.shadowed
                      /\ p.shadowed < p.approved /\ p.approved < snapshots'[s].created
    OBVIOUS
  <2>1. TypeOK
    BY DEF Inv
  <2>2. ~\E r \in RollbackRecord : ApplyRollback(r)
    BY <2>1, RollbackStatuses
  <2>3. PICK p \in ProposalId, t \in 1..MaxTime, c \in SnapshotId : Commit(p, c, t)
    BY <2>2 DEF Next, Draft, MarkTested, MarkShadowed, MarkApproved, Known
  <2>4. c = s
    BY <2>1, <2>3 DEF Commit, CommitFrom, Known, TypeOK
  <2>5. snapshots'[s].source = p /\ snapshots'[s].created = t
    BY <2>1, <2>3, <2>4 DEF Commit, CommitFrom, TypeOK
  <2>6. /\ proposals[p].status = "Approved" /\ t > proposals[p].updated
        /\ proposals'[p].tested = proposals[p].tested
        /\ proposals'[p].shadowed = proposals[p].shadowed
        /\ proposals'[p].approved = proposals[p].approved
    BY <2>1, <2>3 DEF Commit, CommitFrom, Increasing, TypeOK, Proposal
  <2>7. proposals[p] \in Proposal
    BY <2>1 DEF TypeOK
  <2> QED BY <2>5, <2>6, <2>7, BoundsAssumption DEF Inv, EvidenceByStatus, EvidenceOf, Proposal, Time
<1> QED BY <1>1, GovernanceInvariant, PTL DEF Spec, CommitOnEvidence

-----------------------------------------------------------------------------
(***************************************************************************)
(* The ledgers.  The invariant says what the disk lacks of memory at each       *)
(* point of an operation's calls, and which references hold across the two:     *)
(* the one record a call still owes is no source and no end of any other.       *)
(***************************************************************************)

LedgerCall == [op : {"append", "write", "fill"}, ledger : Ledger]

\* What the calls still to come owe to ledger l.
Due(op, l) == \E i \in 1..Len(calls) : calls[i] = [op |-> op, ledger |-> l]
Settled(l) == \A i \in 1..Len(calls) : calls[i].ledger # l

SourcesIn(rows, known) ==
  \A s \in SnapshotId : rows[s].status # "Absent" => rows[s].source \in known
EndsIn(records, ids) ==
  \A i \in 1..Len(records) : records[i].from \in ids /\ records[i].to \in ids
Routes(rows) ==
  (\E s \in SnapshotId : rows[s].status # "Absent") =>
    \E s \in SnapshotId : rows[s].status = "Active"

Contents ==
  [ proposals : [ProposalId -> Proposal], snapshots : [SnapshotId -> Snapshot],
    rollbacks : Seq(RollbackRecord) ]
Reader ==
  [ at : {"idle", "proposals", "snapshots", "refused"},
    proposals : SUBSET ProposalId,
    snapshots : SUBSET (SnapshotId \X (ProposalId \cup {None})),
    behind : {{}, Ledger} \cup {{l} : l \in Ledger},
    lost : BOOLEAN ]

LedgersTypeOK ==
  /\ TypeOK
  /\ disk \in Contents
  /\ torn \in SUBSET Ledger /\ short \in SUBSET Ledger /\ up \in BOOLEAN
  /\ reader \in Reader

CallsInOrder ==
  /\ calls \in Seq(LedgerCall)
  /\ \A i, j \in 1..Len(calls) : calls[i].ledger = calls[j].ledger => i = j
  /\ \A i \in 1..Len(calls) : calls[i].op = "fill" => i = 1
  /\ ~up => calls = <<>>
  /\ up => torn = {}
  /\ \A l \in Ledger : Due("fill", l) => l \in short

\* A ledger that no call is due for holds what memory holds, and an append brings
\* its ledger there.
CallsCatchUp ==
  up => \A l \in Ledger :
          /\ Settled(l) => disk[l] = Store[l]
          /\ Due("append", l) => Appended(l) = Store[l]

\* References hold in memory, and from either side to the other unless that ledger
\* is empty just now.
MemoryClosed ==
  up =>
    /\ SourcesIn(snapshots, Present(proposals))
    /\ SourcesIn(disk.snapshots, Present(proposals))
    /\ ~Due("fill", "proposals") => SourcesIn(snapshots, Present(disk.proposals))
    /\ EndsIn(rollbacks, Present(snapshots))
    /\ EndsIn(disk.rollbacks, Present(snapshots))
    /\ ~Due("fill", "snapshots") => EndsIn(rollbacks, Present(disk.snapshots))

DiskClosed ==
  /\ "proposals" \notin short => SourcesIn(disk.snapshots, Present(disk.proposals))
  /\ "snapshots" \notin short => EndsIn(disk.rollbacks, Present(disk.snapshots))

\* A store loaded from a ledger cut short may have no active snapshot; but every
\* operation that changes snapshots leaves one.
RoutingKept ==
  /\ "snapshots" \notin short => Routes(disk.snapshots)
  /\ up /\ ~Settled("snapshots") => Routes(snapshots)

Evident == EvidenceOf(proposals) /\ EvidenceOf(disk.proposals)

\* What a reader that is not overtaken has read still agrees with the disk, if it has
\* read no ledger cut short.
ReaderKnows ==
  reader.at \in {"proposals", "snapshots"} /\ reader.behind # Ledger /\ ~reader.lost =>
    /\ "proposals" \notin reader.behind =>
         reader.proposals = Present(disk.proposals) /\ "proposals" \notin short
    /\ reader.behind = {"proposals"} => SourcesIn(disk.snapshots, reader.proposals)
    /\ reader.at = "snapshots" =>
         /\ "snapshots" \notin reader.behind =>
              reader.snapshots = WithSource(disk.snapshots) /\ "snapshots" \notin short
         /\ \A s \in reader.snapshots : s[2] \in reader.proposals
         /\ "rollbacks" \notin reader.behind =>
              EndsIn(disk.rollbacks, {s[1] : s \in reader.snapshots})

LedgersInv ==
  /\ LedgersTypeOK /\ CallsInOrder /\ CallsCatchUp /\ MemoryClosed /\ DiskClosed
  /\ RoutingKept /\ Evident /\ ReaderKnows

-----------------------------------------------------------------------------
(* What a call leaves alone. *)

Elsewhere(l) == \A m \in Ledger \ {l} : disk'[m] = disk[m] /\ (m \in short' <=> m \in short)

LEMMA LedgerNames ==
  /\ "proposals" \in Ledger /\ "snapshots" \in Ledger /\ "rollbacks" \in Ledger
  /\ \A l \in Ledger : l = "proposals" \/ l = "snapshots" \/ l = "rollbacks"
BY DEF Ledger

LEMMA EmptyIsEmpty ==
  /\ Empty \in Contents
  /\ EvidenceOf(Empty.proposals)
  /\ \A known : SourcesIn(Empty.snapshots, known)
  /\ \A ids : EndsIn(Empty.rollbacks, ids)
  /\ Routes(Empty.snapshots)
<1>1. 0 \in Time
  BY BoundsAssumption DEF Time
<1>2. NoProposal \in Proposal /\ NoSnapshot \in Snapshot
  BY <1>1 DEF NoProposal, NoSnapshot, Proposal, Snapshot
<1>3. Empty \in Contents
  BY <1>2 DEF Empty, Contents
<1>4. EvidenceOf(Empty.proposals)
  BY DEF EvidenceOf, Empty, NoProposal
<1>5. (\A known : SourcesIn(Empty.snapshots, known)) /\ Routes(Empty.snapshots)
  BY DEF SourcesIn, Routes, Empty, NoSnapshot
<1>6. \A ids : EndsIn(Empty.rollbacks, ids)
  BY DEF EndsIn, Empty
<1> QED BY <1>3, <1>4, <1>5, <1>6

\* Writing one ledger.
LEMMA WriteOne ==
  ASSUME disk \in Contents, NEW l \in Ledger, NEW c \in Contents,
         disk' = [disk EXCEPT ![l] = c[l]]
  PROVE  disk' \in Contents /\ disk'[l] = c[l] /\ \A m \in Ledger \ {l} : disk'[m] = disk[m]
<1>1. CASE l = "proposals"
  BY <1>1 DEF Contents, Ledger
<1>2. CASE l = "snapshots"
  BY <1>2 DEF Contents, Ledger
<1>3. CASE l = "rollbacks"
  BY <1>3 DEF Contents, Ledger
<1> QED BY <1>1, <1>2, <1>3, LedgerNames

LEMMA StoreTyped ==
  ASSUME TypeOK
  PROVE  Store \in Contents
BY DEF TypeOK, Store, Contents

\* The call that runs is the only one due for its ledger, and only it can be a fill.
LEMMA CallAtHead ==
  ASSUME CallsInOrder, NEW op, NEW l \in Ledger, Calling(op, l)
  PROVE  /\ up /\ Due(op, l) /\ ~Settled(l)
         /\ \A m \in Ledger \ {l} : ~Due("fill", m)
         /\ op # "fill" => ~Due("fill", l)
<1>1. calls # <<>> /\ calls \in Seq(LedgerCall) /\ up
  BY DEF CallsInOrder, Calling
<1>2. 1 \in 1..Len(calls) /\ calls[1] = [op |-> op, ledger |-> l]
  BY <1>1 DEF Calling
<1>3. Due(op, l) /\ ~Settled(l)
  BY <1>2 DEF Due, Settled
<1>4. ASSUME NEW m \in Ledger, Due("fill", m)
      PROVE  m = l /\ op = "fill"
  <2>1. PICK i \in 1..Len(calls) : calls[i] = [op |-> "fill", ledger |-> m]
    BY <1>4 DEF Due
  <2>2. i = 1
    BY <2>1 DEF CallsInOrder
  <2> QED BY <1>2, <2>1, <2>2
<1> QED BY <1>1, <1>3, <1>4

\* When a call returns, nothing is due for its ledger; the other ledgers wait as before.
LEMMA CallReturns ==
  ASSUME CallsInOrder, NEW op, NEW l \in Ledger, Calling(op, l), calls' = Tail(calls)
  PROVE  /\ calls' \in Seq(LedgerCall)
         /\ \A i, j \in 1..Len(calls') : calls'[i].ledger = calls'[j].ledger => i = j
         /\ \A i \in 1..Len(calls') : calls'[i].op # "fill"
         /\ Settled(l)' /\ \A o : ~Due(o, l)'
         /\ \A m \in Ledger \ {l} : /\ Settled(m)' <=> Settled(m)
                                    /\ \A o : Due(o, m)' <=> Due(o, m)
<1>1. calls # <<>> /\ calls \in Seq(LedgerCall)
  BY DEF CallsInOrder, Calling
<1>2. 1 \in 1..Len(calls) /\ calls[1] = [op |-> op, ledger |-> l]
  BY <1>1 DEF Calling
<1>3. /\ calls' \in Seq(LedgerCall) /\ Len(calls') = Len(calls) - 1 /\ Len(calls) \in Nat
      /\ \A i \in 1..Len(calls') : calls'[i] = calls[i + 1]
  BY <1>1
<1>4. \A i \in 1..Len(calls') : i + 1 \in 1..Len(calls) /\ i + 1 # 1
  BY <1>3
<1>5. \A i, j \in 1..Len(calls') : calls'[i].ledger = calls'[j].ledger => i = j
  <2> SUFFICES ASSUME NEW i \in 1..Len(calls'), NEW j \in 1..Len(calls'),
                      calls'[i].ledger = calls'[j].ledger
               PROVE  i = j
    OBVIOUS
  <2>1. i + 1 = j + 1
    BY <1>3, <1>4 DEF CallsInOrder
  <2> QED BY <2>1
<1>6. \A i \in 1..Len(calls') : calls'[i].op # "fill" /\ calls'[i].ledger # l
  BY <1>2, <1>3, <1>4 DEF CallsInOrder
<1>7. Settled(l)' /\ \A o : ~Due(o, l)'
  BY <1>6 DEF Settled, Due
<1>8. ASSUME NEW m \in Ledger \ {l}
      PROVE  Settled(m)' <=> Settled(m)
  <2>1. ASSUME NEW i \in 1..Len(calls), calls[i].ledger = m
        PROVE  i - 1 \in 1..Len(calls') /\ calls'[i - 1] = calls[i]
    <3>1. i # 1
      BY <2>1, <1>2, <1>8
    <3>2. i - 1 \in 1..Len(calls') /\ (i - 1) + 1 = i
      BY <3>1, <1>3
    <3> QED BY <3>2, <1>3
  <2> QED BY <2>1, <1>3, <1>4 DEF Settled
<1>9. ASSUME NEW m \in Ledger \ {l}, NEW o
      PROVE  Due(o, m)' <=> Due(o, m)
  <2>1. ASSUME NEW i \in 1..Len(calls), calls[i] = [op |-> o, ledger |-> m]
        PROVE  i - 1 \in 1..Len(calls') /\ calls'[i - 1] = calls[i]
    <3>1. i # 1
      BY <2>1, <1>2, <1>9
    <3>2. i - 1 \in 1..Len(calls') /\ (i - 1) + 1 = i
      BY <3>1, <1>3
    <3> QED BY <3>2, <1>3
  <2> QED BY <2>1, <1>3, <1>4 DEF Due
<1> QED BY <1>3, <1>5, <1>6, <1>7, <1>8, <1>9

\* Truncating a ledger turns the call due into a fill, and nothing else changes.
LEMMA CallBecomesFill ==
  ASSUME CallsInOrder, NEW l \in Ledger, Calling("write", l),
         calls' = <<[op |-> "fill", ledger |-> l]>> \o Tail(calls)
  PROVE  /\ calls' \in Seq(LedgerCall)
         /\ \A i, j \in 1..Len(calls') : calls'[i].ledger = calls'[j].ledger => i = j
         /\ \A i \in 1..Len(calls') : calls'[i].op = "fill" => i = 1
         /\ Due("fill", l)' /\ ~Due("append", l)' /\ ~Settled(l)'
         /\ \A m \in Ledger \ {l} : /\ Settled(m)' <=> Settled(m)
                                    /\ \A o : Due(o, m)' <=> Due(o, m)
<1>1. calls # <<>> /\ calls \in Seq(LedgerCall)
  BY DEF CallsInOrder, Calling
<1>2. 1 \in 1..Len(calls) /\ calls[1] = [op |-> "write", ledger |-> l]
  BY <1>1 DEF Calling
<1>3. [op |-> "fill", ledger |-> l] \in LedgerCall
  BY DEF LedgerCall
<1>4. /\ calls' \in Seq(LedgerCall) /\ Len(calls') = Len(calls) /\ Len(calls) \in Nat
      /\ calls'[1] = [op |-> "fill", ledger |-> l]
      /\ \A i \in 1..Len(calls) : i # 1 => calls'[i] = calls[i]
  <2>1. /\ Tail(calls) \in Seq(LedgerCall) /\ Len(Tail(calls)) = Len(calls) - 1
        /\ \A i \in 1..Len(Tail(calls)) : Tail(calls)[i] = calls[i + 1]
    BY <1>1
  <2>2. <<[op |-> "fill", ledger |-> l]>> \in Seq(LedgerCall)
    BY <1>3
  <2>3. /\ calls' \in Seq(LedgerCall) /\ Len(calls') = Len(calls) /\ Len(calls) \in Nat
        /\ calls'[1] = [op |-> "fill", ledger |-> l]
    BY <2>1, <2>2, <1>1
  <2>4. ASSUME NEW i \in 1..Len(calls), i # 1
        PROVE  calls'[i] = calls[i]
    <3>1. i - 1 \in 1..Len(Tail(calls)) /\ (i - 1) + 1 = i
      BY <2>1, <2>3, <2>4
    <3>2. calls'[i] = Tail(calls)[i - 1]
      BY <2>1, <2>2, <2>3, <2>4, <3>1
    <3> QED BY <2>1, <3>1, <3>2
  <2> QED BY <2>3, <2>4
<1>5. \A i \in 1..Len(calls') : calls'[i].ledger = calls[i].ledger
  BY <1>2, <1>4
<1>6. \A i, j \in 1..Len(calls') : calls'[i].ledger = calls'[j].ledger => i = j
  BY <1>4, <1>5 DEF CallsInOrder
<1>7. \A i \in 1..Len(calls') : calls'[i].op = "fill" => i = 1
  BY <1>4 DEF CallsInOrder
<1>8. 1 \in 1..Len(calls') /\ Due("fill", l)' /\ ~Settled(l)'
  BY <1>2, <1>4 DEF Due, Settled
<1>9. ~Due("append", l)'
  BY <1>4, <1>6, <1>8 DEF Due
<1>10. \A m \in Ledger \ {l} : Settled(m)' <=> Settled(m)
  BY <1>4, <1>5 DEF Settled
<1>11. \A m \in Ledger \ {l} : \A o : Due(o, m)' <=> Due(o, m)
  BY <1>2, <1>4, <1>8 DEF Due
<1> QED BY <1>4, <1>6, <1>7, <1>8, <1>9, <1>10, <1>11

LEMMA IdsWithSource ==
  \A rows : {s[1] : s \in WithSource(rows)} = Present(rows)
<1> SUFFICES ASSUME NEW rows PROVE {s[1] : s \in WithSource(rows)} = Present(rows)
  OBVIOUS
<1>1. ASSUME NEW k \in Present(rows)
      PROVE  k \in {s[1] : s \in WithSource(rows)}
  <2>1. <<k, rows[k].source>> \in WithSource(rows)
    BY DEF WithSource
  <2>2. <<k, rows[k].source>>[1] = k
    OBVIOUS
  <2> QED BY <2>1, <2>2
<1>2. ASSUME NEW s \in WithSource(rows)
      PROVE  s[1] \in Present(rows)
  BY DEF WithSource
<1> QED BY <1>1, <1>2

-----------------------------------------------------------------------------
(* The reader. *)

\* Whatever becomes of one ledger, a reader knows whether it was overtaken.
LEMMA OvertakenReaderKnows ==
  ASSUME LedgersTypeOK, ReaderKnows, DiskClosed,
         NEW l \in Ledger, Overtake(l), Elsewhere(l)
  PROVE  ReaderKnows' /\ reader' \in Reader
<1> DEFINE reading == reader.at \in {"proposals", "snapshots"}
<1>1. /\ reader \in Reader
      /\ reader'.at = reader.at /\ reader'.proposals = reader.proposals
      /\ reader'.snapshots = reader.snapshots /\ reader'.lost = reader.lost
      /\ reader'.behind = IF ~reading THEN reader.behind
                          ELSE IF reader.behind \subseteq {l} THEN {l} ELSE Ledger
  BY DEF LedgersTypeOK, Reader, Overtake, Overtaken
<1>2. reader' \in Reader
  <2>1. reader'.behind \in {{}, Ledger} \cup {{m} : m \in Ledger}
    BY <1>1 DEF Reader
  <2>2. reader' = [reader EXCEPT !.behind = reader'.behind]
    BY <1>1 DEF Overtake, Reader
  <2> QED BY <1>1, <2>1, <2>2 DEF Reader
<1>3. ASSUME reading, reader'.behind # Ledger
      PROVE  /\ reader'.behind = {l} /\ reader.behind # Ledger
             /\ (reader.behind = {} \/ reader.behind = {l})
  BY <1>1, <1>3, LedgerNames DEF Reader
<1> HIDE DEF reading
<1>4. ASSUME reading, reader'.behind # Ledger, ~reader'.lost
      PROVE  /\ "proposals" \notin reader'.behind =>
                  reader.proposals = Present(disk'.proposals) /\ "proposals" \notin short'
             /\ reader'.behind = {"proposals"} => SourcesIn(disk'.snapshots, reader.proposals)
  <2>1. CASE l = "proposals"
    <3>1. disk'.snapshots = disk.snapshots
      BY <2>1, LedgerNames DEF Elsewhere
    <3>2. SourcesIn(disk.snapshots, reader.proposals)
      BY <2>1, <1>1, <1>3, <1>4 DEF ReaderKnows, DiskClosed, reading
    <3> QED BY <2>1, <3>1, <3>2, <1>3, <1>4
  <2>2. CASE l # "proposals"
    <3>1. disk'.proposals = disk.proposals /\ ("proposals" \in short' <=> "proposals" \in short)
      BY <2>2, LedgerNames DEF Elsewhere
    <3>2. reader.proposals = Present(disk.proposals) /\ "proposals" \notin short
      BY <2>2, <1>1, <1>3, <1>4 DEF ReaderKnows, reading
    <3> QED BY <2>2, <3>1, <3>2, <1>3, <1>4
  <2> QED BY <2>1, <2>2
<1>5. ASSUME reader.at = "snapshots", reader'.behind # Ledger, ~reader'.lost
      PROVE  /\ "snapshots" \notin reader'.behind =>
                  reader.snapshots = WithSource(disk'.snapshots) /\ "snapshots" \notin short'
             /\ \A s \in reader.snapshots : s[2] \in reader.proposals
             /\ "rollbacks" \notin reader'.behind =>
                  EndsIn(disk'.rollbacks, {s[1] : s \in reader.snapshots})
  <2>0. reading
    BY <1>5 DEF reading
  <2>1. \A s \in reader.snapshots : s[2] \in reader.proposals
    BY <2>0, <1>1, <1>3, <1>5 DEF ReaderKnows, reading
  <2>2. l # "snapshots" =>
          reader.snapshots = WithSource(disk'.snapshots) /\ "snapshots" \notin short'
    BY <2>0, <1>1, <1>3, <1>5, LedgerNames DEF ReaderKnows, reading, Elsewhere
  <2>3. l # "rollbacks" => EndsIn(disk'.rollbacks, {s[1] : s \in reader.snapshots})
    BY <2>0, <1>1, <1>3, <1>5, LedgerNames DEF ReaderKnows, reading, Elsewhere
  <2> QED BY <2>0, <2>1, <2>2, <2>3, <1>3, <1>5
<1> QED BY <1>1, <1>2, <1>4, <1>5 DEF ReaderKnows, reading

\* An emptied ledger is being written, or was cut short.
LEMMA EmptiedLedgers ==
  \A l : l \in short => BeingWritten(l) \/ CutShort(l)
BY DEF BeingWritten, CutShort

\* Reading on: the snapshots agree with the proposals read before them, and the
\* rollbacks on disk with the snapshots.
LEMMA ReadKeepsReaderKnows ==
  ASSUME LedgersTypeOK, ReaderKnows, DiskClosed, UNCHANGED <<disk, short>>,
         ReadProposals \/ ReadSnapshots \/ ReadRollbacks \/ ReadFails
  PROVE  ReaderKnows' /\ reader' \in Reader
<1>0. reader \in Reader /\ NotReading \in Reader
  BY DEF LedgersTypeOK, Reader, NotReading
<1>1. CASE ReadProposals
  <2>1. /\ reader'.at = "proposals" /\ reader'.proposals = Present(disk.proposals)
        /\ reader'.behind = IF BeingWritten("proposals") THEN Ledger ELSE {}
        /\ reader'.lost = CutShort("proposals") /\ reader'.snapshots = {}
    BY <1>1 DEF ReadProposals, NotReading, Overtaken
  <2>2. reader' \in Reader
    <3>1. Present(disk.proposals) \in SUBSET ProposalId
      BY DEF LedgersTypeOK, Contents, Present
    <3>2. CutShort("proposals") \in BOOLEAN
      BY DEF CutShort, Calling
    <3> QED BY <1>1, <3>1, <3>2 DEF ReadProposals, NotReading, Overtaken, Reader
  <2>3. reader'.behind # Ledger /\ ~reader'.lost =>
          reader'.behind = {} /\ "proposals" \notin short
    BY <2>1, EmptiedLedgers
  <2> QED BY <2>1, <2>2, <2>3, <1>1 DEF ReaderKnows
<1>2. CASE ReadSnapshots
  <2>1. /\ reader.at = "proposals" /\ reader'.at = "snapshots"
        /\ reader'.proposals = reader.proposals
        /\ reader'.snapshots = WithSource(disk.snapshots)
        /\ reader'.behind = IF BeingWritten("snapshots") THEN Ledger ELSE reader.behind
        /\ reader'.lost = (reader.lost \/ CutShort("snapshots"))
    BY <1>0, <1>2 DEF ReadSnapshots, Overtaken, Reader
  <2>2. reader' \in Reader
    <3>1. WithSource(disk.snapshots) \in SUBSET (SnapshotId \X (ProposalId \cup {None}))
      BY DEF LedgersTypeOK, Contents, Present, WithSource, Snapshot
    <3>2. CutShort("snapshots") \in BOOLEAN
      BY DEF CutShort, Calling
    <3> QED BY <1>0, <1>2, <3>1, <3>2 DEF ReadSnapshots, Overtaken, Reader
  <2> SUFFICES ASSUME reader'.behind # Ledger, ~reader'.lost
               PROVE  ReaderKnows'
    BY <2>2 DEF ReaderKnows
  <2>3. /\ reader'.behind = reader.behind /\ "snapshots" \notin short
        /\ reader.behind # Ledger /\ ~reader.lost
    BY <2>1, EmptiedLedgers
  <2>4. /\ "proposals" \notin reader.behind =>
             reader.proposals = Present(disk.proposals) /\ "proposals" \notin short
        /\ reader.behind = {"proposals"} => SourcesIn(disk.snapshots, reader.proposals)
    BY <2>1, <2>3 DEF ReaderKnows
  <2>5. SourcesIn(disk.snapshots, reader.proposals)
    <3>1. reader.behind = {"proposals"} \/ "proposals" \notin reader.behind
      BY <1>0, <2>3 DEF Reader
    <3> QED BY <3>1, <2>4 DEF DiskClosed
  <2>6. \A s \in WithSource(disk.snapshots) : s[2] \in reader.proposals
    BY <2>5 DEF WithSource, Present, SourcesIn, LedgersTypeOK, Contents
  <2>7. {s[1] : s \in WithSource(disk.snapshots)} = Present(disk.snapshots)
    BY IdsWithSource
  <2>8. EndsIn(disk.rollbacks, Present(disk.snapshots))
    BY <2>3 DEF DiskClosed
  <2> QED BY <2>1, <2>3, <2>4, <2>6, <2>7, <2>8 DEF ReaderKnows
<1>3. CASE ReadRollbacks
  <2>1. reader' \in Reader /\ reader'.at \in {"idle", "refused"}
    BY <1>0, <1>3 DEF ReadRollbacks, NotReading, Reader
  <2> QED BY <2>1 DEF ReaderKnows
<1>4. CASE ReadFails
  <2>1. reader' = NotReading
    BY <1>4 DEF ReadFails
  <2> QED BY <2>1, <1>0 DEF ReaderKnows, NotReading
<1> QED BY <1>1, <1>2, <1>3, <1>4

-----------------------------------------------------------------------------
(* The calls. *)

\* What may be laid down in a ledger: its records are the store's.
PartOfStore(c) ==
  /\ c \in Contents
  /\ EvidenceOf(c.proposals)
  /\ \A known : SourcesIn(snapshots, known) => SourcesIn(c.snapshots, known)
  /\ \A ids : EndsIn(rollbacks, ids) => EndsIn(c.rollbacks, ids)

LEMMA StoreIsPart ==
  ASSUME LedgersInv
  PROVE  PartOfStore(Store)
BY StoreTyped DEF LedgersInv, LedgersTypeOK, Evident, PartOfStore, Store

LEMMA EmptyIsPart == PartOfStore(Empty)
BY EmptyIsEmpty DEF PartOfStore

LEMMA SomeIsPart ==
  ASSUME LedgersInv, NEW l \in Ledger, NEW some \in SomeOf(l)
  PROVE  PartOfStore([Store EXCEPT ![l] = some]) /\ [Store EXCEPT ![l] = some][l] = some
<1>1. TypeOK /\ EvidenceOf(proposals) /\ Store \in Contents
  BY StoreTyped DEF LedgersInv, LedgersTypeOK, Evident
<1>2. CASE l = "proposals"
  <2>0. Store[l] = proposals /\ DOMAIN proposals = ProposalId /\ \A k \in ProposalId : Empty[l][k] = NoProposal
    BY <1>1, <1>2 DEF Store, Empty, TypeOK
  <2>10. PICK kept \in SUBSET Present(proposals) :
          some = [k \in ProposalId |-> IF k \in kept THEN proposals[k] ELSE Empty[l][k]]
    BY <2>0, <1>2 DEF SomeOf
  <2>1. some = [k \in ProposalId |-> IF k \in kept THEN proposals[k] ELSE NoProposal]
    BY <2>0, <2>10
  <2>2. NoProposal \in Proposal
    BY BoundsAssumption DEF NoProposal, Proposal, Time
  <2>3. some \in [ProposalId -> Proposal] /\ EvidenceOf(some)
    BY <1>1, <2>1, <2>2 DEF TypeOK, EvidenceOf, NoProposal
  <2> QED BY <1>1, <1>2, <2>3 DEF PartOfStore, Store, Contents
<1>3. CASE l = "snapshots"
  <2>0. Store[l] = snapshots /\ DOMAIN snapshots = SnapshotId /\ \A k \in SnapshotId : Empty[l][k] = NoSnapshot
    BY <1>1, <1>3 DEF Store, Empty, TypeOK
  <2>10. PICK kept \in SUBSET Present(snapshots) :
          some = [k \in SnapshotId |-> IF k \in kept THEN snapshots[k] ELSE Empty[l][k]]
    BY <2>0, <1>3 DEF SomeOf
  <2>1. some = [k \in SnapshotId |-> IF k \in kept THEN snapshots[k] ELSE NoSnapshot]
    BY <2>0, <2>10
  <2>2. NoSnapshot \in Snapshot
    BY BoundsAssumption DEF NoSnapshot, Snapshot, Time
  <2>3. some \in [SnapshotId -> Snapshot]
    BY <1>1, <2>1, <2>2 DEF TypeOK
  <2>4. \A known : SourcesIn(snapshots, known) => SourcesIn(some, known)
    BY <2>1 DEF SourcesIn, NoSnapshot
  <2> QED BY <1>1, <1>3, <2>3, <2>4 DEF PartOfStore, Store, Contents
<1>4. CASE l = "rollbacks"
  <2>1. PICK n \in 0..Len(rollbacks) : some = SubSeq(rollbacks, 1, n)
    BY <1>1, <1>4 DEF SomeOf
  <2>2. /\ some \in Seq(RollbackRecord) /\ Len(some) = n
        /\ \A i \in 1..n : some[i] = rollbacks[i] /\ i \in 1..Len(rollbacks)
    BY <1>1, <2>1 DEF TypeOK
  <2>3. \A ids : EndsIn(rollbacks, ids) => EndsIn(some, ids)
    BY <2>2 DEF EndsIn
  <2> QED BY <1>1, <1>4, <2>2, <2>3 DEF PartOfStore, Store, Contents
<1> QED BY <1>2, <1>3, <1>4, LedgerNames

\* Laying down a part of the store in a ledger, all of it unless the ledger is short.
LEMMA LayDown ==
  ASSUME LedgersInv, NEW op, NEW l \in Ledger, Calling(op, l),
         NEW c, PartOfStore(c), disk' = [disk EXCEPT ![l] = c[l]],
         \A m \in Ledger \ {l} : m \in short' <=> m \in short,
         l \notin short' => c[l] = Store[l],
         Overtake(l)
  PROVE  /\ disk' \in Contents /\ disk'[l] = c[l] /\ Elsewhere(l)
         /\ DiskClosed' /\ ReaderKnows' /\ reader' \in Reader
         /\ EvidenceOf(disk'.proposals)
         /\ "snapshots" \notin short' => Routes(disk'.snapshots)
         /\ SourcesIn(disk'.snapshots, Present(proposals))
         /\ EndsIn(disk'.rollbacks, Present(snapshots))
<1>1. LedgersTypeOK /\ CallsInOrder /\ MemoryClosed /\ DiskClosed /\ RoutingKept /\ ReaderKnows
  BY DEF LedgersInv
<1>2. c \in Contents /\ disk \in Contents
  BY <1>1 DEF PartOfStore, LedgersTypeOK
<1>3. disk' \in Contents /\ disk'[l] = c[l] /\ \A m \in Ledger \ {l} : disk'[m] = disk[m]
  BY <1>2, WriteOne
<1>4. Elsewhere(l)
  BY <1>3 DEF Elsewhere
<1>5. ReaderKnows' /\ reader' \in Reader
  BY <1>1, <1>4, OvertakenReaderKnows
<1>6. up /\ ~Settled(l) /\ \A m \in Ledger \ {l} : ~Due("fill", m)
  BY <1>1, CallAtHead
<1>7. /\ SourcesIn(snapshots, Present(proposals)) /\ SourcesIn(disk.snapshots, Present(proposals))
      /\ EndsIn(rollbacks, Present(snapshots)) /\ EndsIn(disk.rollbacks, Present(snapshots))
  BY <1>1, <1>6 DEF MemoryClosed
<1>8. CASE l = "proposals"
  <2>1. disk'.snapshots = disk.snapshots /\ disk'.rollbacks = disk.rollbacks
    BY <1>3, <1>8, LedgerNames
  <2>2. disk'.proposals = c.proposals
    BY <1>3, <1>8
  <2>3. "snapshots" \in short' <=> "snapshots" \in short
    BY <1>8, LedgerNames
  <2>4. "proposals" \notin short' => disk'.proposals = proposals
    BY <1>8, <2>2 DEF Store
  <2>5. DiskClosed'
    BY <1>1, <1>7, <2>1, <2>3, <2>4 DEF DiskClosed
  <2>6. EvidenceOf(disk'.proposals)
    BY <2>2 DEF PartOfStore
  <2>7. "snapshots" \notin short' => Routes(disk'.snapshots)
    BY <1>1, <2>1, <2>3 DEF RoutingKept
  <2> QED BY <1>3, <1>4, <1>5, <1>7, <2>1, <2>5, <2>6, <2>7
<1>9. CASE l = "snapshots"
  <2>1. disk'.proposals = disk.proposals /\ disk'.rollbacks = disk.rollbacks
    BY <1>3, <1>9, LedgerNames
  <2>2. disk'.snapshots = c.snapshots
    BY <1>3, <1>9
  <2>3. "snapshots" \notin short' => disk'.snapshots = snapshots
    BY <1>9, <2>2 DEF Store
  <2>4. SourcesIn(snapshots, Present(disk.proposals))
    BY <1>1, <1>6, <1>9, LedgerNames DEF MemoryClosed
  <2>5. SourcesIn(disk'.snapshots, Present(disk.proposals))
        /\ SourcesIn(disk'.snapshots, Present(proposals))
    BY <1>7, <2>2, <2>4 DEF PartOfStore
  <2>6. DiskClosed'
    BY <1>7, <2>1, <2>3, <2>5 DEF DiskClosed
  <2>7. "snapshots" \notin short' => Routes(disk'.snapshots)
    BY <1>1, <1>6, <1>9, <2>3 DEF RoutingKept
  <2>8. EvidenceOf(disk'.proposals)
    BY <2>1 DEF LedgersInv, Evident
  <2> QED BY <1>3, <1>4, <1>5, <1>7, <2>1, <2>5, <2>6, <2>7, <2>8
<1>10. CASE l = "rollbacks"
  <2>1. disk'.proposals = disk.proposals /\ disk'.snapshots = disk.snapshots
    BY <1>3, <1>10, LedgerNames
  <2>2. disk'.rollbacks = c.rollbacks
    BY <1>3, <1>10
  <2>3. /\ "snapshots" \in short' <=> "snapshots" \in short
        /\ "proposals" \in short' <=> "proposals" \in short
    BY <1>10, LedgerNames
  <2>4. EndsIn(rollbacks, Present(disk.snapshots))
    BY <1>1, <1>6, <1>10, LedgerNames DEF MemoryClosed
  <2>5. EndsIn(disk'.rollbacks, Present(disk.snapshots))
        /\ EndsIn(disk'.rollbacks, Present(snapshots))
    BY <1>7, <2>2, <2>4 DEF PartOfStore
  <2>6. DiskClosed'
    BY <1>1, <2>1, <2>3, <2>5 DEF DiskClosed
  <2>7. "snapshots" \notin short' => Routes(disk'.snapshots)
    BY <1>1, <2>1, <2>3 DEF RoutingKept
  <2>8. EvidenceOf(disk'.proposals)
    BY <2>1 DEF LedgersInv, Evident
  <2> QED BY <1>3, <1>4, <1>5, <1>7, <2>1, <2>5, <2>6, <2>7, <2>8
<1> QED BY <1>8, <1>9, <1>10, LedgerNames

\* While the process runs on: the ledger called for holds the store, or waits for its
\* records; the other ledgers are owed what they were owed.
LEMMA CallKeepsClosed ==
  ASSUME LedgersInv, NEW op, NEW l \in Ledger, Calling(op, l), UNCHANGED <<memory, up>>,
         Elsewhere(l),
         \A m \in Ledger \ {l} : /\ Settled(m)' <=> Settled(m)
                                 /\ \A o : Due(o, m)' <=> Due(o, m),
         ~Due("append", l)', Due("fill", l)' \/ disk'[l] = Store[l],
         Due("fill", l)' => ~Settled(l)',
         SourcesIn(disk'.snapshots, Present(proposals)),
         EndsIn(disk'.rollbacks, Present(snapshots))
  PROVE  CallsCatchUp' /\ MemoryClosed' /\ (up' /\ ~Settled("snapshots")' => Routes(snapshots'))
<1>1. CallsInOrder /\ CallsCatchUp /\ MemoryClosed /\ RoutingKept
  BY DEF LedgersInv
<1>2. up /\ ~Settled(l) /\ \A m \in Ledger \ {l} : ~Due("fill", m)
  BY <1>1, CallAtHead
<1>3. /\ proposals' = proposals /\ snapshots' = snapshots /\ rollbacks' = rollbacks
      /\ up' = up /\ Store' = Store
  BY DEF memory, Store
<1>4. CallsCatchUp'
  <2> SUFFICES ASSUME NEW m \in Ledger
               PROVE  /\ Settled(m)' => disk'[m] = Store[m]
                      /\ Due("append", m)' => Appended(m)' = Store[m]
    BY <1>3 DEF CallsCatchUp
  <2>1. CASE m = l
    BY <2>1
  <2>2. CASE m # l
    <3>1. disk'[m] = disk[m]
      BY <2>2 DEF Elsewhere
    <3>2. Appended(m)' = Appended(m)
      BY <1>3, <3>1 DEF Appended, Empty
    <3> QED BY <1>1, <1>2, <2>2, <3>1, <3>2 DEF CallsCatchUp
  <2> QED BY <2>1, <2>2
<1>5. ~Due("fill", "proposals")' => SourcesIn(snapshots, Present(disk'.proposals))
  <2>1. CASE l = "proposals"
    BY <1>1, <1>2, <2>1 DEF MemoryClosed, Store
  <2>2. CASE l # "proposals"
    BY <1>1, <1>2, <2>2, LedgerNames DEF MemoryClosed, Elsewhere
  <2> QED BY <2>1, <2>2
<1>6. ~Due("fill", "snapshots")' => EndsIn(rollbacks, Present(disk'.snapshots))
  <2>1. CASE l = "snapshots"
    BY <1>1, <1>2, <2>1 DEF MemoryClosed, Store
  <2>2. CASE l # "snapshots"
    BY <1>1, <1>2, <2>2, LedgerNames DEF MemoryClosed, Elsewhere
  <2> QED BY <2>1, <2>2
<1>7. MemoryClosed'
  BY <1>1, <1>2, <1>3, <1>5, <1>6 DEF MemoryClosed
<1>8. up' /\ ~Settled("snapshots")' => Routes(snapshots')
  BY <1>1, <1>2, <1>3, LedgerNames DEF RoutingKept
<1> QED BY <1>4, <1>7, <1>8

LEMMA AppendRecordKeepsInv ==
  ASSUME LedgersInv, NEW l \in Ledger, AppendRecord(l)
  PROVE  LedgersInv'
<1>1. /\ Calling("append", l) /\ calls' = Tail(calls) /\ Overtake(l)
      /\ disk' = [disk EXCEPT ![l] = Appended(l)] /\ UNCHANGED <<memory, torn, short, up>>
  BY DEF AppendRecord
<1>2. LedgersTypeOK /\ CallsInOrder /\ CallsCatchUp /\ RoutingKept /\ Evident
  BY DEF LedgersInv
<1>3. up /\ Appended(l) = Store[l]
  BY <1>1, <1>2, CallAtHead DEF CallsCatchUp
<1>4. /\ disk' \in Contents /\ disk'[l] = Store[l] /\ Elsewhere(l)
      /\ DiskClosed' /\ ReaderKnows' /\ reader' \in Reader
      /\ EvidenceOf(disk'.proposals)
      /\ "snapshots" \notin short' => Routes(disk'.snapshots)
      /\ SourcesIn(disk'.snapshots, Present(proposals))
      /\ EndsIn(disk'.rollbacks, Present(snapshots))
  BY <1>1, <1>3, StoreIsPart, LayDown
<1>5. /\ calls' \in Seq(LedgerCall)
      /\ \A i, j \in 1..Len(calls') : calls'[i].ledger = calls'[j].ledger => i = j
      /\ \A i \in 1..Len(calls') : calls'[i].op # "fill"
      /\ Settled(l)' /\ \A o : ~Due(o, l)'
      /\ \A m \in Ledger \ {l} : /\ Settled(m)' <=> Settled(m)
                                 /\ \A o : Due(o, m)' <=> Due(o, m)
  BY <1>1, <1>2, CallReturns
<1>6. CallsCatchUp' /\ MemoryClosed' /\ (up' /\ ~Settled("snapshots")' => Routes(snapshots'))
  BY <1>1, <1>4, <1>5, CallKeepsClosed
<1>7. LedgersTypeOK' /\ Evident'
  BY <1>1, <1>2, <1>4 DEF LedgersTypeOK, TypeOK, memory, Evident
<1>8. CallsInOrder'
  BY <1>1, <1>2, <1>3, <1>5 DEF CallsInOrder
<1>9. RoutingKept'
  BY <1>4, <1>6 DEF RoutingKept
<1> QED BY <1>4, <1>6, <1>7, <1>8, <1>9 DEF LedgersInv

LEMMA TruncateKeepsInv ==
  ASSUME LedgersInv, NEW l \in Ledger, Truncate(l)
  PROVE  LedgersInv'
<1>1. /\ Calling("write", l) /\ calls' = <<[op |-> "fill", ledger |-> l]>> \o Tail(calls)
      /\ Overtake(l) /\ disk' = [disk EXCEPT ![l] = Empty[l]] /\ short' = short \cup {l}
      /\ UNCHANGED <<memory, torn, up>>
  BY DEF Truncate
<1>2. LedgersTypeOK /\ CallsInOrder /\ RoutingKept /\ Evident
  BY DEF LedgersInv
<1>3. up /\ \A m \in Ledger \ {l} : ~Due("fill", m)
  BY <1>1, <1>2, CallAtHead
<1>4. /\ disk' \in Contents /\ Elsewhere(l)
      /\ DiskClosed' /\ ReaderKnows' /\ reader' \in Reader
      /\ EvidenceOf(disk'.proposals)
      /\ "snapshots" \notin short' => Routes(disk'.snapshots)
      /\ SourcesIn(disk'.snapshots, Present(proposals))
      /\ EndsIn(disk'.rollbacks, Present(snapshots))
  BY <1>1, EmptyIsPart, LayDown
<1>5. /\ calls' \in Seq(LedgerCall)
      /\ \A i, j \in 1..Len(calls') : calls'[i].ledger = calls'[j].ledger => i = j
      /\ \A i \in 1..Len(calls') : calls'[i].op = "fill" => i = 1
      /\ Due("fill", l)' /\ ~Due("append", l)' /\ ~Settled(l)'
      /\ \A m \in Ledger \ {l} : /\ Settled(m)' <=> Settled(m)
                                 /\ \A o : Due(o, m)' <=> Due(o, m)
  BY <1>1, <1>2, CallBecomesFill
<1>6. CallsCatchUp' /\ MemoryClosed' /\ (up' /\ ~Settled("snapshots")' => Routes(snapshots'))
  BY <1>1, <1>4, <1>5, CallKeepsClosed
<1>7. LedgersTypeOK' /\ Evident'
  BY <1>1, <1>2, <1>4 DEF LedgersTypeOK, TypeOK, memory, Evident
<1>8. CallsInOrder'
  BY <1>1, <1>2, <1>3, <1>5 DEF CallsInOrder
<1>9. RoutingKept'
  BY <1>4, <1>6 DEF RoutingKept
<1> QED BY <1>4, <1>6, <1>7, <1>8, <1>9 DEF LedgersInv

LEMMA FillKeepsInv ==
  ASSUME LedgersInv, NEW l \in Ledger, Fill(l)
  PROVE  LedgersInv'
<1>1. /\ Calling("fill", l) /\ calls' = Tail(calls) /\ Overtake(l)
      /\ disk' = [disk EXCEPT ![l] = Store[l]] /\ short' = short \ {l}
      /\ UNCHANGED <<memory, torn, up>>
  BY DEF Fill, Written
<1>2. LedgersTypeOK /\ CallsInOrder /\ RoutingKept /\ Evident
  BY DEF LedgersInv
<1>3. up /\ \A m \in Ledger \ {l} : ~Due("fill", m)
  BY <1>1, <1>2, CallAtHead
<1>4. /\ disk' \in Contents /\ disk'[l] = Store[l] /\ Elsewhere(l)
      /\ DiskClosed' /\ ReaderKnows' /\ reader' \in Reader
      /\ EvidenceOf(disk'.proposals)
      /\ "snapshots" \notin short' => Routes(disk'.snapshots)
      /\ SourcesIn(disk'.snapshots, Present(proposals))
      /\ EndsIn(disk'.rollbacks, Present(snapshots))
  BY <1>1, StoreIsPart, LayDown
<1>5. /\ calls' \in Seq(LedgerCall)
      /\ \A i, j \in 1..Len(calls') : calls'[i].ledger = calls'[j].ledger => i = j
      /\ \A i \in 1..Len(calls') : calls'[i].op # "fill"
      /\ Settled(l)' /\ \A o : ~Due(o, l)'
      /\ \A m \in Ledger \ {l} : /\ Settled(m)' <=> Settled(m)
                                 /\ \A o : Due(o, m)' <=> Due(o, m)
  BY <1>1, <1>2, CallReturns
<1>6. CallsCatchUp' /\ MemoryClosed' /\ (up' /\ ~Settled("snapshots")' => Routes(snapshots'))
  BY <1>1, <1>4, <1>5, CallKeepsClosed
<1>7. LedgersTypeOK' /\ Evident'
  BY <1>1, <1>2, <1>4 DEF LedgersTypeOK, TypeOK, memory, Evident
<1>8. CallsInOrder'
  BY <1>1, <1>2, <1>3, <1>5 DEF CallsInOrder
<1>9. RoutingKept'
  BY <1>4, <1>6 DEF RoutingKept
<1> QED BY <1>4, <1>6, <1>7, <1>8, <1>9 DEF LedgersInv

\* A process that goes down leaves only what is on disk to speak of.
LEMMA DownKeepsInv ==
  ASSUME Down, disk' \in Contents, torn' \in SUBSET Ledger, short' \in SUBSET Ledger,
         reader' \in Reader, DiskClosed', ReaderKnows', EvidenceOf(disk'.proposals),
         "snapshots" \notin short' => Routes(disk'.snapshots)
  PROVE  LedgersInv'
<1>1. /\ up' = FALSE /\ calls' = <<>> /\ proposals' = Empty.proposals
      /\ snapshots' = Empty.snapshots /\ rollbacks' = Empty.rollbacks
  BY DEF Down
<1>2. TypeOK' /\ EvidenceOf(proposals')
  BY <1>1, EmptyIsEmpty DEF TypeOK, Contents
<1>3. LedgersTypeOK' /\ Evident'
  BY <1>1, <1>2 DEF LedgersTypeOK, Evident
<1>4. CallsInOrder'
  BY <1>1 DEF CallsInOrder, Due
<1>5. CallsCatchUp' /\ MemoryClosed' /\ RoutingKept'
  BY <1>1 DEF CallsCatchUp, MemoryClosed, RoutingKept
<1> QED BY <1>3, <1>4, <1>5 DEF LedgersInv

LEMMA StopsKeepInv ==
  ASSUME LedgersInv, NEW l \in Ledger, AppendStops(l) \/ FillStops(l) \/ Die
  PROVE  LedgersInv'
<1>1. /\ LedgersTypeOK /\ CallsInOrder /\ DiskClosed /\ RoutingKept /\ Evident /\ ReaderKnows
      /\ disk \in Contents /\ torn \in SUBSET Ledger /\ short \in SUBSET Ledger
  BY DEF LedgersInv, LedgersTypeOK
<1>2. CASE AppendStops(l)
  <2>1. /\ Down /\ Overtake(l) /\ torn' = torn \cup {l} /\ disk' = disk /\ short' = short
    BY <1>2 DEF AppendStops
  <2>2. Elsewhere(l)
    BY <2>1 DEF Elsewhere
  <2>3. ReaderKnows' /\ reader' \in Reader
    BY <1>1, <2>1, <2>2, OvertakenReaderKnows
  <2>4. DiskClosed' /\ EvidenceOf(disk'.proposals) /\ ("snapshots" \notin short' => Routes(disk'.snapshots))
    BY <1>1, <2>1 DEF DiskClosed, Evident, RoutingKept
  <2> QED BY <1>1, <2>1, <2>3, <2>4, DownKeepsInv
<1>3. CASE FillStops(l)
  <2>1. PICK some \in SomeOf(l) : disk' = [disk EXCEPT ![l] = some]
    BY <1>3 DEF FillStops
  <2>2. /\ Calling("fill", l) /\ torn' \in {torn, torn \cup {l}} /\ Overtake(l) /\ Down
        /\ short' = short
    BY <1>3 DEF FillStops
  <2> DEFINE c == [Store EXCEPT ![l] = some]
  <2>3. PartOfStore(c) /\ c[l] = some
    BY SomeIsPart
  <2>4. l \in short'
    BY <1>1, <2>2, CallAtHead DEF CallsInOrder
  <2> HIDE DEF c
  <2>5. disk' = [disk EXCEPT ![l] = c[l]]
    BY <2>1, <2>3
  <2>6. /\ disk' \in Contents /\ DiskClosed' /\ ReaderKnows' /\ reader' \in Reader
        /\ EvidenceOf(disk'.proposals)
        /\ "snapshots" \notin short' => Routes(disk'.snapshots)
    BY <2>2, <2>3, <2>4, <2>5, LayDown
  <2> QED BY <1>1, <2>2, <2>6, DownKeepsInv
<1>4. CASE Die
  <2>1. Down /\ UNCHANGED <<disk, torn, short, reader>>
    BY <1>4 DEF Die, ledgers
  <2>2. DiskClosed' /\ EvidenceOf(disk'.proposals) /\ ("snapshots" \notin short' => Routes(disk'.snapshots))
    BY <1>1, <2>1 DEF DiskClosed, Evident, RoutingKept
  <2>3. ReaderKnows' /\ reader' \in Reader
    BY <1>1, <2>1 DEF ReaderKnows, LedgersTypeOK
  <2> QED BY <1>1, <2>1, <2>2, <2>3, DownKeepsInv
<1> QED BY <1>2, <1>3, <1>4

\* What is loaded was checked: the references the ledgers hold are closed.
LEMMA RestartKeepsInv ==
  ASSUME LedgersInv, Restart
  PROVE  LedgersInv'
<1>1. /\ ~up /\ torn = {} /\ ValidLedgers /\ up' = TRUE
      /\ proposals' = disk.proposals /\ snapshots' = disk.snapshots /\ rollbacks' = disk.rollbacks
      /\ UNCHANGED <<disk, torn, short, calls, reader>>
  BY DEF Restart, ledgers
<1>2. /\ LedgersTypeOK /\ CallsInOrder /\ DiskClosed /\ RoutingKept /\ Evident /\ ReaderKnows
      /\ disk \in Contents
  BY DEF LedgersInv, LedgersTypeOK
<1>3. LedgersTypeOK' /\ Evident'
  BY <1>1, <1>2 DEF LedgersTypeOK, TypeOK, Contents, Evident
<1>4. calls = <<>> /\ calls' = <<>>
  BY <1>1, <1>2 DEF CallsInOrder
<1>5. \A l : Settled(l)' /\ \A o : ~Due(o, l)'
  BY <1>4 DEF Settled, Due
<1>6. CallsInOrder'
  <2>1. calls' \in Seq(LedgerCall) /\ Len(calls') = 0
    BY <1>4
  <2>2. \A l \in Ledger : ~Due("fill", l)'
    BY <1>5
  <2> QED BY <1>1, <2>1, <2>2 DEF CallsInOrder
<1>7. CallsCatchUp'
  <2>1. Store' = disk'
    BY <1>1, <1>2 DEF Store, Contents
  <2> QED BY <1>5, <2>1 DEF CallsCatchUp
<1>8. SourcesIn(disk.snapshots, Present(disk.proposals)) /\ EndsIn(disk.rollbacks, Present(disk.snapshots))
  <2>1. /\ \A s \in WithSource(disk.snapshots) : s[2] \in Present(disk.proposals)
        /\ EndsIn(disk.rollbacks, Present(disk.snapshots))
    BY <1>1, IdsWithSource DEF ValidLedgers, ValidRecords, EndsIn
  <2>2. ASSUME NEW s \in SnapshotId, disk.snapshots[s].status # "Absent"
        PROVE  disk.snapshots[s].source \in Present(disk.proposals)
    <3>1. <<s, disk.snapshots[s].source>> \in WithSource(disk.snapshots)
      BY <1>2, <2>2 DEF WithSource, Present, Contents
    <3>2. <<s, disk.snapshots[s].source>>[2] = disk.snapshots[s].source
      OBVIOUS
    <3> QED BY <2>1, <3>1, <3>2
  <2> QED BY <2>1, <2>2 DEF SourcesIn
<1>9. MemoryClosed'
  BY <1>1, <1>8 DEF MemoryClosed
<1>10. DiskClosed' /\ RoutingKept' /\ ReaderKnows'
  BY <1>1, <1>2, <1>5 DEF DiskClosed, RoutingKept, ReaderKnows
<1> QED BY <1>3, <1>6, <1>7, <1>9, <1>10 DEF LedgersInv

LEMMA ReadKeepsInv ==
  ASSUME LedgersInv, ReadProposals \/ ReadSnapshots \/ ReadRollbacks \/ ReadFails
  PROVE  LedgersInv'
<1>1. UNCHANGED <<proposals, snapshots, rollbacks, disk, torn, short, up, calls>>
  BY DEF ReadProposals, ReadSnapshots, ReadRollbacks, ReadFails, memory, ledgers
<1>2. ReaderKnows' /\ reader' \in Reader
  BY <1>1, ReadKeepsReaderKnows DEF LedgersInv
<1>3. LedgersTypeOK' /\ Evident'
  BY <1>1, <1>2 DEF LedgersInv, LedgersTypeOK, TypeOK, Evident
<1>4. CallsInOrder' /\ CallsCatchUp' /\ MemoryClosed' /\ DiskClosed' /\ RoutingKept'
  BY <1>1 DEF LedgersInv, CallsInOrder, CallsCatchUp, MemoryClosed, DiskClosed, RoutingKept,
              Due, Settled, Store, Appended, Empty
<1> QED BY <1>2, <1>3, <1>4 DEF LedgersInv

-----------------------------------------------------------------------------
(* An operation in memory, which starts when the disk holds all that memory does. *)

Planned ==
  /\ calls' \in Seq(LedgerCall)
  /\ \A i, j \in 1..Len(calls') : calls'[i].ledger = calls'[j].ledger => i = j
  /\ \A i \in 1..Len(calls') : calls'[i].op # "fill"

LEMMA OneCallPlanned ==
  ASSUME NEW l \in Ledger, NEW c \in Adds(l), calls' = <<c>>
  PROVE  /\ Planned
         /\ \A m \in Ledger \ {l} : Settled(m)' /\ ~Due("append", m)'
         /\ Due("append", l)' => c = Appends(l)
<1>1. c \in LedgerCall /\ c.ledger = l /\ c.op # "fill" /\ (c = Appends(l) \/ c = Writes(l))
  BY DEF Adds, Appends, Writes, LedgerCall
<1>2. calls' \in Seq(LedgerCall) /\ Len(calls') = 1 /\ calls'[1] = c
  BY <1>1
<1>3. \A i \in 1..Len(calls') : i = 1
  BY <1>2
<1>4. \A m \in Ledger \ {l} : Settled(m)' /\ ~Due("append", m)'
  BY <1>1, <1>2, <1>3 DEF Settled, Due
<1>5. Due("append", l)' => c = Appends(l)
  BY <1>2, <1>3 DEF Due, Appends
<1> QED BY <1>1, <1>2, <1>3, <1>4, <1>5 DEF Planned

LEMMA TwoCallsPlanned ==
  ASSUME NEW k \in Ledger, NEW l \in Ledger, k # l, NEW c \in Adds(l),
         calls' \in EitherWay(Writes(k), c)
  PROVE  /\ Planned
         /\ \A m \in Ledger \ {k, l} : Settled(m)'
         /\ \A m \in Ledger \ {l} : ~Due("append", m)'
         /\ Due("append", l)' => c = Appends(l)
<1>1. /\ c \in LedgerCall /\ c.ledger = l /\ c.op # "fill"
      /\ Writes(k) \in LedgerCall /\ Writes(k).ledger = k /\ Writes(k).op = "write"
  BY DEF Adds, Appends, Writes, LedgerCall
<1>2. PICK a \in LedgerCall, b \in LedgerCall :
        /\ calls' = <<a, b>>
        /\ (a = Writes(k) /\ b = c) \/ (a = c /\ b = Writes(k))
  BY <1>1 DEF EitherWay
<1>3. calls' \in Seq(LedgerCall) /\ Len(calls') = 2 /\ calls'[1] = a /\ calls'[2] = b
  BY <1>2
<1>4. \A i \in 1..Len(calls') : i = 1 \/ i = 2
  BY <1>3
<1>5. \A i \in 1..Len(calls') : calls'[i] = c \/ calls'[i] = Writes(k)
  BY <1>2, <1>3, <1>4
<1>6. Planned
  <2>1. a.ledger # b.ledger
    BY <1>1, <1>2
  <2> QED BY <1>1, <1>3, <1>4, <1>5, <2>1 DEF Planned
<1>7. \A m \in Ledger \ {k, l} : Settled(m)'
  BY <1>1, <1>5 DEF Settled
<1>8. \A m \in Ledger : Due("append", m)' => c = Appends(m)
  <2> SUFFICES ASSUME NEW m \in Ledger, NEW i \in 1..Len(calls'),
                      calls'[i] = [op |-> "append", ledger |-> m]
               PROVE  c = Appends(m)
    BY DEF Due
  <2>1. calls'[i].op = "append"
    OBVIOUS
  <2> QED BY <1>1, <1>5, <2>1 DEF Appends
<1>9. \A m \in Ledger : c = Appends(m) => m = l
  BY <1>1 DEF Appends
<1> QED BY <1>6, <1>7, <1>8, <1>9

LEMMA CallsPlannedFor ==
  ASSUME NEW k \in Ledger, NEW l \in Ledger, NEW c \in Adds(l),
         calls' \in EitherWay(Writes(k), c)
  PROVE  ~Settled(k)' /\ ~Settled(l)'
<1>1. c.ledger = l /\ Writes(k).ledger = k
  BY DEF Adds, Appends, Writes
<1>2. CASE calls' = <<Writes(k), c>>
  <2>1. 1 \in 1..Len(calls') /\ 2 \in 1..Len(calls') /\ calls'[1] = Writes(k) /\ calls'[2] = c
    BY <1>2
  <2> QED BY <1>1, <2>1 DEF Settled
<1>3. CASE calls' = <<c, Writes(k)>>
  <2>1. 1 \in 1..Len(calls') /\ 2 \in 1..Len(calls') /\ calls'[1] = c /\ calls'[2] = Writes(k)
    BY <1>3
  <2> QED BY <1>1, <2>1 DEF Settled
<1> QED BY <1>2, <1>3 DEF EitherWay

LEMMA DiskHoldsStore ==
  ASSUME LedgersInv, up, calls = <<>>
  PROVE  disk = Store /\ torn = {}
<1>1. CallsCatchUp /\ CallsInOrder /\ disk \in Contents
  BY DEF LedgersInv, LedgersTypeOK
<1>2. \A l \in Ledger : Settled(l)
  BY DEF Settled
<1>3. \A l \in Ledger : disk[l] = Store[l]
  BY <1>1, <1>2 DEF CallsCatchUp
<1>4. disk.proposals = proposals /\ disk.snapshots = snapshots /\ disk.rollbacks = rollbacks
  BY <1>3, LedgerNames DEF Store
<1> QED BY <1>1, <1>4 DEF CallsInOrder, Contents, Store

LEMMA OperationKeepsInv ==
  ASSUME LedgersInv, up, calls = <<>>, UNCHANGED <<ledgers, up, reader>>,
         TypeOK', EvidenceByStatus', Planned,
         \A m \in Ledger : Settled(m)' => Store'[m] = Store[m],
         \A m \in Ledger : Due("append", m)' => Appended(m)' = Store'[m],
         Present(proposals) \subseteq Present(proposals'),
         Present(snapshots) \subseteq Present(snapshots'),
         SourcesIn(snapshots', Present(proposals)),
         EndsIn(rollbacks', Present(snapshots)),
         Settled("snapshots")' \/ Routes(snapshots')
  PROVE  LedgersInv'
<1>1. /\ LedgersTypeOK /\ CallsInOrder /\ CallsCatchUp /\ MemoryClosed /\ DiskClosed
      /\ RoutingKept /\ Evident /\ ReaderKnows /\ disk \in Contents
      /\ UNCHANGED <<disk, torn, short, up, reader>>
  BY DEF LedgersInv, LedgersTypeOK, ledgers
<1>2. disk = Store
  BY DiskHoldsStore
<1>3. disk.proposals = proposals /\ disk.snapshots = snapshots /\ disk.rollbacks = rollbacks
  BY <1>2 DEF Store
<1>4. LedgersTypeOK' /\ Evident'
  BY <1>1 DEF LedgersTypeOK, Evident, EvidenceByStatus
<1>5. \A l \in Ledger : ~Due("fill", l)'
  BY DEF Planned, Due
<1>6. CallsInOrder'
  BY <1>1, <1>5 DEF Planned, CallsInOrder
<1>7. CallsCatchUp'
  BY <1>1, <1>2 DEF CallsCatchUp
<1>8. MemoryClosed'
  <2>1. SourcesIn(snapshots', Present(proposals'))
    BY DEF SourcesIn
  <2>2. SourcesIn(snapshots, Present(proposals'))
    BY <1>1 DEF MemoryClosed, SourcesIn
  <2>3. EndsIn(rollbacks', Present(snapshots')) /\ EndsIn(rollbacks, Present(snapshots'))
    BY <1>1 DEF MemoryClosed, EndsIn
  <2> QED BY <1>1, <1>3, <2>1, <2>2, <2>3 DEF MemoryClosed
<1>9. DiskClosed' /\ RoutingKept' /\ ReaderKnows'
  BY <1>1 DEF DiskClosed, RoutingKept, ReaderKnows
<1> QED BY <1>4, <1>6, <1>7, <1>8, <1>9 DEF LedgersInv

\* One more record: what an append makes of a ledger that holds the store.
LEMMA AppendedIsStore ==
  ASSUME disk = Store, UNCHANGED disk,
         NEW l \in {"proposals", "snapshots"},
         Store'[l] = [k \in DOMAIN Store[l] |-> Store'[l][k]],
         \A k \in Present(Store[l]) : Store'[l][k] = Store[l][k]
  PROVE  Appended(l)' = Store'[l]
BY DEF Appended

LEMMA ProposalOperationKeepsInv ==
  ASSUME LedgersInv, up, calls = <<>>, UNCHANGED <<ledgers, up, reader>>,
         NEW p \in ProposalId, NEW t \in 1..MaxTime, NEW c \in Adds("proposals"), calls' = <<c>>,
         \/ Draft(p, t)
         \/ /\ MarkTested(p, t) \/ MarkShadowed(p, t) \/ MarkApproved(p, t)
            /\ c = Writes("proposals")
  PROVE  LedgersInv'
<1>1. TypeOK /\ EvidenceByStatus /\ MemoryClosed /\ disk = Store /\ UNCHANGED disk
  BY DiskHoldsStore DEF LedgersInv, LedgersTypeOK, Evident, EvidenceByStatus, ledgers
<1>2. TypeOK' /\ EvidenceByStatus' /\ ProposalsStay
  BY <1>1, DraftKeepsTypes, MarkTestedKeepsTypes, MarkShadowedKeepsTypes, MarkApprovedKeepsTypes
<1>3. UNCHANGED <<snapshots, rollbacks>>
  BY DEF Draft, MarkTested, MarkShadowed, MarkApproved
<1>4. /\ Planned
      /\ \A m \in Ledger \ {"proposals"} : Settled(m)' /\ ~Due("append", m)'
      /\ Due("append", "proposals")' => c = Appends("proposals")
  BY OneCallPlanned, LedgerNames
<1>5. \A m \in Ledger : Settled(m)' => Store'[m] = Store[m]
  <2>1. ~Settled("proposals")'
    <3>1. c.ledger = "proposals"
      BY DEF Adds, Appends, Writes
    <3>2. 1 \in 1..Len(calls') /\ calls'[1] = c
      OBVIOUS
    <3> QED BY <3>1, <3>2 DEF Settled
  <2> QED BY <1>3, <2>1, LedgerNames DEF Store
<1>6. \A m \in Ledger : Due("append", m)' => Appended(m)' = Store'[m]
  <2> SUFFICES ASSUME Due("append", "proposals")'
               PROVE  Appended("proposals")' = Store'["proposals"]
    BY <1>4
  <2>1. Draft(p, t)
    BY <1>4 DEF Appends, Writes
  <2>2. \A k \in ProposalId : proposals[k].status # "Absent" => proposals'[k] = proposals[k]
    BY <1>1, <2>1 DEF Draft, TypeOK
  <2>3. /\ Store["proposals"] = proposals /\ Store'["proposals"] = proposals'
        /\ DOMAIN proposals = ProposalId /\ DOMAIN proposals' = ProposalId
    BY <1>1, <1>2 DEF Store, TypeOK
  <2>4. \A k \in Present(proposals) : proposals'[k] = proposals[k]
    BY <2>2, <2>3 DEF Present
  <2>5. proposals' = [k \in ProposalId |-> proposals'[k]]
    BY <1>2 DEF TypeOK
  <2> QED BY <1>1, <2>3, <2>4, <2>5, AppendedIsStore
<1>7. Present(proposals) \subseteq Present(proposals')
  BY <1>1, <1>2 DEF Present, TypeOK, ProposalsStay
<1>8. SourcesIn(snapshots', Present(proposals)) /\ EndsIn(rollbacks', Present(snapshots))
  BY <1>1, <1>3 DEF MemoryClosed
<1>9. Settled("snapshots")' /\ Present(snapshots) \subseteq Present(snapshots')
  BY <1>3, <1>4, LedgerNames
<1> QED BY <1>2, <1>4, <1>5, <1>6, <1>7, <1>8, <1>9, OperationKeepsInv

LEMMA CommitOperationKeepsInv ==
  ASSUME LedgersInv, up, calls = <<>>, UNCHANGED <<ledgers, up, reader>>,
         NEW p \in ProposalId, NEW s \in SnapshotId, NEW t \in 1..MaxTime, Commit(p, s, t),
         NEW c \in Adds("snapshots"), calls' \in EitherWay(Writes("proposals"), c)
  PROVE  LedgersInv'
<1>1. TypeOK /\ EvidenceByStatus /\ MemoryClosed /\ disk = Store /\ UNCHANGED disk
  BY DiskHoldsStore DEF LedgersInv, LedgersTypeOK, Evident, EvidenceByStatus, ledgers
<1>2. /\ TypeOK' /\ EvidenceByStatus' /\ ProposalsStay
      /\ snapshots'[s].status = "Active" /\ snapshots'[s].source = p
      /\ \A o \in SnapshotId : o # s => snapshots'[o] = snapshots[o]
  BY <1>1, CommitKeepsTypes
<1>3. /\ proposals[p].status # "Absent" /\ snapshots[s].status = "Absent"
      /\ UNCHANGED rollbacks
  BY DEF Commit, CommitFrom, Known
<1>4. /\ Planned
      /\ \A m \in Ledger \ {"proposals", "snapshots"} : Settled(m)'
      /\ \A m \in Ledger \ {"snapshots"} : ~Due("append", m)'
  BY TwoCallsPlanned, LedgerNames
<1>5. \A m \in Ledger : Settled(m)' => Store'[m] = Store[m]
  <2>1. ~Settled("proposals")' /\ ~Settled("snapshots")'
    BY CallsPlannedFor, LedgerNames
  <2> QED BY <1>3, <2>1, LedgerNames DEF Store
<1>6. \A m \in Ledger : Due("append", m)' => Appended(m)' = Store'[m]
  <2>1. /\ Store["snapshots"] = snapshots /\ Store'["snapshots"] = snapshots'
        /\ DOMAIN snapshots = SnapshotId
    BY <1>1 DEF Store, TypeOK
  <2>2. \A k \in Present(snapshots) : snapshots'[k] = snapshots[k]
    BY <1>2, <1>3, <2>1 DEF Present
  <2>3. snapshots' = [k \in SnapshotId |-> snapshots'[k]]
    BY <1>2 DEF TypeOK
  <2>4. Appended("snapshots")' = Store'["snapshots"]
    BY <1>1, <2>1, <2>2, <2>3, AppendedIsStore
  <2> QED BY <1>4, <2>4
<1>7. Present(proposals) \subseteq Present(proposals')
  BY <1>1, <1>2 DEF Present, TypeOK, ProposalsStay
<1>8. Present(snapshots) \subseteq Present(snapshots')
  BY <1>1, <1>2, <1>3 DEF Present, TypeOK
<1>9. SourcesIn(snapshots', Present(proposals))
  <2>1. p \in Present(proposals)
    BY <1>1, <1>3 DEF Present, TypeOK
  <2>2. SourcesIn(snapshots, Present(proposals))
    BY <1>1 DEF MemoryClosed
  <2> QED BY <1>2, <2>1, <2>2 DEF SourcesIn
<1>10. EndsIn(rollbacks', Present(snapshots))
  BY <1>1, <1>3 DEF MemoryClosed
<1>11. Routes(snapshots')
  BY <1>2 DEF Routes
<1> QED BY <1>2, <1>4, <1>5, <1>6, <1>7, <1>8, <1>9, <1>10, <1>11, OperationKeepsInv

LEMMA RollbackOperationKeepsInv ==
  ASSUME LedgersInv, up, calls = <<>>, UNCHANGED <<ledgers, up, reader>>,
         NEW r \in RollbackRecord, ApplyRollback(r),
         NEW c \in Adds("rollbacks"), calls' \in EitherWay(Writes("snapshots"), c)
  PROVE  LedgersInv'
<1>1. TypeOK /\ EvidenceByStatus /\ MemoryClosed /\ disk = Store /\ UNCHANGED disk
  BY DiskHoldsStore DEF LedgersInv, LedgersTypeOK, Evident, EvidenceByStatus, ledgers
<1>2. TypeOK' /\ EvidenceByStatus'
  BY <1>1, ApplyRollbackKeepsTypes
<1>3. /\ UNCHANGED proposals /\ rollbacks' = Append(rollbacks, r)
      /\ Known(r.from) /\ Known(r.to) /\ r.from \in SnapshotId /\ r.to \in SnapshotId
  BY DEF ApplyRollback, ValidRollback, RollbackRecord
<1>4. \A s \in SnapshotId :
        /\ snapshots'[s].source = snapshots[s].source
        /\ snapshots'[s].status = "Active" <=> s = r.to
        /\ snapshots[s].status # "Absent" <=> snapshots'[s].status # "Absent"
  BY <1>1, RollbackStatuses DEF Known
<1>5. /\ Planned
      /\ \A m \in Ledger \ {"snapshots", "rollbacks"} : Settled(m)'
      /\ \A m \in Ledger \ {"rollbacks"} : ~Due("append", m)'
  BY TwoCallsPlanned, LedgerNames
<1>6. \A m \in Ledger : Settled(m)' => Store'[m] = Store[m]
  <2>1. ~Settled("snapshots")' /\ ~Settled("rollbacks")'
    BY CallsPlannedFor, LedgerNames
  <2> QED BY <1>3, <2>1, LedgerNames DEF Store
<1>7. /\ Len(rollbacks') = Len(rollbacks) + 1 /\ Len(rollbacks) \in Nat
      /\ rollbacks'[Len(rollbacks')] = r
      /\ \A i \in 1..Len(rollbacks) : rollbacks'[i] = rollbacks[i]
  BY <1>1, <1>3 DEF TypeOK
<1>8. \A m \in Ledger : Due("append", m)' => Appended(m)' = Store'[m]
  <2>1. disk.rollbacks = rollbacks
    BY <1>1 DEF Store
  <2>2. Appended("rollbacks")' = Append(disk'.rollbacks, rollbacks'[Len(rollbacks')])
    BY DEF Appended
  <2>3. Appended("rollbacks")' = rollbacks'
    BY <1>1, <1>3, <1>7, <2>1, <2>2
  <2> QED BY <1>5, <2>3 DEF Store
<1>9. Present(proposals) \subseteq Present(proposals')
  BY <1>3
<1>10. DOMAIN snapshots = SnapshotId /\ DOMAIN snapshots' = SnapshotId
  BY <1>1, <1>2 DEF TypeOK
<1>11. Present(snapshots) \subseteq Present(snapshots')
  BY <1>4, <1>10 DEF Present
<1>12. SourcesIn(snapshots', Present(proposals))
  BY <1>1, <1>4 DEF MemoryClosed, SourcesIn
<1>13. EndsIn(rollbacks', Present(snapshots))
  <2>1. r.from \in Present(snapshots) /\ r.to \in Present(snapshots)
    BY <1>3, <1>10 DEF Present, Known
  <2>2. EndsIn(rollbacks, Present(snapshots))
    BY <1>1 DEF MemoryClosed
  <2> QED BY <1>7, <2>1, <2>2 DEF EndsIn
<1>14. Routes(snapshots')
  BY <1>3, <1>4 DEF Routes
<1> QED BY <1>2, <1>5, <1>6, <1>8, <1>9, <1>11, <1>12, <1>13, <1>14, OperationKeepsInv

\* A ledger written again as it is: the store does not change.
LEMMA RewriteKeepsInv ==
  ASSUME LedgersInv, up, calls = <<>>, UNCHANGED <<ledgers, up, reader>>, UNCHANGED memory,
         NEW l \in Ledger \ short, calls' = <<Writes(l)>>
  PROVE  LedgersInv'
<1>1. /\ TypeOK /\ EvidenceByStatus /\ MemoryClosed /\ RoutingKept
      /\ disk = Store /\ UNCHANGED <<proposals, snapshots, rollbacks>>
  BY DiskHoldsStore DEF LedgersInv, LedgersTypeOK, Evident, EvidenceByStatus, memory
<1>2. TypeOK' /\ EvidenceByStatus' /\ Store' = Store
  BY <1>1 DEF TypeOK, EvidenceByStatus, Store
<1>3. Writes(l) \in Adds(l) /\ Writes(l) # Appends(l)
  BY DEF Adds, Appends, Writes
<1>4. /\ Planned
      /\ \A m \in Ledger \ {l} : Settled(m)' /\ ~Due("append", m)'
      /\ ~Due("append", l)'
  BY <1>3, OneCallPlanned
<1>5. \A m \in Ledger : ~Due("append", m)'
  BY <1>4
<1>6. Settled("snapshots")' \/ Routes(snapshots')
  <2>1. CASE l = "snapshots"
    <3>1. Routes(disk.snapshots)
      BY <1>1, <2>1 DEF RoutingKept
    <3> QED BY <1>1, <3>1 DEF Store
  <2>2. CASE l # "snapshots"
    BY <1>4, <2>2, LedgerNames
  <2> QED BY <2>1, <2>2
<1>7. Present(proposals) \subseteq Present(proposals') /\ Present(snapshots) \subseteq Present(snapshots')
  BY <1>1
<1>8. SourcesIn(snapshots', Present(proposals)) /\ EndsIn(rollbacks', Present(snapshots))
  BY <1>1 DEF MemoryClosed
<1>9. \A m \in Ledger : Settled(m)' => Store'[m] = Store[m]
  BY <1>2
<1> QED BY <1>2, <1>4, <1>5, <1>6, <1>7, <1>8, <1>9, OperationKeepsInv

LEMMA GovernKeepsInv ==
  ASSUME LedgersInv, Govern
  PROVE  LedgersInv'
<1>1. up /\ calls = <<>> /\ UNCHANGED <<ledgers, up, reader>>
  BY DEF Govern
<1>2. Writes("proposals") \in Adds("proposals")
  BY DEF Adds
<1>3. ASSUME NEW p \in ProposalId, NEW t \in 1..MaxTime,
             Draft(p, t), calls' \in {<<c>> : c \in Adds("proposals")}
      PROVE  LedgersInv'
  BY <1>1, <1>3, ProposalOperationKeepsInv
<1>4. ASSUME NEW p \in ProposalId, NEW t \in 1..MaxTime,
             MarkTested(p, t) \/ MarkShadowed(p, t) \/ MarkApproved(p, t),
             calls' = <<Writes("proposals")>>
      PROVE  LedgersInv'
  BY <1>1, <1>2, <1>4, ProposalOperationKeepsInv
<1>5. ASSUME NEW p \in ProposalId, NEW t \in 1..MaxTime, NEW s \in SnapshotId, Commit(p, s, t),
             NEW add \in Adds("snapshots"), calls' \in EitherWay(Writes("proposals"), add)
      PROVE  LedgersInv'
  BY <1>1, <1>5, CommitOperationKeepsInv
<1>6. ASSUME NEW r \in RollbackRecord, ApplyRollback(r),
             NEW add \in Adds("rollbacks"), calls' \in EitherWay(Writes("snapshots"), add)
      PROVE  LedgersInv'
  BY <1>1, <1>6, RollbackOperationKeepsInv
<1>7. ASSUME UNCHANGED memory, NEW l \in Ledger \ short, calls' = <<Writes(l)>>
      PROVE  LedgersInv'
  BY <1>1, <1>7, RewriteKeepsInv
<1> QED BY <1>3, <1>4, <1>5, <1>6, <1>7 DEF Govern

-----------------------------------------------------------------------------
\* Store, ledgers, calls and reader satisfy the invariant wherever the process dies
\* and whatever a restart loads.
THEOREM LedgersInvariant == LedgersSpec => []LedgersInv
<1>1. LedgersInit => LedgersInv
  <2> SUFFICES ASSUME LedgersInit PROVE LedgersInv
    OBVIOUS
  <2>1. /\ proposals = Empty.proposals /\ snapshots = Empty.snapshots /\ rollbacks = Empty.rollbacks
        /\ disk = Empty /\ torn = {} /\ short = {} /\ up = TRUE /\ calls = <<>>
        /\ reader = NotReading
    BY DEF LedgersInit, Init, Empty
  <2>2. disk = Store
    BY <2>1 DEF Store, Empty
  <2>3. LedgersTypeOK
    <3>1. TypeOK /\ disk \in Contents
      BY <2>1, EmptyIsEmpty DEF TypeOK, Contents
    <3>2. reader \in Reader
      BY <2>1 DEF NotReading, Reader
    <3> QED BY <2>1, <3>1, <3>2 DEF LedgersTypeOK
  <2>4. Len(calls) = 0 /\ calls \in Seq(LedgerCall)
    BY <2>1
  <2>5. \A l : Settled(l) /\ \A o : ~Due(o, l)
    BY <2>4 DEF Settled, Due
  <2>6. CallsInOrder
    BY <2>1, <2>4, <2>5 DEF CallsInOrder
  <2>7. CallsCatchUp
    BY <2>2, <2>5 DEF CallsCatchUp
  <2>8. MemoryClosed /\ DiskClosed /\ RoutingKept /\ Evident
    BY <2>1, <2>5, EmptyIsEmpty DEF MemoryClosed, DiskClosed, RoutingKept, Evident
  <2>9. ReaderKnows
    BY <2>1 DEF ReaderKnows, NotReading
  <2> QED BY <2>3, <2>6, <2>7, <2>8, <2>9 DEF LedgersInv
<1>2. LedgersInv /\ [LedgersNext]_ledgersVars => LedgersInv'
  <2> SUFFICES ASSUME LedgersInv, [LedgersNext]_ledgersVars PROVE LedgersInv'
    OBVIOUS
  <2>1. CASE Govern
    BY <2>1, GovernKeepsInv
  <2>2. ASSUME NEW l \in Ledger, AppendRecord(l) PROVE LedgersInv'
    BY <2>2, AppendRecordKeepsInv
  <2>3. ASSUME NEW l \in Ledger, Truncate(l) PROVE LedgersInv'
    BY <2>3, TruncateKeepsInv
  <2>4. ASSUME NEW l \in Ledger, Fill(l) PROVE LedgersInv'
    BY <2>4, FillKeepsInv
  <2>5. ASSUME NEW l \in Ledger, AppendStops(l) \/ FillStops(l) \/ Die PROVE LedgersInv'
    BY <2>5, StopsKeepInv
  <2>6. CASE Restart
    BY <2>6, RestartKeepsInv
  <2>7. CASE ReadProposals \/ ReadSnapshots \/ ReadRollbacks \/ ReadFails
    BY <2>7, ReadKeepsInv
  <2>8. CASE UNCHANGED ledgersVars
    <3>1. UNCHANGED <<proposals, snapshots, rollbacks, disk, torn, short, up, calls, reader>>
      BY <2>8 DEF ledgersVars, memory, ledgers
    <3>2. LedgersTypeOK' /\ Evident'
      BY <3>1 DEF LedgersInv, LedgersTypeOK, TypeOK, Evident
    <3>3. CallsInOrder' /\ CallsCatchUp' /\ MemoryClosed' /\ DiskClosed' /\ RoutingKept'
      BY <3>1 DEF LedgersInv, CallsInOrder, CallsCatchUp, MemoryClosed, DiskClosed,
                  RoutingKept, Due, Settled, Store, Appended, Empty
    <3>4. ReaderKnows'
      BY <3>1 DEF LedgersInv, ReaderKnows
    <3> QED BY <3>2, <3>3, <3>4 DEF LedgersInv
  <2>9. CASE Die
    BY <2>5, <2>9, LedgerNames
  <2> QED BY <2>1, <2>2, <2>3, <2>4, <2>5, <2>6, <2>7, <2>8, <2>9 DEF LedgersNext
<1> QED BY <1>1, <1>2, PTL DEF LedgersSpec

\* Once an operation's calls have returned, the ledgers hold the whole store.
THEOREM ReturnedCallsAreOnDisk == LedgersSpec => []DoneIsOnDisk
<1>1. LedgersInv => DoneIsOnDisk
  BY DiskHoldsStore DEF DoneIsOnDisk
<1> QED BY <1>1, LedgersInvariant, PTL

\* However the process dies between calls, the ledgers load again into a store with
\* closed references, evidence in order and a snapshot to route by.
THEOREM LedgersLoadAgain == LedgersSpec => []LedgersLoad
<1>1. LedgersInv => LedgersLoad
  <2> SUFFICES ASSUME LedgersInv, short = {}
               PROVE  ValidLedgers /\ OnDisk!EvidenceInOrder /\ OnDisk!RoutingTruthExists
    BY DEF LedgersLoad
  <2>1. /\ disk \in Contents /\ Routes(disk.snapshots) /\ EvidenceOf(disk.proposals)
        /\ SourcesIn(disk.snapshots, Present(disk.proposals))
        /\ EndsIn(disk.rollbacks, Present(disk.snapshots))
    BY DEF LedgersInv, LedgersTypeOK, DiskClosed, RoutingKept, Evident
  <2>2. ValidLedgers
    <3>1. \A s \in WithSource(disk.snapshots) : s[2] \in Present(disk.proposals)
      BY <2>1 DEF WithSource, Present, SourcesIn, Contents
    <3> QED BY <2>1, <3>1, IdsWithSource DEF ValidLedgers, ValidRecords, EndsIn
  <2>3. OnDisk!EvidenceInOrder
    BY <2>1 DEF OnDisk!EvidenceInOrder, EvidenceOf
  <2>4. OnDisk!RoutingTruthExists
    BY <2>1 DEF OnDisk!RoutingTruthExists, OnDisk!Known, Routes
  <2> QED BY <2>2, <2>3, <2>4
<1> QED BY <1>1, LedgersInvariant, PTL

\* A load beside the governing process is refused for an open reference only if a
\* living writer overtook it, or if it read a ledger that a dead one left cut short.
THEOREM RefusalsHaveReasons == LedgersSpec => RefusalsAreExplained
<1> DEFINE Refusal == reader.at = "snapshots" /\ reader'.at = "refused" =>
                        reader.behind = Overtaken \/ reader.lost
<1>1. LedgersInv /\ [LedgersNext]_ledgersVars => [Refusal]_ledgersVars
  <2> SUFFICES ASSUME LedgersInv, LedgersNext,
                      reader.at = "snapshots", reader'.at = "refused",
                      reader.behind # Ledger, ~reader.lost
               PROVE  FALSE
    BY DEF Overtaken
  <2>1. LedgersTypeOK /\ ReaderKnows /\ DiskClosed /\ disk \in Contents /\ reader \in Reader
    BY DEF LedgersInv, LedgersTypeOK
  <2>2. ReadRollbacks
    <3>1. ASSUME NEW l, Overtake(l) PROVE FALSE
      <4>1. reader'.at = reader.at
        BY <2>1, <3>1 DEF Overtake, Reader
      <4> QED BY <4>1
    <3>2. reader' # reader /\ reader' # NotReading /\ reader.at # "proposals"
      BY DEF NotReading
    <3>3. ~ReadProposals /\ ~ReadSnapshots /\ ~ReadFails
      BY <3>2 DEF ReadProposals, ReadSnapshots, ReadFails
    <3> QED BY <3>1, <3>2, <3>3
            DEF LedgersNext, Govern, AppendRecord, Truncate, Fill, AppendStops, FillStops, Die, Restart
  <2>3. ~ValidRecords(reader.proposals, reader.snapshots, disk.rollbacks)
    BY <2>2 DEF ReadRollbacks, NotReading
  <2>4. /\ \A s \in reader.snapshots : s[2] \in reader.proposals
        /\ "rollbacks" \notin reader.behind =>
             EndsIn(disk.rollbacks, {s[1] : s \in reader.snapshots})
        /\ "snapshots" \notin reader.behind =>
             reader.snapshots = WithSource(disk.snapshots) /\ "snapshots" \notin short
    BY <2>1 DEF ReaderKnows
  <2>5. EndsIn(disk.rollbacks, {s[1] : s \in reader.snapshots})
    <3>1. CASE "rollbacks" \notin reader.behind
      BY <2>4, <3>1
    <3>2. CASE "rollbacks" \in reader.behind
      <4>1. "snapshots" \notin reader.behind
        BY <2>1, <3>2, LedgerNames DEF Reader
      <4> QED BY <2>1, <2>4, <4>1, IdsWithSource DEF DiskClosed
    <3> QED BY <3>1, <3>2
  <2> QED BY <2>3, <2>4, <2>5 DEF ValidRecords, EndsIn
<1> QED BY <1>1, LedgersInvariant, PTL DEF LedgersSpec, RefusalsAreExplained
===============================================================================
