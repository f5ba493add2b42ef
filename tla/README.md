# q-tom in TLA+

q-tom routes tasks to agents (CPU and CUDA backends), records what an "Agent Task Loom" does in an event log, and governs
changes to the routing topology. This directory holds TLA+ models of it, the TLC runs that check them on small instances and
the proofs that hold for every instance. Paths below are relative to the repository's root.

## 1. The system

| Component | State | Operations | Talks to |
|---|---|---|---|
| Event vocabulary and log, `qtom-core/src/loom.rs` | a vector of events and the set of their ids | `append`, `replay`, `from_events` | everything that produces events |
| Replay validation, `loom.rs` `validate_events` | a replay log and four maps, for one call | one pass, then four final checks | log, projections, JSONL reader |
| JSONL event log, `loom.rs` | a file | `read_`, `append_`, `write_event_log_jsonl` | the in-memory log, which checks each event |
| Projections, `loom_projection.rs` | none | `loom_replay_report`: six diagrams of a log that validates | replay validation |
| Topology governance, `loom_model.rs` | proposals, snapshots, rollback records | `draft` … `commit`, `apply_rollback`, `active_topology_snapshot` | its ledgers; routing reads the active snapshot |
| Ledgers, `loom_model.rs` | one JSONL file per record type: packets, evaluations, proposals, snapshots, rollbacks | `read_`, `write_`, `append_*_jsonl`, `read_topology_governance_store_jsonl` | the store |
| CPU router, `cpu_router.rs` | none between calls; accumulators during one | `route_one`, `route_batch_with_workers` | scoped threads, `score.rs`, `route_table.rs` |
| CUDA router, `qtom-cuda` | driver library, context, module, stream, events, device buffers; a workspace kept between batches | `route_batch`, `CudaRouteK1Executor::route_batch_with_timing` | the CUDA driver (external), the kernel |
| Mock loom, `loom_mock.rs`, `loom_runtime.rs`, `loom_route.rs` | one run's log | `run_prompt`: director, router, constructors, integration, curator | the event log, the CPU router |
| Backend parity, `backend.rs` | none | `assert_backend_parity`, the same with tolerance | both routers |
| Golden fixtures; metrics; configuration; benchmarks | none | pure functions | – |

What is hard: several events' order (ids are chosen by producers, arrival is another order); two copies of one fact (id set and
vector); maps that forget; files that several processes append to without a lock and that a crash cuts short; several active
snapshots at once with timestamps nobody relates; worker threads that finish in any order; an accumulator that replaces its
worst element and has to know the next worst; NaNs, ties, k = 0; driver calls that may each fail.
`PROJECT.json` lists these hazards line by line with the properties that cover them.

What makes each component correct:

- *Log*: ids unique in both copies; an effect after a lawful cause; the log can be rebuilt from its events.
- *Cursor*: what is missed, and only then.
- *Validation*: a valid slice keeps the rules, an error names one that is broken, for each event and for the slice as a whole.
- *Projections*: what a valid log says of a task is drawn, in the log's order.
- *File*: what is readable is a log, or a ledger without duplicates; acknowledged records are there or reading fails.
- *Governance*: approval and commit on evidence gathered in order; routing always has a snapshot; a rollback takes effect at once
  and holds until a rollback back; references resolve.
- *Ledgers*: they load, and load as a sound store, after a death between any two calls; what has returned survives; a refused load
  is either to be repeated or tells of lost records.
- *Router*: the answer of a full sort, for every k, debug setting and order of arrival; a batch answers in order, and does answer.
- *CUDA*: every driver object released on every path and none used after; the context given back after all that
  was made in it, the library closed last; buffers of the batch's shape, indexes that stay inside; an answer made of its own batch's
  data; the CPU's answers.
- *Parity*: backends that answer differently do not pass, and those that answer alike do.
- *Mock loom*: no append refused; the run's log validates, and its diagrams show the run.

## 2. Modules

| Module | Models | State and actions |
|---|---|---|
| `LoomEvents` | `LoomEvent`, `validate`, `required_cause`, `validate_causation` | operators only: `Validates`, `RequiredCause`, `AgreesWithCause`, `Accepts` |
| `EventLog` | `InMemoryEventLog` | `events`, `event_ids`; `AppendEvent` |
| `LogConsumer` | `replay` and `ReplayCursor` with a polling consumer | + `cursor`, `seen`; `Poll` |
| `ReplayValidation` | `validate_events` | + the four maps and `verdict`; `Admit`, `Reject`, `Finish` |
| `LoomProjections` | the six diagrams of `loom_projection.rs` | operators from a log to sequences of nodes and edges: `RouteTrace`, `ArtifactProvenance`, `MemoryLineage`, `TaskDependencyTexts`, `IntegrationGroup`, `TopologyGovernance` |
| `LoomReplay` | `loom_replay_report` | extends `ReplayValidation` and `LoomProjections`: `Reports` |
| `JsonlFile` | a JSONL file, event log or ledger, with several writers | `rules` (what the file admits), `file` (lines), what its creation has left to write, each writer's checked record; `CreateLine`, `CreateStops`, `Prepare` (read and check), `Write`, `WriteStops`, `GiveUp` |
| `RecordLedger` | what a ledger promises: the abstract specification | `records`; `Add` |
| `TopologyGovernance` | proposals, snapshots, rollbacks | one action per method: `Draft`, `MarkTested`, `MarkShadowed`, `MarkApproved`, `Commit`, `ApplyRollback` |
| `TopologyLedgers` | the three ledgers of the store, `read_`, `write_`, `append_*_jsonl`, `read_topology_governance_store_jsonl` | extends `TopologyGovernance`, the memory of the process that governs: what each ledger holds (`disk`, `torn`, `short`), the `calls` still to make, a concurrent `reader`; `Govern`, `AppendRecord`, `Truncate`, `Fill`, the same cut short, `Die`, `Restart`, `Read…` |
| `TopK` | `BestCandidate`, `BoundedTopK`, `compare_candidate` | operators on an accumulator |
| `RouteSelection` | one request: scan and result | `scanned`, the two accumulators, `result`; `Scan`, `Finish` |
| `RouterBackend` | the `RouterBackend` trait: the abstract specification of a batch | `status`, `answer`; `Answer`, `Refuse` |
| `RouteBatch` | `route_batch_with_workers` | the caller's phase, each thread's partial results; `Spawn`, `RouteChunk(w)`, `Join`, `Collect`, … |
| `CudaSelection` | the scan of `qtom_route_agents_k1` and `decode_k_one_results` | extends `RouteSelection`; `KernelTurn`, `Kernel`, `Decode` |
| `BackendParity` | `assert_backend_parity`, `assert_backend_parity_with_tolerance` | operators on the results of two backends: `ResultMatches`, `FirstMismatch`, `Parity` |
| `CudaBuffers` | `CudaBufferPlan`, `RouteAgentsKernelArgs`, the launch configuration, the kernel's indexes | operators on a batch's shape, with the widths of `usize` and `u32`: `Planned`, `Launchable`, `Grid`, `Offset`, `Touched` |
| `CudaMemory` | both together | extends `CudaExecution` and `CudaBuffers`: what a kernel touches when it is launched |
| `CudaExecution` | `CudaRouter::route_batch`, `CudaRouteK1Executor`, the wrappers of the CUDA driver and their `Drop` | `caller` (router or executor), the call's `pc`, the handles `owned` by wrappers and those `alive` in the driver, `refs` to the primary context, buffers' `content`, the `kernel` that runs; one action per driver call, `CallFails`, `DropObject`, `DropContext`, `DropLibrary`, and the driver's `KernelEnds`, `KernelFaults` |
| `TaskLoom` | `MockTaskLoom::run_prompt` and the caller's `validate_replay` | extends `EventLog` and `LoomProjections`, instantiates `LoomReplay`: `config`, `pc`, the log; `Begin`, `Record` (the next event of `Planned`), `Panic`, `Return`, `ValidateReplay` |
| `*Proofs` | theorems about the module they extend | |
| `MC*`, `*.cfg` | instances for TLC | |

`LogConsumer` and `ReplayValidation` extend `EventLog`; `JsonlFile` uses the same vocabulary and is shown to implement `EventLog`
(`Log == INSTANCE EventLog WITH …`: the whole lines that can be read are the vector, their ids the set) or, as a ledger,
`RecordLedger`. `RouteBatch` is shown to implement `RouterBackend`. `TaskLoom` puts the log's rules together: the log it appends to
is the `EventLog`, and the log it returns is what `LoomReplay` goes over and draws. `CudaSelection` hands the results of both
routers to `BackendParity`.

Abstractions, module by module:

- *LoomEvents*: ids, roots, correlations and payload refs are members of small sets, the refs split by the one prefix the code looks
  at; of `agent_id` and `topology_snapshot_id` only the presence matters; prompt, role and time are never looked at. A blank string
  and an absent option are both `None`. The code compares absent task ids of an assignment as 0; ids are present by then.
- *ReplayValidation*: the slice is chosen event by event as the pass gets to it, so every slice over the offered events occurs.
  Counters of the report and the ids inside errors are left out.
- *LoomProjections*: a line of a diagram is a node or an edge between two; labels are left out, and of the agent all but that it is
  the agent of an event. Payload refs are told apart by what the code looks for in them and by what comes after the last slash.
  The task diagram writes its integrations in the order of a `HashSet`, so it is a set of texts.
- *JsonlFile*: a file is created with the records of a log, as every caller does; `write_event_log_jsonl` itself checks nothing.
  A line is a whole record, a whole record without newline, other text without newline, or other text with one; blank
  lines are left out. The event log and the five ledgers have the same code but for the check of a record, which is `rules`; of a
  ledger's record nothing but its id is looked at, so events stand for all of them. A write that stops leaves nothing (`GiveUp`), a
  torn line, or all but the newline. The last needs the writer to be cut off between the bytes of one buffer, which a full disk or a
  kill can do; a file finished by hand is another source.
- *TopologyGovernance*: evidence is the time it was attached; names, version strings, reasons and the unchecked parent id are left
  out, and affected route decision refs are taken to carry their prefix. Refused calls change nothing and are not steps.
- *TopologyLedgers*: one process writes; that several may get in each other's way is `JsonlFile`'s subject, and the code the same.
  Nothing in the repository says in which order an operation's two ledgers are written, so both orders are taken, and whether a
  record is added by `append_` or by writing the whole ledger is left open too. Uniqueness checks
  and read errors of the single writer cannot fail and are left out; a call that returns an error makes it start over, as if it had
  died. Any ledger may also be written again as it is, but for one that was cut short: its losses, once loaded, cannot be told from
  the store, and writing it again only hides them. All ledgers exist from the start: reading a missing one is an error, so a store needs all three written once.
- *RouteSelection*: distances are integers in the order of `total_cmp`, with NaNs below and above the numbers; their computation is
  not modelled. The radius is a number. `Infinity` is the fallback's distance and an unavailable agent's effective
  one. The production path (large tables, no debug information) uses the accumulators of a request without
  debug information in another loop order, and each accumulator sees the agents in table order in both.
- *RouteBatch*: a request is its index, its result the same index. Validation is one bit: it either fails for the whole batch or
  routing cannot fail afterwards. `RouterBackend` answers an empty batch over any table, as the CPU does; `CudaRouter`, which is not
  refined to it, looks at the table first. A panicking worker is left out: no code after validation panics.
- *CudaSelection*: agents and distances as in `RouteSelection`. Of the f32 arithmetic on the device only that each finite distance
  may be off by the tolerance, up or down, is modelled: `Rounding` says by how much an agent's two distances may be off together (the
  theorem takes any such set, the run the two in which they part). Agent id 0, the kernel's sentinel, and NaNs are in the tables; the property says which
  tables the two sides must agree on.
- *BackendParity*: penalties, which only travel along, the checksum and the task ids, which both sides copy, are left out.
- *CudaBuffers*: usize and u32 have the widths of two constants. A plan in `CudaExecution` stands for any shape: two plans are two
  shapes, and whether a call fails is left open there.
- *CudaExecution*: the driver is external and modelled by what the code relies on. The library is opened, its symbols are
  looked up and the driver initialised in two steps; `CallFails` covers each of them. A kernel runs until it ends or faults; a fault
  makes every later call of the process fail, also in a context retained anew, since what a fault does to the driver ends with the
  process only; copies and event synchronisation wait for the kernel (legacy default stream). Any call may fail, and
  nothing of a failing call is kept, save releases: a refused release leaves the object there or gone. Freeing a buffer is not made to
  wait for a kernel. A refusal is remembered as long as its object is there or owned. A handle is its kind and the batch that made it,
  since no batch makes two of a kind. Parameters that are only passed on, timing, status types and the PTX text are left out, and so are
  `detect_cuda_runtime`, which opens and closes a library of its own, and a driver that reports success with a null context. The
  order of drops is Rust's; among the buffers of a workspace it is left open.
- *TaskLoom*: the events are planned in the order `run_prompt` appends them. Each part's own log gets the part's few events, which
  nothing but what is checked again in the run's log could refuse. Plans, artifacts' content and the agents routing chooses do not
  change what is appended beyond being there; the run has both artifacts when integration looks for them, so its
  `MissingTaskArtifact` cannot occur here. Ids at the end of `u64`, where numbering on overflows, are left out.

## 3. Runs

| Run | Instance | Shows |
|---|---|---|
| `LogConsumer` | 3 ids; all causes, all effects naming any cause, effects that stray in one field, invalid events | Ids are unique in both copies, every log replays, every rollback traces to a proposal; a consumer misses only events that came after a greater id |
| `ReplayValidation` | up to 4 ids, two tasks, two roots, two correlations; each id can be taken by several types | A valid slice has its completions decommissioned and its children integrated, each error tells of a rule that is broken and of those before it that are not; an event is refused only if it breaks the rule its error names; memory rests on a decommission, an assignment on route telemetry; the diagrams of a valid log lead from each of these back to its task, and forward in time |
| `CompletionsHavePackets` | the same | *violated*: finding below |
| `SameProjectionsAgain` | the same | *violated*: finding below |
| `JsonlFile` | 3 writers, 4 writes, both faults; files missing at first or created with up to two records, both rules | The readable part is always an event log, or a ledger without duplicates that only grows (refinement); acknowledged records are never lost silently; an append that was still fresh sticks |
| `TopologyGovernance` | 3 proposals, 3 snapshots, 3 rollbacks, times to 7 | routing truth, evidence, references, effect of rollbacks |
| `TopologyLedgers` | a proposal committed up to twice, 2 snapshots, a rollback id, times to 9 | between two calls the ledgers always load and hold a sound store; finished operations survive; another reader is refused only when a living writer overtook it or a dead one left a ledger cut short |
| `RouteSelection` | tables of up to 4 agents out of 9, k to 3 | every accumulator combination answers as a full sort; the parity check passes CPU and CUDA on every table whose distances compare alike, exact or rounded either way, and does not where agent 0 or a NaN is the answer |
| `RouteBatch` | up to 7 requests, up to 5 workers, blocks of 2 | the batch implements `RouterBackend`, liveness included |
| `CudaExecution` | 3 batches of 2 shapes, 2 inputs, 2 outputs, another holder of the context; router and executor | whatever call fails: nothing leaks, no handle outlives its object, the context goes after its objects and the library last, workspaces fit, answers are of their batch; the launched kernel stays inside its buffers and serves each request by one thread, for shapes around a block of 2, with a `usize` of 60 and indexes modulo 8 |
| `OthersKeepContext` | the same | *violated*: finding below |
| `TaskLoom` | 3 roots, 4 by 4 configured event ids, 2 by 2 correlations, blank summary or not | `run_prompt`, although it returns a `Result`, panics exactly when a configured id meets an id of the run; the log validates exactly under one correlation, and the report then shows the whole run |

Why the bounds are enough. Log rules look at an event, its cause and the cause's cause: three ids make the longest chain
(proposal, commit, rollback) and every collision. The file needs two writers to race and a third to append after the damage; four
writes let two of them stop and two be acknowledged, before and after; creation adds up to two lines more. Governance
needs a rollback, one crossing it and one more; three snapshots give a target, a source and a bystander that is active. The accumulator goes wrong when two replacements follow each other, which k = 2 and four agents
reach; k = 3 adds a full accumulator that is never replaced. Seven requests and five workers give remainders, fewer chunks than
workers and blocks that do not divide a chunk. Three batches let a workspace be kept, be replaced by another shape (or fail to be),
and be used again; two buffers of each sort let a copy or an allocation fail half-way.
With ledgers, records refer to records of another ledger only: one proposal that a reader has met or not, and two snapshots of
which one may be missing, make every open reference (`mark_tested` lets a committed proposal be tested and committed anew, which
gives it the second snapshot). A rollback id whose record was not reached is free again, so one id makes a rollback and one back.
A run of the mock loom is one sequence; its configurations hold the defaults, an id that meets a fixed one, two that meet each
other (the curator's second and the integration's), and a root called like either child.
A `usize` of 60 and indexes modulo 8 let products overflow in either width, in the plan, in a buffer's bytes and in the kernel, with
tables of at most 8 agents. Bounds are constants (`MaxWrites`, `MaxTime`, `MaxStep`, `MaxAgents`, `MaxK`, `MaxRequests`, `MaxWorkers`, `MaxBatches`).

Deadlock is not checked: every model stops where the code's call has returned or a bound is used up.

Fairness. Only `RouteBatch` assumes any: weak fairness of the caller and of each thread, because the operating system runs every
runnable thread and nothing in a step waits but `join`. The other models state safety; nothing in that code waits
for another step of it (the CUDA calls wait for the driver, which promises nothing about time).

### Findings

1. `CudaContext::retain` (`lib.rs:2113`) gives the primary context back twice when it cannot be made current: once by hand, once in the
   `Drop` of the `CudaContext` it had already built. The comment at `lib.rs:2135` says "This releases the primary context retained by
   `CudaContext::retain`.", `docs/cuda-safety.md:21` that "double-free is structurally hard". Another runtime of the process loses its
   reference.
2. `validate_events` compares the last completion and the last decommission of a task (`loom.rs:374`), so a completion that another
   one replaces in the map passes without a packet of its own run; `docs/mvp-roadmap.md:206` says "Validate every completion has a
   decommission packet." What its verdict does tell of all events of a slice is `VerdictFollowsRules`.
3. The task diagram writes its integrations in the order of a `HashSet` (`loom_projection.rs:142`): with two parents integrated, one
   log has two texts; `docs/mvp-roadmap.md:212` says "Replaying the same log produces the same projections."

Five more disagreements with the documents can be read off an action of a model. No run is spent on them: the properties named say
what holds in spite of them.

- *Approval.* `mark_tested` takes approved and committed proposals back to Tested (`loom_model.rs:924`);
  `docs/topology-governance.md:179` says "The proposal must be immutable after approval." (`MarkTested` has no guard on the status.)
  Still no proposal is committed on stale evidence: testing anew forces shadow reports and approval anew (`CommitOnEvidence`).
- *Direction of a rollback.* `apply_rollback` (`loom_model.rs:864`) takes any two snapshots, the target newer than the source or
  rolled back before as well; `docs/topology-governance.md:326` says "Rollback moves routing back to an earlier topology snapshot.",
  `:339` "Select previous known-good topology snapshot." (`ValidRollback` asks for two known snapshots.) Whichever way it goes, it
  takes effect at once and sticks until a later one goes to the snapshot it left (`RollbackMovesRouting`, `RolledBackStaysOut`), as
  long as the process lives.
- *Half a rollback.* A rollback is two calls on two files (`loom_model.rs:1160`). After a death between them (`Die` with one call
  left) the ledgers load with the record there and the failed snapshot active, and applying the rollback again is refused as a
  duplicate; `docs/topology-governance.md:341` says "Mark failed snapshot as rolled back or superseded." So `RolledBackStaysOut`,
  an invariant of the store in memory, is none of a store that was loaded after a death. What was loaded is sound
  otherwise (`LedgersLoad`), and what has returned is there (`DoneIsOnDisk`).
- *Ledgers written in place.* `write_*_jsonl` empties the file and then writes it (`loom_model.rs:1037`): a death in between takes the
  records of earlier operations (`Truncate`, then `Die`). `docs/core-entities.md:422` calls a proposal a "Durable governance record",
  `:451` a snapshot a "Durable immutable topology artifact." A reader that is refused although no living writer overtook it has met
  such a ledger (`RefusalsAreExplained`). What is left may also load without a word (a snapshot ledger with nothing rolled back, or
  with nothing active), and the next full write makes it the ledger: `LedgersLoad` says nothing while `short` is not empty.
- *A line without its newline.* `append_event_log_jsonl` extends a last line that has no newline (`loom.rs:308`): a readable event
  becomes unreadable by an acknowledged append (`Extended`); `docs/event-vocabulary.md:18` says "Events should be append-only." No
  event but that one is lost (`ImplementsLog`), and the next read fails.

More that the models make visible, none of which breaks a property.

*Projections.* Effects are found through maps that keep one event per cause, so of two assignments of one route decision the
diagram has the last (`Replaced` in `LoomReplay`). A report is matched to an integration group by the tail of its ref alone, so
groups of one number under different roots share their reports. A `TopologyProposed` may name any cause, which nobody checks; its edge may lead backwards.

*Sizes.* The plan checks products in `usize`, the kernel multiplies in 32 bits: a table beyond 2^32 floats passes every check, and
its vectors are read from the wrong place, though never outside the buffer. `KernelServesBatch` allows this one case.

*Parity.* Agent id 0 is a legal id and the kernel's sentinel for no candidate; a batch that it wins is answered differently, and
the parity check says so. `CudaAgreesWithCpu` names the tables where rounding cannot change a decision.

*CUDA.* A failing `destroy` leaves the handle in its wrapper, whose `Drop` releases it a second time (the SAFETY comments there say
"at most once"): `OwnedIsAlive` allows this one case. And an error between launch and synchronisation returns while the kernel may
still run; what keeps the next batch's data its own is that its first copy waits for that kernel.

*Governing processes.* The model has one. Two that govern would undo each other's changes.

## 4. Proofs

All theorems hold for every value of the constants under the named assumptions of the modules: ids are numbers, `None` is none of
them, nor an event, a list of candidates or a batch; offered events are events, scannable candidates are candidates, bounds are
numbers, a block is not empty, a workspace has inputs and outputs, the indexes of 32 bits make up whole blocks of threads. `NumberAssumption` (`CudaSelection`) is what the
theorem about the GPU takes from f32: a finite distance that is off by the tolerance is still finite and a number, and an available
agent's effective distance is a multiple of its base distance, hence no number if that is none (`score_agent`).

- `EventLogProofs`. Inductive invariant: types, `UniqueEventIds` and `Replayable`. Append decides from the id set and from the vector,
  so `Replayable` needs the set to be the ids of the vector, and uniqueness needs the same; appending never changes what precedes an
  event, so what was accepted stays acceptable. `CauseBeforeEffect` and `RollbackTracesToProposal` follow from `Replayable`.
  The consumer of `LogConsumer` adds to the invariant that its cursor is an id of the log and that what it was never given and is
  not ahead of the cursor came after a greater id; a poll keeps that because `Replay`, a recursive function over the log, is
  shown to keep exactly the events after the cursor, in order. That induction is the prover's: the least place where the claim
  fails is not the first (`LeastNatural`, from the library's theorem on well-founded relations).
  Of validation: the pass keeps maps, the rules speak of the slice. Inductive invariant: the log's own; each map holds,
  for each task, the last event of its type (`HoldsLast`), and the collected children are the log's (`Collected`); every route
  decision carries telemetry (`TelemetryIn`) and every memory node rests on an earlier decommission (`MemoryIn`); and the
  verdict is right. What it tells of all completions and children is more than the maps hold: a packet kept for a task is one of
  the task's, a missing one means that there is none, and a mismatch shows the two events that do not match (`ChildChecks`,
  `CompletionChecks`). That an event is refused for its own fault only (`RefusalsAreRight`) goes error by error: what the slice has kept
  so far of each rule (`PassedKeepRules`), and why the event breaks the one its error names (`RefusedBreakRule`); it needs ids to be
  unique, so that an event names one cause (`OneCause`). `AssignmentsAreExplained` follows from the first part (append asks for the cause) and `TelemetryIn`. `Finish` is
  one lemma: with the invariant the four checks over the maps say what the rules say of the slice.
  Of the diagrams of a log that validates (`ProjectionsAreTrue`): every diagram's lines are known from its events (below), so each
  part of `ProjectionsTellTheLog` becomes a statement about the log. That an effect is drawn needs the replacement rule (the last
  effect of a cause is the one in the map) and the causes that append and the pass asked for; that nothing leads backwards needs ids
  to be unique, so that the position of an id is the event's own.
- `TaskLoomProofs`. Each of the nineteen planned events is an event and validates, whatever the configuration (a `...Says` lemma each),
  and those that need a cause have it before them in the plan (`PlannedAreCaused`), so of append's checks the id's alone is left
  (`AcceptsByIdAlone`). Inductive invariant: the log is a beginning of the plan, its ids are those listed in `Ids` and pairwise
  different, a panic comes of two equal ones, and what is returned is the whole plan. That two of the nineteen ids are equal exactly
  if a configured one collides (`CollidesIs`) gives `PanicsOnlyOnCollision` in both directions. `VocabularyAssumption` says that
  the texts and ids of a run are among the model's, and that the ids a part counts on from a configured one exist: ids are u64, and a
  configuration at the very end of them is left out. It also says that the reference of the integration group and that of its report
  carry the same id, as `MockIntegration` writes them.
  For the validation of that log (`ReplayedInv`): the replay log is a beginning of the plan too, and after n events the maps and the
  children are what the plan has brought by then (`Pass`). Each planned event passes its precheck, but for the curator's nodes, which
  do exactly under the run's correlation (`PrecheckIs`); the final checks ask nothing but the integration's correlation
  (`FinalChecksAre`), even if a child is called like its root. That gives the first half of `RunValidates`; for the second, each
  edge named in `RunShows` is found at its two places of the plan (`RouteIsShown` to `GroupIsShown`), where it matters that a cause
  has one effect only (`CausedOnce`), which no later one replaces.
- `LoomEventsProofs`. What of a log `Accepts` looks at: the ids and the causes before. `EventLogProofs` and `JsonlFileProofs` both
  rest on it. And what lines a diagram has, for any log: texts are joined by `FlattenSeq`, which is defined by a recursive function, so
  that such a function exists has to be shown first (`JoinIsDefined`) and then that the joint text has the lines of all its texts and
  no others (`JointElements`), both by the least length for which it fails. On it rest
  one lemma per diagram and part of it (`TraceOfElements`, `TaskDependencyElements`, `GroupOfElements`, …).
- `JsonlFileProofs`. Inductive invariant: types; nobody writes while the file is created; every acknowledged record is on a line of
  its own or a line is damaged, and damage stays (`AckedInFile`); a writer whose check is as new as the file has a record the file
  still admits (`FreshChecks`). `AckedOrUnreadable` and `FreshAppendSticks` follow. The refinement needs no invariant of
  the writers: lemmas on reading (`WholeBy`, `CountBy`, `KeptBy`, for a given file) show that one more line, whatever it is, leaves
  what can be read as it was or adds one record that its rules admit, because the first line that cannot be read stays the first.
- `TopologyProofs`. Inductive invariant of the store in memory: types, references, evidence by status (a Shadowed proposal has tests older than its
  shadow reports, an Approved one an approval newer than both, all no newer than its last update), the source of each snapshot, and
  for rollbacks that the target of the last one is active and every source is rolled back unless a later record names it. The action
  properties follow from the invariant and the step.
  For the ledgers (`LedgersInv`) it says what the disk lacks of memory at each point of an operation's calls: a ledger no call is due
  for holds what memory holds, and an append brings it there (`CallsCatchUp`); references hold in memory, on disk and across the two,
  but into a ledger that is cut short (`MemoryClosed`, `DiskClosed`); what a reader has read that is not overtaken, nor met a ledger cut short, agrees with the disk
  (`ReaderKnows`), which gives `RefusalsHaveReasons`. References across the two are needed because a death makes the disk the memory. `LedgersLoad` and `DoneIsOnDisk` follow.
- `RouteSelectionProofs`. A stable sort puts each number of places before exactly one place, so the CHOOSE of `InOrder` finds it and
  a candidate's rank determines its distance and id. Inductive invariant: each accumulator holds candidates of as many different
  places, no place left out is less than one held, and there are k of them if any is left out (`Best`); `BoundedTopK` knows its worst
  candidate (`WorstHeld`), without which a push could not decide from one comparison. What is held then has the same ranks among
  itself as among all places, which gives `HoldsTheBest`, and with unique ids the same candidates: `AnswersAsFullSort`. Distances
  are any integers, so the theorems take from f32 that `total_cmp` is a total order.
  `CudaAgreesWithCpu` needs nothing more of the scan. The kernel's loop is a function from turns to registers; turn by turn it holds
  an available agent met so far with a number for its distance, the winner once that was met (`KernelFindsBest`), and knows of the
  nearest whether it is available (`KernelObserves`). Where rounding decides nothing, what is less in the CPU's table is less in the
  kernel's (`LessWhenRounded`), so the winner is the CPU's (`ChoosesTheSame`). The rest is the parity check: matching with a
  tolerance is symmetric and weaker than exact matching (`ResultsMatch`), and what makes answers differ is in one of its
  conjuncts (`BackendsDiffer`).
- `RouteBatchProofs`. Lemmas on rounding up (`DivUp`), multiples and chunks: the chunks are not empty, touch, do not overlap and end
  with the batch. Inductive invariant: each thread holds the beginning of its chunk in order, all of it once joined; the caller holds
  the requests up to the end of the last chunk collected. The refinement of `RouterBackend` (without fairness) follows: every step is
  the contract's one answer or a stutter.
- `CudaProofs`. One lemma per action, one step under it per part of the inductive invariant: where a call is (`Counted`), the
  exact set of handles owned at every step (`Shape`), the library and the context among them (`Contexts`), nothing in the driver that
  was forgotten (`NoStrays`), and what buffers and output hold (`Data`). `AnswersOwnBatch` needs the most of it: inputs are the batch's own because
  no kernel runs after the first copy until the launch, outputs because they come from a kernel that read those inputs and ended
  before the synchronisation. The driver's behaviour is that of the model, so these theorems assume it.
  For all widths, block sizes and shapes, what a launch touches: offsets, wrapped or not, stay below the length of their buffer since
  each is a number below it taken modulo 2^32; the grid has one thread per request, and threads beyond do nothing. With
  `CudaWorkspaceFits` the workspace of a launch has the batch's shape, so `KernelServesBatch` holds however it was kept.

Only model-checked: liveness of `RouteBatch` (that a batch does answer), which like ENABLED is out of the prover's reach, and with it
that the refinement of `RouterBackend` holds of the fair specification. The bounds say how far that check goes. Every other property
of a passing run is a theorem.
That a request is never routed twice (`RoutedOnce`) is a theorem and not a property of a run: the refinement, which is, implies
what a caller can see of it.

## 5. Not modelled, and the plan

Left out for good: golden fixtures (a text codec for f32 bit patterns), metrics, the fixture generator, route table packing and
configuration, benchmarks: sequential transformations of data with no behaviour over time. So is the arithmetic of scores. Of the
mock loom, `MockConstructorRuntime::execute`, which only hands on what a constructor returns, and integration with an artifact
missing, which `run_prompt` never asks for.

Next: several governing processes in `TopologyLedgers`.
