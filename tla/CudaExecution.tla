----------------------------- MODULE CudaExecution -----------------------------
(***************************************************************************)
(* A batch on the CUDA driver: execute_route_agents_k1_timed_... and what its  *)
(* callers own.  CudaRouter::route_batch retains the context and loads the     *)
(* module for one batch; CudaRouteK1Executor keeps both, and a workspace of    *)
(* device buffers it replaces when the shape of the batch changes.  All calls    *)
(* go through the driver's library, which a runtime opens before anything else.   *)
(*                                                                         *)
(* Any driver call may fail.  What a wrapper owns is released by its Drop in   *)
(* Rust's order, by an explicit destroy, or, when that one fails, by both.     *)
(*                                                                         *)
(* The driver is external: a kernel runs until it ends or faults, a fault makes *)
(* every later call fail, and copies are ordered after the work launched before *)
(* (the legacy default stream).                                              *)
(***************************************************************************)
EXTENDS Integers

CONSTANTS
  Inputs, Outputs,   \* the device buffers of a workspace
  Plans,             \* CudaBufferPlan: the shapes of a batch
  MaxBatches,        \* bound: batches routed
  OtherHolders,      \* references other runtimes of the process hold
  None

ASSUME BufferAssumption ==
  /\ Inputs # {} /\ Outputs # {} /\ Inputs \cap Outputs = {}
  /\ (Inputs \cup Outputs) \cap {"library", "context", "module", "stream", "start", "stop"} = {}
ASSUME CountAssumption == MaxBatches \in Nat /\ OtherHolders \in Nat
ASSUME NoneAssumption == None \notin [of : 1..MaxBatches, plan : Plans]

VARIABLES
  caller,      \* "router" or "executor"
  batch, plan, \* the batch routed, and its shape
  pc,          \* the next step of the call, or "idle"
  todo,        \* buffers the step has still to allocate or copy
  result,      \* of the batch
  output,      \* the batches whose data the host's output holds
  workspace,   \* the workspace in use: the batch that allocated it, its plan
  owned,       \* handles held by a wrapper
  alive,       \* objects the driver has (all but contexts)
  refused,     \* handles whose release failed, of objects alive or owned
  refs,        \* references to the primary context
  content,     \* the batches whose data a device buffer holds
  kernel,      \* the workspace a kernel is working on, 0 if none runs
  faulted      \* a kernel has failed

call == <<batch, plan, pc, todo, result, output, workspace>>
objects == <<owned, alive, refused, refs>>
device == <<content, kernel, faulted>>
vars == <<caller, call, objects, device>>

Buffers == Inputs \cup Outputs
Kinds == {"library", "context", "module", "stream", "start", "stop"} \cup Buffers
Batches == 1..MaxBatches
Handles == Kinds \X (0..MaxBatches)
BufferHandles == Buffers \X Batches

\* What a buffer holds before anything was copied to it.
Garbage == {0}

New(kind) == <<kind, batch>>

\* The steps between a workspace and an answer.
Executing ==
  { "copy_in", "stream", "start", "stop", "function", "record_start", "launch",
    "record_stop", "synchronize", "elapsed", "destroy_stop", "destroy_start",
    "destroy_stream", "copy_out" }

\* Steps that drop what they no longer need.
Dropping == {"replace", "free", "unwind", "shutdown"}

TypeOK ==
  /\ caller \in {"router", "executor"}
  /\ batch \in 0..MaxBatches /\ plan \in Plans \cup {None}
  /\ pc \in Executing \cup Dropping
              \cup {"idle", "open", "init", "load", "allocate", "unload", "stopped"}
  /\ todo \subseteq Buffers
  /\ result \in {"none", "ok", "error"}
  /\ output \subseteq 0..MaxBatches
  /\ workspace \in [of : Batches, plan : Plans] \cup {None}
  /\ owned \subseteq Handles /\ alive \subseteq Handles /\ refused \subseteq Handles
  /\ refs \in Nat
  /\ content \in [BufferHandles -> SUBSET (0..MaxBatches)]
  /\ kernel \in 0..MaxBatches /\ faulted \in BOOLEAN

Init ==
  /\ caller \in {"router", "executor"}
  /\ batch = 0 /\ plan = None
  /\ pc = IF caller = "router" THEN "idle" ELSE "open"
  /\ todo = {} /\ result = "none" /\ output = {} /\ workspace = None
  /\ owned = {} /\ alive = {} /\ refused = {}
  /\ refs = OtherHolders
  /\ content = [h \in BufferHandles |-> Garbage]
  /\ kernel = 0 /\ faulted = FALSE

-----------------------------------------------------------------------------
(* Failing calls. *)

\* A call returns an error and `?` leaves the function: the batch has no answer,
\* and all it created goes out of scope.  Without an executor there is nothing to
\* route with.
Return(error) ==
  /\ result' = error
  /\ pc' = IF batch = 0 THEN "shutdown" ELSE "unwind"
  /\ todo' = {}
  /\ workspace' = IF caller = "router" THEN None ELSE workspace
  /\ UNCHANGED <<batch, plan, output>>

CallFails ==
  /\ \/ pc \in {"open", "init", "load", "copy_out"}
     \/ pc = "allocate" /\ todo # {}
     \/ pc \in Executing \ {"destroy_stop", "destroy_start", "destroy_stream"}
  /\ Return("error")
  /\ UNCHANGED <<caller, objects, device>>

-----------------------------------------------------------------------------
(* The library, the context and the module. *)

\* Faulty: as many releases as one likes.
GivenBackAnyway(n) == n - 1

\* cuDevicePrimaryCtxRelease is refused when nobody holds a reference.
GivenBack(n) == IF n = 0 THEN 0 ELSE n - 1

\* CudaRuntime::initialize: CudaDriver::load opens the library.
OpenLibrary ==
  /\ pc = "open"
  /\ owned' = owned \cup {New("library")}
  /\ pc' = "init"
  /\ UNCHANGED <<caller, batch, plan, todo, result, output, workspace, alive, refused, refs, device>>

\* All symbols are found, the driver has a device, and CudaContext::retain makes
\* the context current.
Initialize ==
  /\ pc = "init" /\ ~faulted
  /\ owned' = owned \cup {New("context")}
  /\ refs' = refs + 1
  /\ pc' = "load"
  /\ UNCHANGED <<caller, batch, plan, todo, result, output, workspace, alive, refused, device>>

\* It cannot be made current: retain releases it, and so does the Drop of the
\* CudaContext it had already put together.
InitializeAborts ==
  /\ pc = "init"
  /\ refs' = GivenBack(GivenBack(refs + 1))
  /\ Return("error")
  /\ UNCHANGED <<caller, owned, alive, refused, device>>

Create(kind) ==
  /\ ~faulted
  /\ owned' = owned \cup {New(kind)}
  /\ alive' = alive \cup {New(kind)}
  /\ UNCHANGED <<refused, refs>>

\* load_route_agents_module: for the batch, or for the executor that is made.
LoadModule ==
  /\ pc = "load"
  /\ Create("module")
  /\ IF caller = "router" THEN pc' = "allocate" /\ todo' = Buffers
                          ELSE pc' = "idle" /\ UNCHANGED todo
  /\ UNCHANGED <<caller, batch, plan, result, output, workspace, device>>

-----------------------------------------------------------------------------
(* The workspace. *)

\* A faulty executor keeps whatever workspace it has.
KeepsAny(p) == workspace # None

\* The workspace can be used for a batch of shape p.
Reuses(p) == workspace # None /\ workspace.plan = p

\* route_batch is called with requests that validate_k_one_inputs accepts.
Begin(p) ==
  /\ pc = "idle" /\ batch < MaxBatches
  /\ batch' = batch + 1 /\ plan' = p
  /\ result' = "none" /\ output' = {}
  /\ IF caller = "router" THEN pc' = "open" /\ UNCHANGED todo
     ELSE IF Reuses(p) THEN pc' = "copy_in" /\ todo' = Inputs
     ELSE pc' = "allocate" /\ todo' = Buffers
  /\ UNCHANGED <<caller, workspace, objects, device>>

\* CudaRouteK1Workspace::new, buffer by buffer.
Allocate(b) ==
  /\ pc = "allocate" /\ b \in todo
  /\ Create(b)
  /\ todo' = todo \ {b}
  /\ UNCHANGED <<caller, batch, plan, pc, result, output, workspace, device>>

\* The new workspace takes the place of the old one, which is then dropped.
TakeWorkspace ==
  /\ pc = "allocate" /\ todo = {}
  /\ workspace' = [of |-> batch, plan |-> plan]
  /\ pc' = "replace"
  /\ UNCHANGED <<caller, batch, plan, todo, result, output, objects, device>>

-----------------------------------------------------------------------------
(* Copies and the kernel. *)

\* A faulty executor takes it that a workspace it kept still holds the inputs.
CopyFirstTime(b) ==
  /\ pc = "copy_in" /\ b \in todo
  /\ kernel = 0 /\ ~faulted
  /\ content' = IF workspace.of = batch
                THEN [content EXCEPT ![<<b, workspace.of>>] = {batch}] ELSE content
  /\ todo' = todo \ {b}
  /\ pc' = IF todo' = {} THEN "stream" ELSE pc
  /\ UNCHANGED <<caller, batch, plan, result, output, workspace, objects, kernel, faulted>>

\* CudaDeviceBuffer::copy_from waits for a kernel that still runs.
CopyIn(b) ==
  /\ pc = "copy_in" /\ b \in todo
  /\ kernel = 0 /\ ~faulted
  /\ content' = [content EXCEPT ![<<b, workspace.of>>] = {batch}]
  /\ todo' = todo \ {b}
  /\ pc' = IF todo' = {} THEN "stream" ELSE pc
  /\ UNCHANGED <<caller, batch, plan, result, output, workspace, objects, kernel, faulted>>

\* create_stream, create_event twice.
CreateFor(kind, next) ==
  /\ pc = kind
  /\ Create(kind)
  /\ pc' = next
  /\ UNCHANGED <<caller, batch, plan, todo, result, output, workspace, device>>

\* Calls that look something up or put a mark into the stream, whose order is
\* kept: route_agents_kernel, record, elapsed_since.
Mark(here, next) ==
  /\ pc = here /\ ~faulted
  /\ pc' = next
  /\ UNCHANGED <<caller, batch, plan, todo, result, output, workspace, objects, device>>

\* RouteAgentsKernel::launch returns before the kernel has run.
Launch ==
  /\ pc = "launch" /\ ~faulted
  /\ kernel' = workspace.of
  /\ pc' = "record_stop"
  /\ UNCHANGED <<caller, batch, plan, todo, result, output, workspace, objects, content, faulted>>

\* kernel_stop_event.synchronize()
Synchronize ==
  /\ pc = "synchronize"
  /\ kernel = 0 /\ ~faulted
  /\ pc' = "elapsed"
  /\ UNCHANGED <<caller, batch, plan, todo, result, output, workspace, objects, device>>

\* The kernel writes every output from all inputs.
KernelEnds ==
  /\ kernel # 0
  /\ content' = [h \in BufferHandles |->
                   IF h \in Outputs \X {kernel}
                   THEN UNION { content[<<i, kernel>>] : i \in Inputs } ELSE content[h]]
  /\ kernel' = 0
  /\ UNCHANGED <<caller, call, objects, faulted>>

\* From then on every call of the process fails, also in a context that is retained
\* anew: what a kernel's fault does to the driver only ends with the process.
KernelFaults ==
  /\ kernel # 0
  /\ kernel' = 0 /\ faulted' = TRUE
  /\ UNCHANGED <<caller, call, objects, content>>

\* CudaDeviceBuffer::copy_to; after the last one the results are decoded.  The
\* executor answers; the router has to put away its workspace and module first.
CopyOut(b) ==
  /\ pc = "copy_out" /\ b \in todo
  /\ kernel = 0 /\ ~faulted
  /\ output' = output \cup content[<<b, workspace.of>>]
  /\ todo' = todo \ {b}
  /\ IF todo' # {} THEN UNCHANGED <<pc, result, workspace>>
     ELSE IF caller = "router" THEN pc' = "free" /\ workspace' = None /\ UNCHANGED result
     ELSE pc' = "idle" /\ result' = "ok" /\ UNCHANGED workspace
  /\ UNCHANGED <<caller, batch, plan, objects, device>>

-----------------------------------------------------------------------------
(* Releasing. *)

\* The driver takes h back, or says it cannot; then it may have done so or not.
Accepts(h) == ~faulted /\ alive' = alive \ {h} /\ UNCHANGED refused
Refuses(h) == alive' \in {alive, alive \ {h}} /\ refused' = refused \cup {h}

\* A faulty destroy leaves the handle in its wrapper.
DestroyAndKeep(kind, here, next, then) ==
  LET h == New(kind) IN
  /\ pc = here
  /\ \/ /\ Accepts(h)
        /\ pc' = next /\ todo' = then
        /\ UNCHANGED <<owned, batch, plan, result, output, workspace>>
     \/ Refuses(h) /\ Return("error") /\ UNCHANGED owned
  /\ UNCHANGED <<caller, refs, device>>

\* destroy() of an event or a stream.  It forgets the handle when the driver took
\* it back; else the handle stays in the wrapper, whose Drop releases it again.
Destroy(kind, here, next, then) ==
  LET h == New(kind) IN
  /\ pc = here
  /\ \/ /\ Accepts(h)
        /\ owned' = owned \ {h}
        /\ pc' = next /\ todo' = then
        /\ UNCHANGED <<batch, plan, result, output, workspace>>
     \/ Refuses(h) /\ Return("error") /\ UNCHANGED owned
  /\ UNCHANGED <<caller, refs, device>>

\* CudaModule::unload, the router's last call before it answers.
Unload ==
  LET h == New("module") IN
  /\ pc = "unload"
  /\ \/ Accepts(h) /\ owned' = owned \ {h} /\ Return("ok")
     \/ Refuses(h) /\ UNCHANGED owned /\ Return("error")
  /\ UNCHANGED <<caller, refs, device>>

\* What outlives a call.
Kept ==
  IF caller = "router" THEN {}
  ELSE {<<"library", 0>>, <<"context", 0>>, <<"module", 0>>}
         \cup (IF workspace = None THEN {} ELSE Buffers \X {workspace.of})

\* Faulty: the events and the stream alone go out of scope.
DoomedLocals ==
  CASE pc = "replace"  -> { h \in owned : h[1] \in Buffers /\ h[2] # batch }
    [] pc = "free"     -> { h \in owned : h[1] \in Buffers }
    [] pc = "unwind"   -> { h \in owned \ Kept : h[1] \notin Buffers }
    [] pc = "shutdown" -> owned
    [] OTHER           -> {}

\* What goes out of scope.
Doomed ==
  CASE pc = "replace"  -> { h \in owned : h[1] \in Buffers /\ h[2] # batch }
    [] pc = "free"     -> { h \in owned : h[1] \in Buffers }
    [] pc = "unwind"   -> owned \ Kept
    [] pc = "shutdown" -> owned
    [] OTHER           -> {}

\* Faulty: the fields of the router's scope go in the order of their creation.
OldestFirst(h) ==
  CASE h[1] = "library" -> 7
    [] h[1] = "context" -> 6
    [] h[1] = "module"  -> IF pc = "shutdown" THEN 3 ELSE 5
    [] h[1] = "stream"  -> 3
    [] h[1] = "start"   -> 2
    [] h[1] = "stop"    -> 1
    [] OTHER            -> 4

\* Locals are dropped in the reverse order of their creation; the executor's
\* fields in the order of their declaration, the module before the workspace; and
\* CudaRuntime takes its context out before its fields go, the library among them.
\* The order among the buffers is left open.
Rank(h) ==
  CASE h[1] = "library" -> 0
    [] h[1] = "context" -> 1
    [] h[1] = "module"  -> IF pc = "shutdown" THEN 4 ELSE 2
    [] h[1] = "stream"  -> 4
    [] h[1] = "start"   -> 5
    [] h[1] = "stop"    -> 6
    [] OTHER            -> 3

IsNext(h) == h \in Doomed /\ \A g \in Doomed : Rank(g) <= Rank(h)

\* Drop ignores whether the driver took the object back.  (A refusal is remembered
\* while it matters: as long as the object is there.)
DropObject(h) ==
  /\ pc \in Dropping /\ IsNext(h) /\ h[1] \notin {"library", "context"}
  /\ owned' = owned \ {h}
  /\ alive' \in {alive, alive \ {h}}
  /\ refused' = (refused \ {h}) \cup (alive' \cap {h})
  /\ content' = [g \in BufferHandles |-> IF g = h THEN Garbage ELSE content[g]]
  /\ UNCHANGED <<caller, call, refs, kernel, faulted>>

DropContext(h) ==
  /\ pc \in Dropping /\ IsNext(h) /\ h[1] = "context"
  /\ owned' = owned \ {h}
  /\ refs' = GivenBack(refs)
  /\ UNCHANGED <<caller, call, alive, refused, device>>

\* DriverLibrary's Drop closes it.
DropLibrary(h) ==
  /\ pc \in Dropping /\ IsNext(h) /\ h[1] = "library"
  /\ owned' = owned \ {h}
  /\ UNCHANGED <<caller, call, alive, refused, refs, device>>

\* The scope is left.  (Objects the driver would not take back are forgotten.)
Dropped ==
  /\ pc \in Dropping /\ Doomed = {}
  /\ pc' = CASE pc = "replace" -> "copy_in" [] pc = "free" -> "unload"
             [] pc = "unwind" -> "idle"     [] pc = "shutdown" -> "stopped"
  /\ todo' = IF pc = "replace" THEN Inputs ELSE {}
  /\ alive' = alive \cap owned /\ refused' = refused \cap owned
  /\ UNCHANGED <<caller, batch, plan, result, output, workspace, owned, refs, device>>

\* The owner of the executor lets go of it and of its runtime.
Shutdown ==
  /\ pc = "idle" /\ caller = "executor"
  /\ pc' = "shutdown" /\ result' = "none" /\ workspace' = None
  /\ UNCHANGED <<caller, batch, plan, todo, output, objects, device>>

-----------------------------------------------------------------------------
Route ==
  \/ \E p \in Plans : Begin(p)
  \/ OpenLibrary \/ Initialize \/ InitializeAborts \/ LoadModule
  \/ \E b \in Buffers : Allocate(b) \/ CopyIn(b) \/ CopyOut(b)
  \/ TakeWorkspace
  \/ CreateFor("stream", "start") \/ CreateFor("start", "stop") \/ CreateFor("stop", "function")
  \/ Mark("function", "record_start") \/ Mark("record_start", "launch")
  \/ Launch
  \/ Mark("record_stop", "synchronize")
  \/ Synchronize
  \/ Mark("elapsed", "destroy_stop")
  \/ Destroy("stop", "destroy_stop", "destroy_start", {})
  \/ Destroy("start", "destroy_start", "destroy_stream", {})
  \/ Destroy("stream", "destroy_stream", "copy_out", Outputs)
  \/ Unload

Release == Dropped \/ \E h \in owned : DropObject(h) \/ DropContext(h) \/ DropLibrary(h)

Driver == KernelEnds \/ KernelFaults

Next == Route \/ CallFails \/ Release \/ Shutdown \/ Driver

Spec == Init /\ [][Next]_vars

-----------------------------------------------------------------------------
\* On every path, failing calls included, what the driver still has is owned by a
\* wrapper or was refused by the driver when it was to be released; and between
\* batches only the executor's runtime, module and workspace are owned.
NothingLeaks ==
  /\ alive \ refused \subseteq owned
  /\ pc = "idle" => owned = Kept
  /\ pc = "stopped" => owned = {}

\* A handle is used or released only while its object is there: unless the driver
\* refused to destroy it, what a wrapper owns is alive.  An explicit destroy
\* followed by Drop releases twice only after such a refusal.
OwnedIsAlive ==
  { h \in owned : h[1] \notin {"library", "context"} } \subseteq alive \cup refused

\* The runtime's reference to the context is given back after everything that was
\* made in the context, and the library is closed last: whatever failed before, no
\* release goes through a library that is gone.
ContextOutlivesObjects ==
  /\ (\E h \in owned : h[1] \notin {"library", "context"}) =>
       refs > 0 /\ \E h \in owned : h[1] = "context"
  /\ owned # {} => \E h \in owned : h[1] = "library"

\* Buffers are only copied and passed to the kernel under the plan they were
\* allocated for, however often a workspace was kept or replaced or could not be
\* replaced: the check before execution never fires.
WorkspaceFits ==
  pc \in Executing =>
    /\ workspace # None /\ workspace.plan = plan
    /\ Buffers \X {workspace.of} \subseteq owned

\* An answer is made of this batch's data alone, by a kernel that has ended: never
\* of what an earlier batch, or one that failed half-way with its kernel running,
\* left in a kept workspace, and never of what no kernel wrote.
AnswersOwnBatch == result = "ok" => output = {batch} /\ kernel = 0

\* The runtime gives back its own references only: those of other runtimes of the
\* process stay.  Violated when the context was retained and cannot be made
\* current.
OthersKeepContext == refs >= OtherHolders
===============================================================================
