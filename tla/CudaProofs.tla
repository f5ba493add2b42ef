------------------------------- MODULE CudaProofs -------------------------------
(***************************************************************************)
(* What holds of a batch on the CUDA driver for every workspace, any number of *)
(* batches of any shapes and every combination of failing calls; and what a     *)
(* launch touches, for every width, block and shape.                        *)
(*                                                                         *)
(* At every step the code owns an exact set of handles: what it began with,    *)
(* and the stream and events that step is past creating (Shape).  What the     *)
(* buffers hold follows the same steps (Data), because the first copy of a     *)
(* batch waits for any kernel an earlier batch left running.                  *)
(***************************************************************************)
EXTENDS CudaMemory, TLAPS

\* The library, context and module of this call, and its workspace.
Home == IF caller = "router" THEN batch ELSE 0
Base ==
  {<<"library", Home>>, <<"context", Home>>, <<"module", Home>>}
    \cup (IF workspace = None THEN {} ELSE Buffers \X {workspace.of})

\* The stream and the events, between their creation and destruction.
Marks ==
  CASE pc \in {"copy_in", "stream", "copy_out"} -> {}
    [] pc \in {"start", "destroy_stream"} -> {<<"stream", batch>>}
    [] pc \in {"stop", "destroy_start"} -> {<<"stream", batch>>, <<"start", batch>>}
    [] OTHER -> {<<"stream", batch>>, <<"start", batch>>, <<"stop", batch>>}

\* Where the steps of a call are.
Counted ==
  /\ caller = "router" /\ pc # "idle" => batch > 0
  /\ caller = "executor" /\ pc \in {"open", "init", "load"} => batch = 0
  /\ pc \in Executing \cup {"allocate", "replace", "free", "unload", "unwind"} => batch > 0
  /\ pc \in {"free", "unload"} => caller = "router"
  /\ pc \in {"shutdown", "stopped"} => caller = "executor"
  /\ workspace # None => workspace.of <= batch
  /\ batch > 0 => plan \in Plans

\* What is owned at every step, exactly or, while a scope is dropped, at least.
Shape ==
  /\ pc \in Executing => workspace # None /\ workspace.plan = plan /\ owned = Base \cup Marks
  /\ pc = "open" => owned = {} /\ workspace = None
  /\ pc = "init" => owned = {<<"library", Home>>} /\ workspace = None
  /\ pc = "load" => owned = {<<"library", Home>>, <<"context", Home>>} /\ workspace = None
  /\ pc = "allocate" =>
       /\ owned = Base \cup ((Buffers \ todo) \X {batch})
       /\ workspace # None => caller = "executor" /\ workspace.of < batch
  /\ pc = "replace" =>
       /\ workspace = [of |-> batch, plan |-> plan]
       /\ Base \subseteq owned
       /\ owned \ Base \subseteq Buffers \X (0..(batch - 1))
  /\ pc = "free" => /\ workspace = None /\ Base \subseteq owned
                    /\ owned \ Base \subseteq Buffers \X Batches
  /\ pc = "unload" => workspace = None /\ owned = Base
  /\ pc = "idle" => owned = Kept
  /\ pc = "unwind" => Kept \subseteq owned
  /\ pc = "shutdown" => workspace = None
  /\ pc = "stopped" => owned = {}
  /\ pc \in {"idle", "unwind"} /\ caller = "router" => workspace = None

\* Library and context are the call's own, and there before and after everything
\* else, the library before and after the context.
Contexts ==
  /\ \A h \in owned : h[1] \in {"library", "context"} => h = <<h[1], Home>>
  /\ \A h \in owned : h[1] \notin {"library", "context"} => <<"context", Home>> \in owned
  /\ owned # {} => <<"library", Home>> \in owned
  /\ <<"context", Home>> \in owned => refs > 0

\* The driver has nothing the code forgot, but what it refused to take back.
NoStrays ==
  /\ alive \ refused \subseteq owned
  /\ \A h \in alive : h[1] \notin {"library", "context"}

\* What the buffers and the host's output hold.
Data ==
  /\ pc = "copy_in" =>
       /\ todo # {} /\ todo \subseteq Inputs /\ (todo # Inputs => kernel = 0)
       /\ \A i \in Inputs \ todo : content[<<i, workspace.of>>] = {batch}
  /\ pc \in Executing \ {"copy_in"} =>
       \A i \in Inputs : content[<<i, workspace.of>>] = {batch}
  /\ pc \in {"stream", "start", "stop", "function", "record_start", "launch"} => kernel = 0
  /\ pc \in {"record_stop", "synchronize"} =>
       /\ kernel \in {0, workspace.of}
       /\ kernel = 0 /\ ~faulted => \A o \in Outputs : content[<<o, workspace.of>>] = {batch}
  /\ pc \in {"elapsed", "destroy_stop", "destroy_start", "destroy_stream", "copy_out"} =>
       /\ kernel = 0
       /\ \A o \in Outputs : content[<<o, workspace.of>>] = {batch}
  /\ pc = "copy_out" =>
       /\ todo # {} /\ todo \subseteq Outputs
       /\ output = IF todo = Outputs THEN {} ELSE {batch}
  /\ pc \in (Executing \ {"copy_out"}) \cup {"open", "init", "load", "allocate", "replace"} => output = {}
  /\ pc \in {"free", "unload"} => output = {batch} /\ kernel = 0
  /\ pc \in Executing \cup {"open", "init", "load", "allocate", "replace", "free", "unload"} =>
       result = "none"
  /\ result = "ok" => output = {batch} /\ kernel = 0

IInv ==
  TypeOK /\ Counted /\ Shape /\ Contexts /\ OwnedIsAlive /\ NoStrays /\ Data
-----------------------------------------------------------------------------
\* What the types say in the form the steps need.
Typed ==
  /\ caller \in {"router", "executor"}
  /\ batch \in Nat /\ batch <= MaxBatches /\ refs \in Nat
  /\ workspace # None => /\ workspace.of \in Nat \ {0} /\ workspace.of <= MaxBatches
                         /\ workspace = [of |-> workspace.of, plan |-> workspace.plan]
  /\ \A h \in owned : h[2] \in Nat /\ h = <<h[1], h[2]>>

\* Buffers are told apart from each other and from the other kinds, and a workspace
\* from none.
LEMMA Kindred ==
  /\ MaxBatches \in Nat
  /\ \A n \in 1..MaxBatches, p \in Plans : [of |-> n, plan |-> p] # None
  /\ Buffers = Inputs \cup Outputs
  /\ Inputs # {} /\ Outputs # {} /\ Inputs \cap Outputs = {}
  /\ \A b \in Buffers : b \notin {"library", "context", "module", "stream", "start", "stop"}
BY BufferAssumption, CountAssumption, NoneAssumption
   DEF Buffers, BufferAssumption, CountAssumption, NoneAssumption, Batches

\* A batch begins.
LEMMA BeginStep ==
  ASSUME IInv, NEW p \in Plans, Begin(p)
  PROVE  IInv'
<1> USE Kindred
<1>0. Typed
  BY DEF IInv, TypeOK, Typed, Handles, Batches
<1>1. TypeOK'
  BY DEF IInv, TypeOK, Executing, Begin, objects, device
<1>2. Counted'
  BY <1>0 DEF IInv, Typed, Counted, Begin
<1>3. Shape'
  BY <1>0 DEF IInv, Typed, Shape, Counted, Base, Home, Marks, Kept, Executing, Begin, Reuses,
     objects
<1>4. Contexts'
  BY DEF IInv, Contexts, Shape, Home, Kept, Begin, objects
<1>5. OwnedIsAlive' /\ NoStrays'
  BY DEF IInv, OwnedIsAlive, Begin, objects, NoStrays
<1>6. Data'
  BY DEF IInv, Data, Executing, Begin
<1> QED BY <1>1, <1>2, <1>3, <1>4, <1>5, <1>6 DEF IInv

\* The library is opened.
LEMMA OpenLibraryStep ==
  ASSUME IInv, OpenLibrary
  PROVE  IInv'
<1> USE Kindred
<1>0. Typed
  BY DEF IInv, TypeOK, Typed, Handles, Batches
<1>1. TypeOK'
  BY DEF IInv, TypeOK, Handles, Kinds, OpenLibrary, New, device
<1>2. Counted'
  BY DEF IInv, Counted, Executing, OpenLibrary
<1>3. Shape'
  BY <1>0 DEF IInv, Typed, Shape, Counted, Home, Executing, OpenLibrary, New
<1>4. Contexts'
  BY <1>0 DEF IInv, Typed, Contexts, Shape, Counted, Home, OpenLibrary, New
<1>5. OwnedIsAlive' /\ NoStrays'
  BY DEF IInv, OwnedIsAlive, OpenLibrary, New, NoStrays
<1>6. Data'
  BY DEF IInv, Data, Executing, OpenLibrary, device
<1> QED BY <1>1, <1>2, <1>3, <1>4, <1>5, <1>6 DEF IInv

\* The context is retained.
LEMMA InitializeStep ==
  ASSUME IInv, Initialize
  PROVE  IInv'
<1> USE Kindred
<1>0. Typed
  BY DEF IInv, TypeOK, Typed, Handles, Batches
<1>1. TypeOK'
  BY DEF IInv, TypeOK, Handles, Kinds, Initialize, New, device
<1>2. Counted'
  BY DEF IInv, Counted, Executing, Initialize
<1>3. Shape'
  BY <1>0 DEF IInv, Typed, Shape, Counted, Home, Executing, Initialize, New
<1>4. Contexts'
  BY <1>0 DEF IInv, Typed, Contexts, Shape, Counted, Home, Initialize, New
<1>5. OwnedIsAlive' /\ NoStrays'
  BY DEF IInv, OwnedIsAlive, Initialize, New, NoStrays
<1>6. Data'
  BY DEF IInv, Data, Executing, Initialize
<1> QED BY <1>1, <1>2, <1>3, <1>4, <1>5, <1>6 DEF IInv

\* The context is retained and released again.
LEMMA InitializeAbortsStep ==
  ASSUME IInv, InitializeAborts
  PROVE  IInv'
<1> USE Kindred
<1>0. Typed
  BY DEF IInv, TypeOK, Typed, Handles, Batches
<1>1. TypeOK'
  BY DEF IInv, TypeOK, Dropping, InitializeAborts, Return, GivenBack, device
<1>2. Counted'
  BY <1>0 DEF IInv, Typed, Counted, Executing, InitializeAborts, Return
<1>3. Shape'
  BY <1>0 DEF IInv, Typed, Shape, Counted, Kept, Executing, InitializeAborts, Return
<1>4. Contexts'
  BY DEF IInv, Contexts, Shape, Home, InitializeAborts, Return
<1>5. OwnedIsAlive' /\ NoStrays'
  BY DEF IInv, OwnedIsAlive, InitializeAborts, NoStrays
<1>6. Data'
  BY DEF IInv, Data, Executing, InitializeAborts, Return
<1> QED BY <1>1, <1>2, <1>3, <1>4, <1>5, <1>6 DEF IInv

\* The module is loaded.
LEMMA LoadModuleStep ==
  ASSUME IInv, LoadModule
  PROVE  IInv'
<1> USE Kindred
<1>0. Typed
  BY DEF IInv, TypeOK, Typed, Handles, Batches
<1>1. TypeOK'
  BY DEF IInv, TypeOK, Handles, Kinds, LoadModule, Create, New, device
<1>2. Counted'
  BY DEF IInv, Counted, Executing, LoadModule
<1>3. Shape'
  BY <1>0 DEF IInv, Typed, Shape, Counted, Base, Home, Kept, Executing, LoadModule, Create, New
<1>4. Contexts'
  BY DEF IInv, Contexts, Shape, Home, LoadModule, Create, New
<1>5. OwnedIsAlive' /\ NoStrays'
  BY DEF IInv, OwnedIsAlive, LoadModule, Create, NoStrays, New
<1>6. Data'
  BY DEF IInv, Data, Executing, LoadModule
<1> QED BY <1>1, <1>2, <1>3, <1>4, <1>5, <1>6 DEF IInv

\* A buffer is allocated.
LEMMA AllocateStep ==
  ASSUME IInv, NEW b \in Buffers, Allocate(b)
  PROVE  IInv'
<1> USE Kindred
<1>1. TypeOK'
  BY DEF IInv, TypeOK, Handles, Kinds, Allocate, Create, New, device
<1>2. Counted'
  BY DEF IInv, Counted, Allocate
<1>3. Shape'
  BY DEF IInv, Shape, Base, Home, Executing, Allocate, Create, New
<1>4. Contexts'
  BY DEF IInv, Contexts, Shape, Base, Home, Allocate, Create, New
<1>5. OwnedIsAlive' /\ NoStrays'
  BY DEF IInv, OwnedIsAlive, Allocate, Create, NoStrays, New
<1>6. Data'
  BY DEF IInv, Data, Executing, Allocate
<1> QED BY <1>1, <1>2, <1>3, <1>4, <1>5, <1>6 DEF IInv

\* The new workspace replaces the old one.
LEMMA TakeWorkspaceStep ==
  ASSUME IInv, TakeWorkspace
  PROVE  IInv'
<1> USE Kindred
<1>0. Typed
  BY DEF IInv, TypeOK, Typed, Handles, Batches
<1>1. TypeOK'
  <2>1. workspace' \in [of : Batches, plan : Plans]
    BY <1>0 DEF IInv, Typed, Counted, TakeWorkspace, Batches
  <2>2. pc' = "replace"
    BY DEF TakeWorkspace
  <2>3. UNCHANGED <<caller, batch, plan, todo, result, output, objects, device>>
    BY DEF TakeWorkspace
  <2> QED BY <2>1, <2>2, <2>3 DEF IInv, TypeOK, Dropping, objects, device
<1>2. Counted'
  BY <1>0 DEF IInv, Typed, Counted, TakeWorkspace
<1>3. Shape'
  <2>1. /\ workspace' = [of |-> batch, plan |-> plan] /\ workspace' # None
        /\ pc' = "replace" /\ UNCHANGED <<caller, batch, plan, owned>>
    BY <1>0 DEF IInv, Typed, Counted, TakeWorkspace, objects
  <2>2. Base' = {<<"library", Home>>, <<"context", Home>>, <<"module", Home>>}
                  \cup (Buffers \X {batch})
    BY <2>1 DEF Base, Home
  <2>3. owned = Base \cup (Buffers \X {batch})
    BY DEF IInv, Shape, TakeWorkspace
  <2>4. ASSUME NEW h \in owned, h \notin Base'
        PROVE  h \in Buffers \X (0..(batch - 1))
    BY <2>2, <2>3, <2>4, <1>0 DEF IInv, Shape, TakeWorkspace, Typed, Base
  <2>5. Base' \subseteq owned
    BY <2>2, <2>3 DEF Base
  <2> QED BY <2>1, <2>4, <2>5 DEF Shape, Executing
<1>4. Contexts'
  BY DEF IInv, Contexts, Home, TakeWorkspace, objects
<1>5. OwnedIsAlive' /\ NoStrays'
  BY DEF IInv, OwnedIsAlive, TakeWorkspace, objects, NoStrays
<1>6. Data'
  BY DEF IInv, Data, Executing, TakeWorkspace
<1> QED BY <1>1, <1>2, <1>3, <1>4, <1>5, <1>6 DEF IInv

\* An input is copied: the first copy of a batch waits for the kernel of an earlier one.
LEMMA CopyInStep ==
  ASSUME IInv, NEW b \in Buffers, CopyIn(b)
  PROVE  IInv'
<1> USE Kindred
<1>0. Typed
  BY DEF IInv, TypeOK, Typed, Handles, Batches
<1>1. TypeOK'
  BY DEF IInv, TypeOK, Shape, BufferHandles, Executing, CopyIn, objects
<1>2. Counted'
  BY DEF IInv, Counted, Executing, CopyIn
<1>3. Shape'
  BY DEF IInv, Shape, Base, Home, Marks, Executing, CopyIn, objects
<1>4. Contexts'
  BY DEF IInv, Contexts, Home, CopyIn, objects
<1>5. OwnedIsAlive' /\ NoStrays'
  BY DEF IInv, OwnedIsAlive, CopyIn, objects, NoStrays
<1>6. Data'
  <2>1. /\ content' = [content EXCEPT ![<<b, workspace.of>>] = {batch}]
        /\ todo' = todo \ {b} /\ b \in todo /\ pc = "copy_in" /\ kernel = 0
        /\ pc' = IF todo' = {} THEN "stream" ELSE "copy_in"
        /\ UNCHANGED <<batch, workspace, kernel, output, result, faulted>>
    BY DEF CopyIn
  <2>2. workspace # None /\ todo \subseteq Inputs /\ output = {} /\ result = "none"
    BY <2>1 DEF IInv, Data, Shape, Executing
  <2>3. \A i \in Inputs : <<i, workspace.of>> \in DOMAIN content
    BY <1>0, <2>2 DEF IInv, TypeOK, Typed, BufferHandles, Batches
  <2>4. \A i \in Inputs \ todo' : content'[<<i, workspace.of>>] = {batch}
    BY <2>1, <2>2, <2>3 DEF IInv, Data
  <2>5. todo' \subseteq Inputs
    BY <2>1, <2>2
  <2>6. CASE todo' = {}
    BY <2>1, <2>2, <2>4, <2>6 DEF Data, Executing
  <2>7. CASE todo' # {}
    BY <2>1, <2>2, <2>4, <2>5, <2>7 DEF Data, Executing
  <2> QED BY <2>6, <2>7
<1> QED BY <1>1, <1>2, <1>3, <1>4, <1>5, <1>6 DEF IInv

\* An output is copied; the last one ends the work of the batch.
LEMMA CopyOutStep ==
  ASSUME IInv, NEW b \in Buffers, CopyOut(b)
  PROVE  IInv'
<1> USE Kindred
<1>0. Typed
  BY DEF IInv, TypeOK, Typed, Handles, Batches
<1>1. TypeOK'
  BY <1>0 DEF IInv, Typed, TypeOK, Shape, BufferHandles, Dropping, CopyOut, objects, device
<1>2. Counted'
  BY DEF IInv, Counted, Executing, CopyOut
<1>3. Shape'
  <2>1. /\ pc = "copy_out" /\ workspace # None /\ workspace.plan = plan
        /\ owned = Base
        /\ UNCHANGED <<caller, batch, plan, owned>>
    BY DEF IInv, Shape, CopyOut, Marks, Executing, objects
  <2>2. CASE todo' # {}
    <3>1. UNCHANGED <<pc, workspace>>
      BY <2>2 DEF CopyOut
    <3> QED BY <2>1, <3>1 DEF Shape, Executing, Base, Home, Marks
  <2>3. CASE todo' = {} /\ caller = "router"
    <3>1. pc' = "free" /\ workspace' = None
      BY <2>3 DEF CopyOut
    <3>2. Base' \subseteq owned /\ owned \ Base' \subseteq Buffers \X {workspace.of}
      BY <2>1, <3>1 DEF Base, Home
    <3>3. workspace.of \in Batches
      BY <1>0, <2>1 DEF Typed, Batches
    <3>4. owned' \ Base' \subseteq Buffers \X Batches
      BY <2>1, <3>2, <3>3
    <3> QED BY <2>1, <3>1, <3>2, <3>4 DEF Shape, Executing
  <2>4. CASE todo' = {} /\ caller = "executor"
    <3>1. pc' = "idle" /\ UNCHANGED workspace
      BY <2>4 DEF CopyOut
    <3>2. Kept' = Base
      BY <2>1, <2>4, <3>1 DEF Kept, Base, Home
    <3> QED BY <2>1, <2>4, <3>1, <3>2 DEF Shape, Executing
  <2> QED BY <1>0, <2>2, <2>3, <2>4 DEF Typed
<1>4. Contexts'
  BY DEF IInv, Contexts, Home, CopyOut, objects
<1>5. OwnedIsAlive' /\ NoStrays'
  BY DEF IInv, OwnedIsAlive, CopyOut, objects, NoStrays
<1>6. Data'
  BY DEF IInv, Data, Executing, CopyOut, device
<1> QED BY <1>1, <1>2, <1>3, <1>4, <1>5, <1>6 DEF IInv

\* The stream or an event is created.
LEMMA CreateStep ==
  ASSUME IInv, NEW kind, NEW next,
         <<kind, next>> \in { <<"stream", "start">>, <<"start", "stop">>, <<"stop", "function">> },
         CreateFor(kind, next)
  PROVE  IInv'
<1> USE Kindred
<1>1. TypeOK'
  BY DEF IInv, TypeOK, Handles, Kinds, Executing, CreateFor, Create, New, device
<1>2. Counted'
  BY DEF IInv, Counted, Executing, CreateFor
<1>3. Shape'
  BY DEF IInv, Shape, Base, Home, Marks, Executing, CreateFor, Create, New
<1>4. Contexts'
  BY DEF IInv, Contexts, Shape, Base, Home, Executing, CreateFor, Create, New
<1>5. OwnedIsAlive' /\ NoStrays'
  BY DEF IInv, OwnedIsAlive, CreateFor, Create, New, NoStrays
<1>6. Data'
  BY DEF IInv, Data, Executing, CreateFor, device
<1> QED BY <1>1, <1>2, <1>3, <1>4, <1>5, <1>6 DEF IInv

\* The function is looked up, an event recorded, the time read.
LEMMA MarkStep ==
  ASSUME IInv, NEW here, NEW next,
         <<here, next>> \in { <<"function", "record_start">>, <<"record_start", "launch">>,
                              <<"record_stop", "synchronize">>, <<"elapsed", "destroy_stop">> },
         Mark(here, next)
  PROVE  IInv'
<1> USE Kindred
<1>1. TypeOK'
  BY DEF IInv, TypeOK, Executing, Mark, objects, device
<1>2. Counted'
  BY DEF IInv, Counted, Executing, Mark
<1>3. Shape'
  BY DEF IInv, Shape, Base, Home, Marks, Executing, Mark, objects
<1>4. Contexts'
  BY DEF IInv, Contexts, Home, Mark, objects
<1>5. OwnedIsAlive' /\ NoStrays'
  BY DEF IInv, OwnedIsAlive, Mark, objects, NoStrays
<1>6. Data'
  BY DEF IInv, Data, Executing, Mark, device
<1> QED BY <1>1, <1>2, <1>3, <1>4, <1>5, <1>6 DEF IInv

\* The kernel starts.
LEMMA LaunchStep ==
  ASSUME IInv, Launch
  PROVE  IInv'
<1> USE Kindred
<1>0. Typed
  BY DEF IInv, TypeOK, Typed, Handles, Batches
<1>1. TypeOK'
  BY DEF IInv, TypeOK, Shape, Batches, Executing, Launch, objects
<1>2. Counted'
  BY DEF IInv, Counted, Executing, Launch
<1>3. Shape'
  BY DEF IInv, Shape, Base, Home, Marks, Executing, Launch, objects
<1>4. Contexts'
  BY DEF IInv, Contexts, Home, Launch, objects
<1>5. OwnedIsAlive' /\ NoStrays'
  BY DEF IInv, OwnedIsAlive, Launch, objects, NoStrays
<1>6. Data'
  BY <1>0 DEF IInv, Typed, Data, Shape, Executing, Launch
<1> QED BY <1>1, <1>2, <1>3, <1>4, <1>5, <1>6 DEF IInv

\* The kernel has ended when the host goes on.
LEMMA SynchronizeStep ==
  ASSUME IInv, Synchronize
  PROVE  IInv'
<1> USE Kindred
<1>1. TypeOK'
  BY DEF IInv, TypeOK, Executing, Synchronize, objects, device
<1>2. Counted'
  BY DEF IInv, Counted, Executing, Synchronize
<1>3. Shape'
  BY DEF IInv, Shape, Base, Home, Marks, Executing, Synchronize, objects
<1>4. Contexts'
  BY DEF IInv, Contexts, Home, Synchronize, objects
<1>5. OwnedIsAlive' /\ NoStrays'
  BY DEF IInv, OwnedIsAlive, Synchronize, objects, NoStrays
<1>6. Data'
  BY DEF IInv, Data, Executing, Synchronize, device
<1> QED BY <1>1, <1>2, <1>3, <1>4, <1>5, <1>6 DEF IInv

\* The stream or an event is destroyed, or kept for the unwinding.
LEMMA DestroyStep ==
  ASSUME IInv, NEW kind, NEW here, NEW next, NEW then,
         <<kind, here, next, then>> \in { <<"stop", "destroy_stop", "destroy_start", {}>>,
           <<"start", "destroy_start", "destroy_stream", {}>>,
           <<"stream", "destroy_stream", "copy_out", Outputs>> },
         Destroy(kind, here, next, then)
  PROVE  IInv'
<1> USE Kindred
<1>0. Typed
  BY DEF IInv, TypeOK, Typed, Handles, Batches
<1>1. TypeOK'
  <2>1. owned' \subseteq Handles /\ alive' \subseteq Handles
    BY DEF IInv, TypeOK, Destroy, Accepts, Refuses
  <2>2. refused' \subseteq Handles
    BY <1>0 DEF IInv, Typed, TypeOK, Handles, Kinds, Destroy, Accepts, Refuses, New
  <2>3. /\ pc' \in {"destroy_start", "destroy_stream", "copy_out", "shutdown", "unwind"}
        /\ todo' \subseteq Buffers /\ result' \in {"none", "ok", "error"}
        /\ workspace' \in {workspace, None}
    BY DEF IInv, TypeOK, Destroy, Return
  <2>4. UNCHANGED <<caller, batch, plan, output, refs, content, kernel, faulted>>
    BY DEF Destroy, Return, device
  <2> QED BY <2>1, <2>2, <2>3, <2>4 DEF IInv, TypeOK, Executing, Dropping
<1>2. Counted'
  BY DEF IInv, Counted, Executing, Destroy, Return
<1>3. Shape'
  BY DEF IInv, Shape, Counted, Base, Home, Marks, Kept, Executing, Destroy, Return, New
<1>4. Contexts'
  BY DEF IInv, Contexts, Home, Destroy, Return, New
<1>5. OwnedIsAlive' /\ NoStrays'
  BY DEF IInv, OwnedIsAlive, Destroy, Accepts, Refuses, NoStrays
<1>6. Data'
  BY DEF IInv, Data, Executing, Destroy, Return, device
<1> QED BY <1>1, <1>2, <1>3, <1>4, <1>5, <1>6 DEF IInv

\* The module is unloaded and the router answers, or not.
LEMMA UnloadStep ==
  ASSUME IInv, Unload
  PROVE  IInv'
<1> USE Kindred
<1>0. Typed
  BY DEF IInv, TypeOK, Typed, Handles, Batches
<1>1. TypeOK'
  <2>1. owned' \subseteq Handles /\ alive' \subseteq Handles
    BY DEF IInv, TypeOK, Unload, Accepts, Refuses
  <2>2. refused' \subseteq Handles
    BY <1>0 DEF IInv, Typed, TypeOK, Handles, Kinds, Unload, Accepts,
      Refuses, New
  <2>3. /\ pc' \in {"shutdown", "unwind"}
        /\ todo' \subseteq Buffers /\ result' \in {"none", "ok", "error"}
        /\ workspace' \in {workspace, None}
    BY DEF IInv, TypeOK, Unload, Return
  <2>4. UNCHANGED <<caller, batch, plan, output, refs, content, kernel, faulted>>
    BY DEF Unload, Return, device
  <2> QED BY <2>1, <2>2, <2>3, <2>4 DEF IInv, TypeOK, Dropping
<1>2. Counted'
  BY DEF IInv, Counted, Unload, Return
<1>3. Shape'
  BY DEF IInv, Shape, Base, Home, Kept, Executing, Unload, Return, New
<1>4. Contexts'
  BY DEF IInv, Contexts, Home, Unload, Return, New
<1>5. OwnedIsAlive' /\ NoStrays'
  BY DEF IInv, OwnedIsAlive, Unload, Accepts, Refuses, NoStrays
<1>6. Data'
  BY DEF IInv, Data, Executing, Unload, Return, device
<1> QED BY <1>1, <1>2, <1>3, <1>4, <1>5, <1>6 DEF IInv

\* A call fails.
LEMMA CallFailsStep ==
  ASSUME IInv, CallFails
  PROVE  IInv'
<1> USE Kindred
<1>0. Typed
  BY DEF IInv, TypeOK, Typed, Handles, Batches
<1>1. TypeOK'
  BY DEF IInv, TypeOK, Dropping, CallFails, Return, objects, device
<1>2. Counted'
  BY <1>0 DEF IInv, Typed, Counted, Executing, CallFails, Return
<1>3. Shape'
  BY <1>0 DEF IInv, Typed, Shape, Counted, Base, Home, Kept, Executing, CallFails, Return,
     objects
<1>4. Contexts'
  BY DEF IInv, Contexts, Home, CallFails, Return, objects
<1>5. OwnedIsAlive' /\ NoStrays'
  BY DEF IInv, OwnedIsAlive, CallFails, objects, NoStrays
<1>6. Data'
  BY DEF IInv, Data, Executing, CallFails, Return
<1> QED BY <1>1, <1>2, <1>3, <1>4, <1>5, <1>6 DEF IInv

\* A scope is left.
LEMMA DroppedStep ==
  ASSUME IInv, Dropped
  PROVE  IInv'
<1> USE Kindred
<1>0. Typed
  BY DEF IInv, TypeOK, Typed, Handles, Batches
<1>1. TypeOK'
  BY DEF IInv, TypeOK, Executing, Dropping, Dropped, device
<1>2. Counted'
  BY DEF IInv, Counted, Executing, Dropped, Dropping
<1>3. Shape'
  <2>1. /\ Doomed = {} /\ pc \in Dropping
        /\ UNCHANGED <<caller, batch, plan, workspace, owned>>
        /\ todo' = IF pc = "replace" THEN Inputs ELSE {}
    BY DEF Dropped
  <2>2. CASE pc = "replace"
    <3>1. pc' = "copy_in" /\ workspace = [of |-> batch, plan |-> plan] /\ workspace # None
      BY <1>0, <2>2 DEF Dropped, IInv, Shape, Counted, Typed
    <3>2. \A h \in owned : h[1] \in Buffers => h[2] = batch
      BY <2>1, <2>2 DEF Doomed
    <3>3. owned = Base
      BY <1>0, <2>2, <3>2 DEF IInv, Shape, Typed
    <3> QED BY <2>1, <3>1, <3>3 DEF Shape, Executing, Base, Home, Marks
  <2>3. CASE pc = "free"
    <3>1. pc' = "unload" /\ workspace = None
      BY <2>3 DEF Dropped, IInv, Shape
    <3>2. \A h \in owned : h[1] \notin Buffers
      BY <2>1, <2>3 DEF Doomed
    <3>3. owned = Base
      <4>1. Base \subseteq owned /\ owned \ Base \subseteq Buffers \X Batches
        BY <2>3 DEF IInv, Shape
      <4>2. \A h \in Buffers \X Batches : h[1] \in Buffers
        OBVIOUS
      <4> QED BY <3>2, <4>1, <4>2
    <3> QED BY <2>1, <3>1, <3>3 DEF Shape, Executing, Base, Home
  <2>4. CASE pc = "unwind"
    <3>1. pc' = "idle" /\ (caller = "router" => workspace = None)
      BY <2>4 DEF Dropped, IInv, Shape
    <3>2. owned = Kept
      BY <2>1, <2>4 DEF Doomed, IInv, Shape
    <3> QED BY <2>1, <3>1, <3>2 DEF Shape, Executing, Kept
  <2>5. CASE pc = "shutdown"
    <3>1. pc' = "stopped"
      BY <2>5 DEF Dropped
    <3>2. owned = {}
      BY <2>1, <2>5 DEF Doomed
    <3> QED BY <2>1, <3>1, <3>2 DEF Shape, Executing
  <2> QED BY <2>1, <2>2, <2>3, <2>4, <2>5 DEF Dropping
<1>4. Contexts'
  BY DEF IInv, Contexts, Home, Dropped
<1>5. OwnedIsAlive' /\ NoStrays'
  BY DEF IInv, OwnedIsAlive, Dropped, NoStrays
<1>6. Data'
  BY DEF IInv, Data, Executing, Dropped, Dropping, device
<1> QED BY <1>1, <1>2, <1>3, <1>4, <1>5, <1>6 DEF IInv

\* An object is dropped.
LEMMA DropObjectStep ==
  ASSUME IInv, NEW h \in owned, DropObject(h)
  PROVE  IInv'
<1> USE Kindred
<1>1. TypeOK'
  BY DEF IInv, TypeOK, Garbage, DropObject, call
<1>2. Counted'
  BY DEF IInv, Counted, DropObject, call
<1>3. Shape'
  BY DEF IInv, Shape, Base, Home, Kept, Executing, DropObject, IsNext, Doomed, call
<1>4. Contexts'
  BY DEF IInv, Contexts, Home, DropObject, call
<1>5. OwnedIsAlive' /\ NoStrays'
  BY DEF IInv, OwnedIsAlive, DropObject, NoStrays
<1>6. Data'
  BY DEF IInv, Data, Executing, DropObject, IsNext, Doomed, call
<1> QED BY <1>1, <1>2, <1>3, <1>4, <1>5, <1>6 DEF IInv

\* The context is given back, when nothing else is left in its scope.
LEMMA DropContextStep ==
  ASSUME IInv, NEW h \in owned, DropContext(h)
  PROVE  IInv'
<1> USE Kindred
<1>1. TypeOK'
  BY DEF IInv, TypeOK, DropContext, GivenBack, call, device
<1>2. Counted'
  BY DEF IInv, Counted, DropContext, call
<1>3. Shape'
  BY DEF IInv, Shape, Base, Home, Marks, Kept, DropContext, IsNext, Doomed, call
<1>4. Contexts'
  <2>1. h = <<"context", Home>> /\ h \in Doomed /\ owned' = owned \ {h}
    BY DEF IInv, Contexts, DropContext, IsNext
  <2>2. \A g \in Doomed : g[1] \in {"library", "context"}
    BY <2>1 DEF DropContext, IsNext, Rank
  <2>3. owned \subseteq Doomed
    <3>1. h[1] = "context" /\ h[1] \notin Buffers /\ pc \in Dropping
      BY <2>1, Kindred DEF DropContext
    <3>2. pc \in {"unwind", "shutdown"}
      BY <2>1, <3>1 DEF Doomed, Dropping
    <3>3. pc = "unwind" => caller = "router"
      BY <2>1 DEF Doomed, Home, Kept
    <3> QED BY <3>2, <3>3 DEF Doomed, Kept
  <2>4. \A g \in owned : g[1] \in {"library", "context"}
    BY <2>2, <2>3
  <2>5. Home' = Home
    BY DEF Home, DropContext, call
  <2>6. <<"library", Home>> \in owned'
    <3>1. <<"library", Home>> \in owned
      BY DEF IInv, Contexts
    <3>2. <<"library", Home>> # h
      BY <2>1
    <3> QED BY <2>1, <3>1, <3>2
  <2> QED BY <2>1, <2>4, <2>5, <2>6 DEF IInv, Contexts
<1>5. OwnedIsAlive' /\ NoStrays'
  BY DEF IInv, OwnedIsAlive, DropContext, NoStrays
<1>6. Data'
  BY DEF IInv, Data, DropContext, call, device
<1> QED BY <1>1, <1>2, <1>3, <1>4, <1>5, <1>6 DEF IInv

\* The library is closed, when nothing at all is left in its scope.
LEMMA DropLibraryStep ==
  ASSUME IInv, NEW h \in owned, DropLibrary(h)
  PROVE  IInv'
<1> USE Kindred
<1>1. TypeOK'
  BY DEF IInv, TypeOK, DropLibrary, call, device
<1>2. Counted'
  BY DEF IInv, Counted, DropLibrary, call
<1>3. Shape'
  BY DEF IInv, Shape, Base, Home, Marks, Kept, DropLibrary, IsNext, Doomed, call
<1>4. Contexts'
  BY DEF IInv, Contexts, Home, Kept, DropLibrary, IsNext, Doomed, Rank, call
<1>5. OwnedIsAlive' /\ NoStrays'
  BY DEF IInv, OwnedIsAlive, DropLibrary, NoStrays
<1>6. Data'
  BY DEF IInv, Data, DropLibrary, call, device
<1> QED BY <1>1, <1>2, <1>3, <1>4, <1>5, <1>6 DEF IInv

\* The executor is let go.
LEMMA ShutdownStep ==
  ASSUME IInv, Shutdown
  PROVE  IInv'
<1> USE Kindred
<1>1. TypeOK'
  BY DEF IInv, TypeOK, Dropping, Shutdown, objects, device
<1>2. Counted'
  BY DEF IInv, Counted, Executing, Shutdown
<1>3. Shape'
  BY DEF IInv, Shape, Executing, Shutdown
<1>4. Contexts'
  BY DEF IInv, Contexts, Home, Shutdown, objects
<1>5. OwnedIsAlive' /\ NoStrays'
  BY DEF IInv, OwnedIsAlive, Shutdown, objects, NoStrays
<1>6. Data'
  BY DEF IInv, Data, Executing, Shutdown
<1> QED BY <1>1, <1>2, <1>3, <1>4, <1>5, <1>6 DEF IInv

\* The kernel has written its outputs.
LEMMA KernelEndsStep ==
  ASSUME IInv, KernelEnds
  PROVE  IInv'
<1> USE Kindred
<1>0. Typed
  BY DEF IInv, TypeOK, Typed, Handles, Batches
<1>1. TypeOK'
  <2>1. kernel \in Batches
    BY DEF IInv, TypeOK, KernelEnds, Batches, Kindred
  <2>2. \A i \in Inputs : content[<<i, kernel>>] \subseteq 0..MaxBatches
    BY <2>1 DEF IInv, TypeOK, BufferHandles
  <2>3. UNION { content[<<i, kernel>>] : i \in Inputs } \in SUBSET (0..MaxBatches)
    BY <2>2
  <2>4. content' \in [BufferHandles -> SUBSET (0..MaxBatches)]
    BY <2>3 DEF IInv, TypeOK, KernelEnds
  <2>5. kernel' \in 0..MaxBatches /\ UNCHANGED <<caller, call, objects, faulted>>
    BY DEF KernelEnds
  <2> QED BY <2>4, <2>5 DEF IInv, TypeOK, call, objects
<1>2. Counted'
  BY DEF IInv, Counted, KernelEnds, call
<1>3. Shape'
  BY DEF IInv, Shape, Base, Home, Marks, Kept, KernelEnds, call, objects
<1>4. Contexts'
  BY DEF IInv, Contexts, Home, KernelEnds, call, objects
<1>5. OwnedIsAlive' /\ NoStrays'
  BY DEF IInv, OwnedIsAlive, KernelEnds, objects, NoStrays
<1>6. Data'
  <2>1. /\ kernel # 0 /\ kernel' = 0
        /\ UNCHANGED <<batch, pc, todo, result, output, workspace, faulted>>
    BY DEF KernelEnds, call
  <2>2. ASSUME NEW i \in Inputs, workspace # None
        PROVE  content'[<<i, workspace.of>>] = content[<<i, workspace.of>>]
    BY <1>0, <2>2 DEF KernelEnds, BufferHandles, Batches, Typed
  <2>3. CASE pc \in {"record_stop", "synchronize"}
    <3>1. workspace # None /\ kernel = workspace.of
      BY <2>1, <2>3 DEF IInv, Data, Shape, Executing
    <3>2. \A i \in Inputs : content[<<i, kernel>>] = {batch}
      BY <2>3, <3>1 DEF IInv, Data, Executing
    <3>3. UNION { content[<<i, kernel>>] : i \in Inputs } = {batch}
      BY <3>2
    <3>4. \A o \in Outputs : content'[<<o, workspace.of>>] = {batch}
      <4>1. SUFFICES ASSUME NEW o \in Outputs
                     PROVE  content'[<<o, kernel>>] = {batch}
        BY <3>1
      <4>2. <<o, kernel>> \in BufferHandles
        BY <1>0, <3>1 DEF BufferHandles, Batches, Typed
      <4> QED BY <3>3, <4>2 DEF KernelEnds
    <3> QED BY <2>1, <2>2, <2>3, <3>1, <3>2, <3>4 DEF IInv, Data, Executing
  <2>4. CASE pc \notin {"record_stop", "synchronize"}
    <3>1. pc \in Executing => pc = "copy_in" /\ todo = Inputs
      BY <2>1, <2>4 DEF IInv, Data, Executing
    <3> QED BY <2>1, <2>4, <3>1 DEF IInv, Data, Executing
  <2> QED BY <2>3, <2>4
<1> QED BY <1>1, <1>2, <1>3, <1>4, <1>5, <1>6 DEF IInv

\* The kernel faults.
LEMMA KernelFaultsStep ==
  ASSUME IInv, KernelFaults
  PROVE  IInv'
<1> USE Kindred
<1>1. TypeOK'
  BY DEF IInv, TypeOK, KernelFaults, call, objects
<1>2. Counted'
  BY DEF IInv, Counted, KernelFaults, call
<1>3. Shape'
  BY DEF IInv, Shape, Base, Home, Marks, Kept, KernelFaults, call, objects
<1>4. Contexts'
  BY DEF IInv, Contexts, Home, KernelFaults, call, objects
<1>5. OwnedIsAlive' /\ NoStrays'
  BY DEF IInv, OwnedIsAlive, KernelFaults, objects, NoStrays
<1>6. Data'
  BY DEF IInv, Data, KernelFaults, call
<1> QED BY <1>1, <1>2, <1>3, <1>4, <1>5, <1>6 DEF IInv

\* Nothing happens.
LEMMA IdleStep ==
  ASSUME IInv, UNCHANGED vars
  PROVE  IInv'
<1> USE Kindred
<1>1. TypeOK'
  BY DEF IInv, TypeOK, vars, call, objects, device
<1>2. Counted'
  BY DEF IInv, Counted, vars, call
<1>3. Shape'
  BY DEF IInv, Shape, Base, Home, Marks, Kept, vars, call, objects
<1>4. Contexts'
  BY DEF IInv, Contexts, Home, vars, call, objects
<1>5. OwnedIsAlive' /\ NoStrays'
  BY DEF IInv, OwnedIsAlive, vars, objects, NoStrays
<1>6. Data'
  BY DEF IInv, Data, vars, call, device
<1> QED BY <1>1, <1>2, <1>3, <1>4, <1>5, <1>6 DEF IInv

-----------------------------------------------------------------------------
\* Before the first call nothing is owned.
LEMMA NothingAtFirst == Init => IInv
<1> SUFFICES ASSUME Init PROVE IInv
  OBVIOUS
<1> USE Kindred
<1>1. TypeOK
  <2>1. 0 \in 0..MaxBatches /\ Garbage \in SUBSET (0..MaxBatches)
    BY DEF Garbage
  <2>2. content \in [BufferHandles -> SUBSET (0..MaxBatches)]
    BY <2>1 DEF Init
  <2>3. refs \in Nat
    BY CountAssumption DEF Init, CountAssumption
  <2>4. /\ batch \in 0..MaxBatches /\ kernel \in 0..MaxBatches
        /\ plan \in Plans \cup {None} /\ workspace = None
        /\ caller \in {"router", "executor"} /\ pc \in {"idle", "open"}
        /\ todo = {} /\ output = {} /\ owned = {} /\ alive = {} /\ refused = {}
        /\ result = "none" /\ faulted = FALSE
    BY <2>1 DEF Init
  <2> QED BY <2>2, <2>3, <2>4 DEF TypeOK
<1>2. Counted /\ Shape
  BY DEF Init, Counted, Shape, Executing, Kept
<1>3. Contexts /\ OwnedIsAlive /\ NoStrays
  BY DEF Init, Contexts, OwnedIsAlive, NoStrays
<1>4. Data
  BY DEF Init, Data, Executing
<1> QED BY <1>1, <1>2, <1>3, <1>4 DEF IInv

\* No step of the code or of the driver breaks the invariant.
LEMMA EveryStep == IInv /\ [Next]_vars => IInv'
<1> SUFFICES ASSUME IInv, [Next]_vars PROVE IInv'
  OBVIOUS
<1>1. CASE Route
  <2>1. CASE \E p \in Plans : Begin(p)
    BY <2>1, BeginStep
  <2>2. CASE OpenLibrary \/ Initialize \/ InitializeAborts \/ LoadModule \/ TakeWorkspace
    BY <2>2, OpenLibraryStep, InitializeStep, InitializeAbortsStep, LoadModuleStep, TakeWorkspaceStep
  <2>3. CASE \E b \in Buffers : Allocate(b) \/ CopyIn(b) \/ CopyOut(b)
    BY <2>3, AllocateStep, CopyInStep, CopyOutStep
  <2>4. CASE \/ CreateFor("stream", "start") \/ CreateFor("start", "stop")
             \/ CreateFor("stop", "function")
    BY <2>4, CreateStep
  <2>5. CASE \/ Mark("function", "record_start") \/ Mark("record_start", "launch")
             \/ Mark("record_stop", "synchronize") \/ Mark("elapsed", "destroy_stop")
    BY <2>5, MarkStep
  <2>6. CASE Launch \/ Synchronize \/ Unload
    BY <2>6, LaunchStep, SynchronizeStep, UnloadStep
  <2>7. CASE \/ Destroy("stop", "destroy_stop", "destroy_start", {})
             \/ Destroy("start", "destroy_start", "destroy_stream", {})
             \/ Destroy("stream", "destroy_stream", "copy_out", Outputs)
    BY <2>7, DestroyStep
  <2> QED BY <1>1, <2>1, <2>2, <2>3, <2>4, <2>5, <2>6, <2>7 DEF Route
<1>2. CASE CallFails \/ Shutdown
  BY <1>2, CallFailsStep, ShutdownStep
<1>3. CASE Release
  BY <1>3, DroppedStep, DropObjectStep, DropContextStep, DropLibraryStep DEF Release
<1>4. CASE Driver
  BY <1>4, KernelEndsStep, KernelFaultsStep DEF Driver
<1>5. CASE UNCHANGED vars
  BY <1>5, IdleStep
<1> QED BY <1>1, <1>2, <1>3, <1>4, <1>5 DEF Next

\* The inductive invariant, for any buffers, shapes and number of batches, and
\* for every combination of calls that fail.
THEOREM CudaInvariant == Spec => []IInv
<1> QED BY NothingAtFirst, EveryStep, PTL DEF Spec

\* Type correctness.
THEOREM CudaTypeCorrect == Spec => []TypeOK
<1>1. IInv => TypeOK
  BY DEF IInv
<1> QED BY <1>1, CudaInvariant, PTL

\* What the driver still has is owned or was refused; nothing but what is kept is
\* owned between batches, and nothing after the shutdown.
THEOREM CudaNothingLeaks == Spec => []NothingLeaks
<1>1. IInv => NothingLeaks
  BY DEF IInv, NoStrays, Shape, NothingLeaks
<1> QED BY <1>1, CudaInvariant, PTL

\* No handle is used or released after its object is gone, unless a destroy of it
\* was refused.
THEOREM CudaOwnedIsAlive == Spec => []OwnedIsAlive
<1>1. IInv => OwnedIsAlive
  BY DEF IInv
<1> QED BY <1>1, CudaInvariant, PTL

\* The reference to the context is given back after everything made in it, and the
\* library is closed last.
THEOREM CudaContextOutlives == Spec => []ContextOutlivesObjects
<1>1. IInv => ContextOutlivesObjects
  <2>1. ASSUME IInv, NEW h \in owned, h[1] \notin {"library", "context"}
        PROVE  refs > 0 /\ \E g \in owned : g[1] = "context"
    <3>1. <<"context", Home>> \in owned /\ refs > 0
      BY <2>1 DEF IInv, Contexts
    <3> QED BY <3>1
  <2>2. ASSUME IInv, owned # {} PROVE \E g \in owned : g[1] = "library"
    <3>1. <<"library", Home>> \in owned
      BY <2>2 DEF IInv, Contexts
    <3> QED BY <3>1
  <2> QED BY <2>1, <2>2 DEF ContextOutlivesObjects
<1> QED BY <1>1, CudaInvariant, PTL

\* Executing steps find a workspace of the shape of their batch.
THEOREM CudaWorkspaceFits == Spec => []WorkspaceFits
<1>1. IInv => WorkspaceFits
  BY DEF IInv, Shape, Base, WorkspaceFits
<1> QED BY <1>1, CudaInvariant, PTL

\* An answer is of its own batch's data, from a kernel that has ended.
THEOREM CudaAnswersOwnBatch == Spec => []AnswersOwnBatch
<1>1. IInv => AnswersOwnBatch
  BY DEF IInv, Data, AnswersOwnBatch
<1> QED BY <1>1, CudaInvariant, PTL

-----------------------------------------------------------------------------
(* What a launch touches. *)


LEMMA RemainderBounds ==
  ASSUME NEW n \in Nat, NEW m \in Nat \ {0}
  PROVE  n % m \in Nat /\ n % m <= n /\ n % m < m /\ (n < m => n % m = n)
  OBVIOUS

LEMMA ProductMonotone ==
  ASSUME NEW i \in Nat, NEW n \in Nat, NEW d \in Nat, i <= n
  PROVE  i * d \in Nat /\ n * d \in Nat /\ i * d <= n * d
<1>1. n * d - i * d = (n - i) * d
  OBVIOUS
<1>2. (n - i) \in Nat /\ (n - i) * d \in Nat
  OBVIOUS
<1> QED
  BY <1>1, <1>2

LEMMA PackedInside ==
  ASSUME NEW i \in Nat, NEW n \in Nat, NEW d \in Nat, NEW j \in 0 .. d - 1, i < n
  PROVE  i * d + j < n * d
<1>1. (i + 1) * d <= n * d
  BY ProductMonotone
<1>2. (i + 1) * d = i * d + d
  OBVIOUS
<1>3. i * d \in Nat /\ n * d \in Nat
  BY ProductMonotone
<1> QED
  BY <1>1, <1>2, <1>3

LEMMA BlocksCover ==
  ASSUME NEW n \in Nat, NEW m \in Nat \ {0}
  PROVE  /\ n \div m \in Nat /\ n % m \in 0 .. m - 1
         /\ n = m * (n \div m) + (n % m)
  OBVIOUS


LEMMA DivideProduct ==
  ASSUME NEW a \in Nat, NEW b \in Nat, NEW m \in Nat \ {0}, m * a < m * b
  PROVE  a < b
<1>1. SUFFICES ASSUME b <= a PROVE FALSE
  OBVIOUS
<1>2. b * m <= a * m
  BY <1>1, ProductMonotone
<1> QED
  BY <1>2

-----------------------------------------------------------------------------
(* Vectors. *)

\* An offset never goes beyond the vector's own place, so what is read there is
\* inside the buffer, wrapped or not.
LEMMA OffsetInside ==
  ASSUME NEW s \in BatchShape, NEW n \in Nat, NEW i \in 0 .. n - 1,
         NEW j \in 0 .. s.dimensions - 1
  PROVE  Offset(i, s) + j \in 0 .. n * s.dimensions - 1
<1>1. s.dimensions \in Nat /\ i \in Nat
  BY DEF BatchShape
<1>2. i * s.dimensions \in Nat /\ n * s.dimensions \in Nat
  BY <1>1, ProductMonotone
<1>3. i * s.dimensions + j < n * s.dimensions
  BY <1>1, PackedInside
<1>4. Offset(i, s) \in Nat /\ Offset(i, s) <= i * s.dimensions
  BY <1>2, RemainderBounds, WidthAssumption DEF Offset
<1> QED
  BY <1>1, <1>2, <1>3, <1>4

LEMMA OffsetExact ==
  ASSUME NEW s \in BatchShape, NEW n \in Nat
  PROVE  FindsVectors(n, s, s)
<1> SUFFICES ASSUME (n - 1) * s.dimensions < U32Modulus, NEW i \in 0 .. n - 1
             PROVE  Offset(i, s) = i * s.dimensions
  BY DEF FindsVectors
<1>1. s.dimensions \in Nat /\ i \in Nat /\ n - 1 \in Nat /\ i <= n - 1
  BY DEF BatchShape
<1>2. i * s.dimensions \in Nat /\ i * s.dimensions <= (n - 1) * s.dimensions
  BY <1>1, ProductMonotone
<1>3. (n - 1) * s.dimensions \in Nat
  BY <1>1, ProductMonotone
<1>4. i * s.dimensions < U32Modulus
  BY <1>2, <1>3, WidthAssumption
<1> QED
  BY <1>2, <1>4, RemainderBounds, WidthAssumption DEF Offset

LEMMA LaunchStaysInside ==
  ASSUME NEW s \in BatchShape, TakenAsArgs(s)
  PROVE  StaysInside(s)
<1> SUFFICES ASSUME NEW r \in 0 .. s.requests - 1, NEW b \in DOMAIN Length(s)
             PROVE  Touched(r, s)[b] \subseteq 0 .. Length(s)[b] - 1
  BY DEF StaysInside
<1>1. /\ s.agents \in Nat /\ s.requests \in Nat /\ s.dimensions \in Nat /\ s.k = 1
      /\ s.requests * s.k = s.requests
  BY DEF BatchShape, TakenAsArgs
<1>2. CASE b = "agent_vectors"
  <2>1. \A a \in 0 .. s.agents - 1, d \in 0 .. s.dimensions - 1 :
          Offset(a, s) + d \in 0 .. s.agents * s.dimensions - 1
    BY <1>1, OffsetInside
  <2>2. Touched(r, s)[b] = { Offset(a, s) + d : a \in 0 .. s.agents - 1, d \in 0 .. s.dimensions - 1 }
    BY <1>2 DEF Touched
  <2>3. Length(s)[b] = s.agents * s.dimensions
    BY <1>2 DEF Length
  <2> QED
    BY <2>1, <2>2, <2>3
<1>3. CASE b = "request_vectors"
  <2>1. \A d \in 0 .. s.dimensions - 1 :
          Offset(r, s) + d \in 0 .. s.requests * s.dimensions - 1
    BY <1>1, OffsetInside
  <2>2. Touched(r, s)[b] = { Offset(r, s) + d : d \in 0 .. s.dimensions - 1 }
    BY <1>3 DEF Touched
  <2>3. Length(s)[b] = s.requests * s.dimensions
    BY <1>3 DEF Length
  <2> QED
    BY <2>1, <2>2, <2>3
<1>4. CASE b \in {"agent_ids", "agent_score_weights", "availability"}
  BY <1>1, <1>4 DEF Touched, Length
<1>5. CASE b \in {"output_agent_ids", "output_effective_distances",
                  "output_base_distances", "output_flags"}
  <2>1. Touched(r, s)[b] = {r}
    BY <1>5 DEF Touched
  <2>2. Length(s)[b] = s.requests
    BY <1>1, <1>5 DEF Length
  <2> QED
    BY <1>1, <2>1, <2>2
<1> QED
  BY <1>2, <1>3, <1>4, <1>5 DEF Length

-----------------------------------------------------------------------------
(* Threads. *)

LEMMA GridCovers ==
  ASSUME NEW n \in Nat, n < U32Modulus
  PROVE  /\ Grid(n) \in Nat \ {0}
         /\ n <= BlockDim * Grid(n) /\ BlockDim * Grid(n) <= U32Modulus
<1> DEFINE q == U32Modulus \div BlockDim
           g == (n + BlockDim - 1) \div BlockDim
<1>1. q \in Nat /\ U32Modulus = BlockDim * q
  BY BlocksCover, WidthAssumption
<1>2. q # 0 /\ BlockDim <= BlockDim * q
  <2>1. q # 0
    BY <1>1, WidthAssumption
  <2>2. 1 * BlockDim <= q * BlockDim
    BY <1>1, <2>1, ProductMonotone, WidthAssumption
  <2> QED
    BY <1>1, <2>1, <2>2, WidthAssumption
<1>3. CASE n = 0
  BY <1>1, <1>2, <1>3, WidthAssumption DEF Grid
<1>4. CASE n # 0
  <2>1. /\ g \in Nat /\ (n + BlockDim - 1) % BlockDim \in 0 .. BlockDim - 1
        /\ n + BlockDim - 1 = BlockDim * g + ((n + BlockDim - 1) % BlockDim)
    <3>1. n + BlockDim - 1 \in Nat
      BY WidthAssumption
    <3> QED
      BY <3>1, BlocksCover, WidthAssumption
  <2>2. BlockDim * g \in Nat /\ n <= BlockDim * g /\ BlockDim * g <= n + BlockDim - 1
    BY <2>1, WidthAssumption
  <2>3. g # 0
    BY <1>4, <2>1, <2>2, WidthAssumption
  <2>4. BlockDim * (q + 1) = U32Modulus + BlockDim
    BY <1>1, WidthAssumption
  <2>5. BlockDim * g < BlockDim * (q + 1)
    BY <2>2, <2>4, WidthAssumption
  <2>6. g < q + 1
    BY <1>1, <2>1, <2>5, DivideProduct, WidthAssumption
  <2>7. g * BlockDim <= q * BlockDim
    BY <1>1, <2>1, <2>6, ProductMonotone, WidthAssumption
  <2>8. BlockDim * g <= U32Modulus
    BY <1>1, <2>1, <2>7, WidthAssumption
  <2> QED
    BY <1>4, <2>1, <2>2, <2>3, <2>8 DEF Grid
<1> QED
  BY <1>3, <1>4

\* No index wraps: the grid ends at a whole block below 2^32.
LEMMA TaskIdxExact ==
  ASSUME NEW s \in BatchShape, TakenAsArgs(s), NEW t \in Threads(s)
  PROVE  /\ t[1] \in Nat /\ t[2] \in 0 .. BlockDim - 1 /\ t = <<t[1], t[2]>>
         /\ TaskIdx(t) = t[1] * BlockDim + t[2]
<1>1. s.requests \in Nat /\ s.requests < U32Modulus
  BY DEF BatchShape, TakenAsArgs
<1>2. Grid(s.requests) \in Nat /\ BlockDim * Grid(s.requests) <= U32Modulus
  BY <1>1, GridCovers
<1>3. t[1] \in 0 .. Grid(s.requests) - 1 /\ t[2] \in 0 .. BlockDim - 1 /\ t = <<t[1], t[2]>>
  BY DEF Threads
<1>4. t[1] * BlockDim + t[2] < Grid(s.requests) * BlockDim
  BY <1>2, <1>3, PackedInside, WidthAssumption
<1>5. t[1] * BlockDim \in Nat /\ Grid(s.requests) * BlockDim \in Nat
  BY <1>2, <1>3, ProductMonotone, WidthAssumption
<1>6. t[1] * BlockDim + t[2] \in Nat /\ t[1] * BlockDim + t[2] < U32Modulus
  BY <1>2, <1>3, <1>4, <1>5, WidthAssumption
<1> QED
  BY <1>3, <1>6, RemainderBounds, WidthAssumption DEF TaskIdx

LEMMA IndexUnique ==
  ASSUME NEW b \in Nat, NEW c \in Nat, NEW m \in Nat \ {0},
         NEW t \in 0 .. m - 1, NEW u \in 0 .. m - 1, b * m + t = c * m + u
  PROVE  b = c /\ t = u
<1>1. b * m \in Nat /\ c * m \in Nat
  BY ProductMonotone
<1>2. ~ b < c
  BY <1>1, PackedInside
<1>3. ~ c < b
  BY <1>1, PackedInside
<1> QED
  BY <1>1, <1>2, <1>3

LEMMA LaunchOneThreadEach ==
  ASSUME NEW s \in BatchShape, TakenAsArgs(s)
  PROVE  OneThreadEach(s, s)
<1>1. \A t \in Working(s) : TaskIdx(t) < s.requests
  BY DEF Working
<1>2. ASSUME NEW r \in 0 .. s.requests - 1
      PROVE  \E t \in Working(s) : \A u \in Working(s) : TaskIdx(u) = r <=> u = t
  <2> DEFINE t == <<r \div BlockDim, r % BlockDim>>
             g == Grid(s.requests)
  <2>1. s.requests \in Nat /\ s.requests < U32Modulus
    BY DEF BatchShape, TakenAsArgs
  <2>2. g \in Nat /\ s.requests <= BlockDim * g
    BY <2>1, GridCovers
  <2>3. /\ r \div BlockDim \in Nat /\ r % BlockDim \in 0 .. BlockDim - 1
        /\ r = BlockDim * (r \div BlockDim) + (r % BlockDim)
    <3>1. r \in Nat
      BY <2>1
    <3> QED
      BY <3>1, BlocksCover, WidthAssumption
  <2>4. BlockDim * (r \div BlockDim) < BlockDim * g
    BY <2>1, <2>2, <2>3, WidthAssumption
  <2>5. r \div BlockDim < g
    BY <2>2, <2>3, <2>4, DivideProduct, WidthAssumption
  <2>6. t \in Threads(s)
    BY <2>2, <2>3, <2>5 DEF Threads
  <2>7. TaskIdx(t) = r
    <3>1. TaskIdx(t) = (r \div BlockDim) * BlockDim + (r % BlockDim)
      BY <2>6, TaskIdxExact
    <3>2. (r \div BlockDim) * BlockDim = BlockDim * (r \div BlockDim)
      BY <2>3, WidthAssumption
    <3> QED
      BY <2>3, <3>1, <3>2
  <2>8. t \in Working(s)
    BY <2>1, <2>6, <2>7 DEF Working
  <2>9. ASSUME NEW u \in Working(s), TaskIdx(u) = r
        PROVE  u = t
    <3>1. u \in Threads(s)
      BY DEF Working
    <3>2. u[1] \in Nat /\ u[2] \in 0 .. BlockDim - 1 /\ u = <<u[1], u[2]>>
          /\ TaskIdx(u) = u[1] * BlockDim + u[2]
      BY <3>1, TaskIdxExact
    <3>3. TaskIdx(t) = t[1] * BlockDim + t[2]
      BY <2>6, TaskIdxExact
    <3>4. u[1] = t[1] /\ u[2] = t[2]
      BY <2>3, <2>7, <2>9, <3>2, <3>3, IndexUnique, WidthAssumption
    <3> QED
      BY <3>2, <3>4
  <2> QED
    BY <2>7, <2>8, <2>9
<1> QED
  BY <1>1, <1>2 DEF OneThreadEach

-----------------------------------------------------------------------------
\* A launch over a workspace of the batch's own shape serves the batch, for all
\* widths, block sizes and shapes the checks of the host let through.
THEOREM LaunchServes ==
  ASSUME NEW s \in Launched
  PROVE  Serves(s, s)
<1>1. s \in BatchShape /\ TakenAsArgs(s)
  BY ShapesAssumption DEF Launched, Launchable
<1>2. s.agents \in Nat /\ s.requests \in Nat
  BY <1>1 DEF BatchShape
<1>3. FindsVectors(s.agents, s, s) /\ FindsVectors(s.requests, s, s)
  BY <1>1, <1>2, OffsetExact
<1> QED
  BY <1>1, <1>3, LaunchStaysInside, LaunchOneThreadEach DEF Serves

\* However workspaces were kept and replaced, a launched kernel touches only the
\* buffers of its workspace, works once on each request of the batch, and finds all
\* vectors whose places 32 bits count.
THEOREM CudaKernelServesBatch == Spec => []KernelServesBatch
<1>1. WorkspaceFits => KernelServesBatch
  <2> SUFFICES ASSUME WorkspaceFits, pc = "record_stop", NEW own \in Launched
               PROVE  Serves(own, own)
    BY DEF WorkspaceFits, KernelServesBatch, Executing
  <2> QED
    BY LaunchServes
<1> QED
  BY <1>1, CudaWorkspaceFits, PTL
===============================================================================
