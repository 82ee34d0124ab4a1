# GraphEngine: a TLA+ verification project

GraphEngine (GE) sits between a front end (MindSpore, the TensorFlow adapter)
and the Ascend runtime. It takes graphs, optimises, partitions and builds them
into models, loads the models on a device and runs them. This project models
the stateful and concurrent parts of GE in TLA+, checks them on small instances
with TLC and proves central invariants and one refinement with TLAPS for every
instance.

Paths below are relative to `src/`. `PROJECT.json` lists every component, run,
mutant, finding, hazard and theorem, and maps each definition to source lines.

## 1. Inventory

### The graph manager (`ge/graph/manager/graph_manager.cc`)

One `GraphManager` per session. It owns

* `graph_map_` (graph id to `GraphNode`, a shared pointer), and per node the
  flags *run*, *build*, *load* and *async*, the built model (`ge_root_model`), a
  binary semaphore (`Lock`/`Unlock`) and a `RunAsyncListener`, which is a
  callback slot with a semaphore of its own;
* two bounded `BlockingQueue`s and two threads: `PreRunThread` takes a request
  from `prerun_args_q_`, locks the node, checks and sets the run flag, builds the
  graph if necessary and pushes it to `run_args_q_`; `RunThread` takes it from
  there, sets the callback, loads the model if necessary (which may first unload
  other graphs, `CheckAndReleaseMemory`), gives the data to the model and
  unlocks the node;
* the list of graphs to rebuild since a variable changed its format
  (`VarAccelerateCtrl`).

The model thread (`DavinciModel::Run`) computes and reports to the listener,
which calls the callback. Synchronous callers run in their own threads:
`AddGraph`, `RunGraph` (one at a time), `BuildGraph`, `RemoveGraph`, `Finalize`.

Hard behaviours: one critical section that starts in one thread and ends in
another with a queue in between; flags that are read and set under different
locks; error paths that stop both queues; unloading a model another thread uses;
a listener that is overwritten while an answer is under way; threads that wait
for each other at shutdown.

What should hold: a node serves one request at a time; a result goes to the
callback of its own request, once, and SUCCESS only if the model ran; requests
of one graph complete in order; none is lost; the flags tell the truth; every
accepted request is answered; `RunGraph` and `Finalize` return.

### The caching allocator (`ge/graph/manager/graph_caching_allocator.cc`)

Device memory for dynamic shapes. Regions of fixed sizes are taken from the
runtime, cut into blocks that are linked in address order and kept in bins of
free blocks ordered by size and address. `Malloc` finds, splits, or extends the
cache (after giving cached regions back if the runtime has no memory), `Free`
merges with both neighbours. One recursive mutex, not held over all of `Malloc`.

Hard behaviours: long sequences of splits and merges on a linked structure;
threads that interleave inside `Malloc`; failures of `rtFree` and `new` half way.

What should hold: no byte belongs to two callers; links and bins are sound; free
neighbours are merged; every region is accounted for and returned at the end.

### The hybrid executors (`ge/hybrid/executor/`)

Dynamic-shape graphs. `SubgraphExecutor` runs a graph once: a preparation thread, a
pool that infers shapes and compiles, the launching caller and a callback thread are
joined by a ready queue, shape futures, `NodeDoneManager` and a callback queue.
`HybridModelPipelineExecutor` runs a graph of several stages for several
iterations on a ring of stage executors, each with a thread, a queue and a context.
`HybridModelAsyncExecutor` is the loaded model: a data queue, one thread and a
listener, on top of either.

Hard behaviours: everyone waits for somebody else's result; cancellation on error;
state that survives a run; executors that hand tasks round a ring while the caller
is still filling it; Stop while a call runs.

What should hold: nothing is used before it is valid; nothing outlives its run;
stages take the iterations in order and in their own context; inputs are answered
once and in order; calls return.

### Sessions and the library (`ge/client/ge_api.cc`, `ge/init/`, `ge/session/`)

`GEInitialize` and `GEFinalize` make and take down the one library, `Session` objects
of several threads come and go and call the graph manager, under four locks, none of
which covers everything. What should hold: a call reaches its own session, flags and
contexts tell the truth, nobody waits for ever.

### The build of a known-shape graph (`ge/graph/build/`)

Logical streams, then block memory, then real streams, events and activation lists.
Memory is reused on the strength of an order that later passes change: events are
dropped, streams are split. What should hold: every edge and every shared byte is
ordered by what remains, and nothing waits for itself.

### Single operators (`ge/single_op/`)

One resource per stream with a cache of operators and one shared buffer that a later
load may replace while earlier operators point into it. What should hold: kernels
use live memory, nothing is lost, launches of two calls do not mix.

### The rest

Memory managers and the RDMA pool, the variable manager, partitions, the pass
framework, optimisers, kernels, format transfers, file formats and tools are
sequential rewriting, tables behind one mutex, numeric code or I/O. `PROJECT.json`
gives the reason for each, section 6 a summary.

## 2. State of the plan

| part | modules | status |
|---|---|---|
| graph manager | `GraphManager`, `GraphManagerTypes`, `-Proofs` | modelled, safety proved |
| caching allocator | `CachingAllocator`, `CachingAllocatorBlocks`, `-Proofs` | modelled, safety proved |
| hybrid executor | `SubgraphExecutor` | root graph modelled; nested subgraphs left out |
| pipeline executor | `StagePipeline` (abstract), `HybridModelPipelineExecutor`, `HybridModelPipelineProofs`, `-Order` | modelled, refinement and safety proved |
| asynchronous hybrid model | `HybridModelAsyncExecutor`, `HybridModelAsyncProofs` | modelled on top of the pipeline, safety proved |
| sessions and library | `SessionManager` | modelled but for `RunGraphAsync`, variables and callbacks |
| build | `LogicalStreamAllocator`, `BlockMemAssigner`, `StreamAllocator`, `GraphBuild` | main graph modelled; subgraphs, continuous and atomic memory left out |
| single operators | `SingleOpManager` | modelled but for multi-task dynamic operators |

Worth adding: nested subgraphs in `SubgraphExecutor` and an abstract specification
for it; proofs of `AnswersHonest` and of `Accounted`; functional subgraphs in the
stream allocator.

## 3. Modules

### GraphManager.tla

Variables carry the names of the members (`graph_map_`, `run_flag_`, `sem_`,
`prerun_args_q_`...). `pc`, `cur` and `req` say where a thread is, and which node
and request it has. A step is the code between two points where another thread
can see or disturb it, so one loop turn of `PreRunThread` is `PreRunPop`,
`PreRunFind`, `PreRunLock`, `PreRunCheck`, `PreRunSet`, `PreRunBuilt` or
`PreRunFailed`, `PreRunPush`; one of `RunThread` is `RunPop`, `RunSetCallback`,
`RunParse`, the steps of the loader, `RunExecute`, `RunClearFlag`, `RunUnlock`.
`CheckAndReleaseMemory` walks the copied map node by node (`MemShort`, `Release`,
`ClearLoadFlag`, `Released`). `SyncCheck` ... `SyncWait` are `RunGraph` and
`BuildGraph`; `Remove...` and `Final...` the other two. `ModelPop`,
`SyncComputeDone`, `AsyncComputeDone`, `ListenerPop` and `NoComputeDone` are the
model thread. History for the properties: `rgraph`, `cb`, `cb_ok`, `accepted` and
`computed`; `before` (the nodes built and the requests accepted when a variable changed
its format), `dropped` (data a model had and never reported, or was unloaded with) and
`misflagged` (nodes whose load flag an error has left wrong).

What the code leaves open is an exception of a property, each by name:

* A model may return from `ReturnResult` before `OnComputeDone`, its thread may end with
  data queued (`epc` is "gone"), and `CheckAndReleaseMemory` may unload or a second load
  replace a model with data queued. Nobody hears of that data (`Unheard`):
  `NoneLostWhileRunning`, `AnsweredOrStopped`, `TokenOwed` and `RunGraphReturns` except
  it, and `AnsweredOrStopped` also what RunThread has in hand when it then waits in
  `SetCallback` for the token.
* `LoadModelOnline` may fail after the model is loaded and started ("devreset"), and
  `CheckAndReleaseMemory` after the unload: `LoadFlagTruth` excepts such a node until it
  is loaded again.
* A request accepted before a variable changed its format may run the old model;
  `NoStaleRun` says that no later one does.
* Error returns of the two threads that keep the run flag leave a graph that cannot be
  removed. They stop both queues, and no property forbids it.

`Ops` says which caller operations are used and `Events` which failures and
environment events may occur, so that each run asks its question with the
failures that matter for it; the proofs hold for all subsets.

Abstractions: the build is one step that succeeds, hits the model cache, changes
a variable's format or fails. A `GraphNode` outlives its entry in the map, so nodes
and graph ids are separate sets. `StopQueue` is one step. Setting the run flag and
`IsGraphNeedBuild` in `PreRunThread` are one step. All graphs have known shape and
`run_graph_flag_` is set. Two models loaded for one node at the same time share one
data queue. The loop of `RemoveGraph` over the models of subgraphs is left out.
One caller each of `RunGraph` (the code's `run_mutex_`), `BuildGraph`, `RemoveGraph`
and `Finalize`. The runtime and `BlockingQueue` are external.

### CachingAllocator.tla

`heap` is the set of `Block` objects with their fields and the bins; blocks have
identities, so a link to a deleted block differs from one to a live block.
`allocated_blocks_` is the map of the code, `granted` the size each caller asked
for, `held` what the runtime has given, `stuck` the regions for which `rtFree` has
failed. The mutex makes `FindFreeBlock`, `AddToBlockBin`, `FreeCachedBlocks` and
`Free` single steps; a `Malloc` is `Malloc`, `MallocMemory`, `Release`,
`MallocMemory`, `AddToBlockBin` or `AddFails`, `FindAgain`. `FreeBlocks` is taken turn
by turn. The search of `lower_bound` (size, then address, with `org_ptr - 1` as the
key) is `Candidates` and `IsLowerBound`. The 0.75 threshold is `4n <= 3size`.

Abstractions: sizes are unbounded naturals (a request near `SIZE_MAX` would wrap in
`GetBlockSize`; `NpuMemoryAllocator` refuses requests above
`kMaxHbmMemorySize` first). `BlockIds` bounds the number of blocks that exist at a
time: when there is no identity left, a split or an added region waits. Nobody
calls the allocator while it is initialised or finalised, and failure of
`new BlockBin` in `Initialize` is left out: no allocator results. Addresses are
not reused by other users of the runtime while GE holds them.

### SubgraphExecutor.tla

The dynamic-shape executor, one run of the root graph after another. `main` is
where the caller is in `HybridModelExecutor::Execute` (`LaunchTasks`,
`ScheduleTasks`, `Synchronize`, `Cleanup`, the destructor); `prepare` is the thread
of `PrepareNodes`; `task` and `tasks` are the pool, a task being at its wait for
shapes, for shape futures, for dependent nodes, or at compilation; `callback`,
`callback_queue` and `hccl` are the callback thread, its queue and the callbacks
HCCL owes; `todo` and `cond` are the waits of each thread on `NodeDoneManager`.
`status`, `is_eos` and `callback_queue` survive a run, as in the code; an entry of
the queue says whether its node belongs to the current run. `dependents_for_...`
and `has_observer` are computed from the graph as `ParseDependentInputNodes` does.

Abstractions: a tensor or a shape is valid or not (`propagated`, `shaped`).
A notification sets them before it releases the node, and both are one step,
since only the release is seen by others. A wait on a `Cond` that
`NodeDoneManager::Destroy` frees meanwhile may return anything. Waits of ten
minutes time out only after a notification was lost (`lost`), that is, the device
is assumed to finish a kernel within ten minutes. A callback of an earlier run
does nothing or releases a node of the current one. A failing callback is
`TaskContext::OnError`; a failed status that HCCL or AI CPU passes to a callback is
only logged by the code and therefore not told apart. `Fails` counts failures
down from `MaxFaults`. `BlockingQueue` and the runtime are external. The first
disjunct of `LaunchCancelled` follows the code but cannot happen: when the
NetOutput is popped, all its producers have handed on their shapes.

### StagePipeline.tla, HybridModelPipelineExecutor.tla, HybridModelAsyncExecutor.tla

`StagePipeline` is what a pipeline promises, whoever runs it: in a batch every stage
takes the iterations in order, one at a time, each once and after the stage before
it; a stage that failed is not run again in the batch.

`HybridModelPipelineExecutor` is the ring. `Execute`, `StartExecutor`, `PushTask`,
`Wait` and `Return` are the caller; `Pop`, `Reset`, `Open`, `PartialExecuteAsync`, `Finish`
and `FailSync` are the loop of `StageExecutor::Start`; `CallbackEof` and `CallbackFails` are
the callback thread. A context is reduced to the iteration it was reset for (`ctx`), its
callback thread (`cb`), the end marks nobody took (`eofs`) and what failures have left in
it (`root`: an error code or `is_eos_`, or a stopped `ready_queue_`). `Pipeline` is
the refinement mapping: `next` is `done`, a stage is running while an executor is
between taking its task and finishing it. What a stage does is `SubgraphExecutor`'s.

Three properties of the code show in the model. `NumLoops` computes
`iteration_count % iteration_count`, so the `loop_count % NumExecutors` odd iterations
are run by nobody, and `OutputsComplete` says which are. An executor that fails tells
nobody, so the next waits for ever (`Hung`). And if a task comes round to executor
0 before `Execute` has put the first tasks there (`lapped`), an executor may take its
share of tasks from the wrong stages and meet an "Unexpected iteration";
`OrderlyUnlessLapped` says that these two are the only ways.

The callback thread of a stage is not safe. `TaskContext::RegisterCallback` destroys the
callback manager when it cannot register, and the stage goes on if the callback was the
profiler's; the thread returns when it cannot wait for an event, and `Destroy` then leaves
an end mark that ends the thread of the next iteration. `lost` records the first two.
`ContextOwn` says that a stage is without its thread only on an executor with `lost`, and
in the context of another iteration only if in addition a task was overtaken (a living
thread would have kept `Init` from returning). `OutputsComplete` says that a successful
call has run every stage for all iterations but the odd one, and that the outputs
are those of `iteration_end - NumExecutors`: `loop_count % size` is the executor after
that of the last iteration run, so they are never those of the last.

`HybridModelAsyncExecutor` extends it with the data queue, the thread of
`RunInternal`, `Start`, `Stop` and the listener; a graph of one stage is a step that
succeeds, fails or ends the sequence. The queue is external.

### SessionManager.tla

Steps of `GEInitialize`, `GEFinalize`, the constructor and destructor of `Session`,
`AddGraph`, `RemoveGraph` and `RunGraph`, between the points where a lock is taken or
given up: `g_ge_release_mutex`, the session manager's `mutex_`, the session's
`resource_mutex_` and the static `mutex_` that `RunGraph` only tries, so that a run in
one session makes a run in any other fail. Every `GEInitialize` makes a new library;
session ids come from one counter. The graph manager is one that can fail.

The constructor reads `g_ge_initialized` without a lock (`Construct`) and the library
afterwards (`ConstructIn`), so between the two another client may finalize the one and
make the next. A session can then exist while the flag is still false: `SessionsUsable`
says that this happens only in the newest library while some `GEInitialize` is about to
set the flag.

The properties except what the code leaves open: a `Session` whose constructor failed
has the id 0 and acts on the first session there was; a `GEFinalize` that fails half
way, or overtakes a `GEInitialize`, leaves `g_ge_initialized` set without a library.
Overlapping calls of `GEInitialize` are assumed not to happen. `BuildGraph`
checks nothing and takes no lock of a session, so `SessionsUsable` promises a live graph
manager to `AddGraph` only. `RunGraphAsync` does the same after reading
`GELib::GetInstance()` a second time; it, `GetVariables`, callbacks and options are
left out. A failure of `VarManager::Init` is not reported by
the code, and `RollbackInit` does not release the kernel builder manager or the host
CPU engine; neither is told apart here.

### LogicalStreamAllocator.tla, BlockMemAssigner.tla, StreamAllocator.tla, GraphBuild.tla

The build is sequential, so its passes are operators on a graph: `LogicalStreamAllocator`
has the passes of the logical allocator, `BlockMemAssigner` ranges, blocks, reuse by
life time and offsets, `StreamAllocator` the insertion and optimisation of events,
splitting, activation lists and the refresh. `GraphBuild` runs them in the order of
`BuildModelForGetTask`, one action per pass, and states what the result must satisfy.
`HappensBefore` is the reference: what a device guarantees from stream order, events and
activations alone, without looking at how they came about.

Every engine subgraph is one node, every node has at most one output and one
workspace. Two exceptions are conditions of the properties (`Regular`): nodes of one
continuous stream label that are not adjacent in their stream, and a switch over both
single-stream and multi-stream labels, whose stream list the code overwrites.
`OptimizeSyncEvents` removes every event a StreamSwitch sends, after it has removed others
that these made redundant, so a node which a switch leads to without activating it waits
neither for the switch nor for what ran before it; `EdgesOrdered` excepts that (`GivenUp`)
and the edges out of Enter nodes, which get no event. `AddDependLife` visits
predecessors in the order of node numbers, the code in that of the input anchors.
The choice among reusable predecessors follows a map ordered by pointers in the code,
and is therefore free in the model.

### SingleOpManager.tla

Threads load, execute and release operators; the device runs the kernels of a stream
in order. `mu_` and `stream_mu_` are locks with holders; the manager's `mutex_` never
spans two steps. Device memory is a map from addresses to size and use; `rtMalloc` may
choose the lowest or the highest free address. A resource is released when no call
uses its stream, as the interface requires.

What the code leaves open, and the properties except: a load that must grow the shared
buffer frees the old one first, so if there is no memory the earlier operators have
none (and a later, smaller load gives them a buffer too small for them); a failing
synchronisation in `DoMallocMemory` is only a warning; `ReleaseResource` does not wait for
the stream, and for `nullptr` finds nothing, the default stream being kept under its
context; `~AiCpuTask` frees a workspace only if `dynamic_flag_`, which is set last, so a
static or half-built AI CPU task loses it; and `BuildTaskListForDynamicOp` drops a
DEPEND_COMPUTE task with all its buffers when its copy task is missing or
`SetMemCopyTask` fails, for the pointer was released before (`DropAiCpuTask`). These two
are the only memory `NoLeak` excepts. All buffers of an AI CPU task other than its workspace
and its shapes are one address. A dynamic TBE operator with workspaces
always fails, since `stream_resource_` is never set there. The cache is keyed by the address
of the model bytes; that clients do not reuse an address is assumed. Multi-task
dynamic operators, tiling and `~SingleOpManager` are left out.

## 4. Runs

| run | specification and bounds | shows |
|---|---|---|
| `gm_async` | 2 graphs, 2 requests, queues of 2; every event (failing builds, loads, runtime calls and executions, memory shortage, variable changes, models that never report) but a model-cache hit and a spurious wake-up | exclusion (`NodeExclusive`), single and truthful answers (`AnswersHonest`), order (`PerGraphOrder`), nothing lost between the threads and nobody waiting for a token that is not owed (`NoneLostWhileRunning`, `TokenOwed`), and with fairness every request answered, with the exceptions of section 3 (`AnsweredOrStopped`) |
| `gm_remove` | 3 requests, queues of 1, analyze mode, RemoveGraph, Finalize; failing builds, loads and runtime calls, memory shortage, cache hits, variable changes, models that never report | results go to their owner (`AnswersOwner`), `LoadFlagTruth`, no stale model runs a later request (`NoStaleRun`) |
| `gm_sync` | RunGraph and BuildGraph beside a request; failing builds, loads, runtime calls and executions, enough memory | `LoadFlagTruth` with several loaders |
| `gm_rungraph` | RunGraph and BuildGraph; failing builds, loads, executions and rtSetDevice, memory shortage, cache hits, models that never report; no failing rtDeviceReset (it adds states, not cases) and no spurious wake-up | RunGraph takes its own result (`SyncResultOwn`) and returns, with the exceptions of section 3 (`RunGraphReturns`) |
| `gm_finalize` (violated) | 3 requests, no failure | `FinalizeEnds`: Finalize can wait for ever |
| `ca` | 2 threads, 4 blocks, 2 regions, sizes 1, 3, 7, 13 with bins of 2 and 12 | `NoOverlap`; `Accounted`: lists, bins and regions agree, free neighbours are merged, Finalize returns every region it can |
| `ss` | 2 clients, 7 calls, 2 libraries, 1 failure | `ActsOnOwnUnlessFailed`, `FlagsTruthful`, `SessionsUsable`, `CallsReturn` |
| `hx` | 5 nodes (host, static call, HCCL of type range, compute, NetOutput), pool of 2, ready queue of 2, 2 failures of 9 kinds, any number of runs | shapes, inputs and outputs are valid when used (`InputsReady`, `OutputsValid`), pool and callbacks are over when Execute succeeds (`NothingOutlivesRun`), no failure without cause, every Execute returns |
| `hp` | 3 stages, 2 executors, 1 to 4 iterations a call, 2 inputs, 2 rounds of Start and Stop, 1 failure of 10 kinds | `PipelineSpec` (the refinement), `ContextOwn`, `OutputsComplete`, `OrderlyUnlessLapped`, `AnswersInOrder`, `StreamAlive`, `CallsEnd` |
| `gb` | some 14,000 graphs of 4 to 6 nodes in eight families | `EdgesOrdered`, `NoEventCycle`, `MemorySafeIfTruthful`, `ActivatedByOwner`, `BuildWithinLimits` |
| `gb_mem` (violated) | 16 graphs of 6 nodes | `MemorySafe`: memory reused on the strength of a dependency that does not exist |
| `so` | 2 threads, a stream and the default stream, 4 operators, 5 addresses, 4 calls, 1 failure | `KernelMemory`, `HandlesValid`, `NoLeak`, `CallsNotMixed`, `CallsReturn` |

Why the bounds are enough. Graph manager: two graphs and two nodes let one request
wait for the lock another holds, one graph be unloaded for the other, and a graph be
removed and added again under its id (a node is never reused). Queue capacity 1 makes
the full queue happen. Three requests are needed for "one in the model, one in
`run_args_q_`, one at the lock", the shape of the Finalize hang. Allocator: a region of
12 holds four blocks, so a block with two neighbours is freed between free and used
ones; size 13 exceeds the last bin; size 1 uses the bin whose regions are never split.

Hybrid executors: the pool (4 in the code) and the ready queue (16) are smaller than
the numbers of dynamic nodes and of nodes, so that both are exhausted; one node of
every kind of callback and of every shape inference type makes every wait happen; two
failures let one hit the cleanup, or the run, after another. With three stages on two
executors the ring is shorter than the pipeline, so that stages of two iterations meet
in a queue, and four iterations go round twice; counts of 1 and 3 are the refused
and the odd one. Two rounds of Start and Stop show what is left of the first.

Sessions: with seven calls and two libraries a library is made, used by two clients,
taken down and made again, with objects and calls of the first still around.
Build: `Small` has every graph of four nodes over three kinds of engine, the other
families add what needs more nodes (reuse across streams, labels, nested switches,
all-reduce, continuous labels, a single stream, a loop). `MaxTaskCount` 9 limits a stream to
three nodes and events, so that streams split; `MEM_ALIGN_SIZE` is 2 instead of 512 and `kMaxLifeTime` 99 is
above every node number. Single operators: four calls are load, execute, a load that
replaces the buffer, execute; five addresses hold a static AI CPU operator (buffer,
weights, workspace, other buffers) and the larger buffer that replaces its own, so that
memory also runs out. No operator of the instance is a static one of a single TBE task:
the static operator has a TBE task beside its AI CPU task.

Symmetry is used only in runs without liveness. Deadlock is checked in `ca` and `hx`.
In the others the system may stop: all requests have been answered, the calls are used
up, the graph is built, or after an error the threads are gone (or hang, which the
liveness properties state).

Fairness is weak fairness of the steps of threads already inside an operation:
`PreRunThread`, `RunThread`, the model threads and callers (`FairSpec`); the caller,
`PrepareNodes`, the workers, the callback thread and HCCL's (`SubgraphExecutor`); the
stage executors, `RunInternal` and Stop (`HybridModelAsyncExecutor`); the calls of each client
(`SessionManager`); all threads and the device together (`SingleOpManager`, where
each call takes finitely many steps and calls are bounded). They are operating system
threads that nobody suspends, and the device completes what it was given. Nobody is
obliged to call anything, and no failure is obliged to happen.

Each violated run states what a comment or message in the repository says; the
finding quotes it. Each passing property has a mutant, a definition named `Bad...`
or `Worse...`, that is a slip a programmer could make and that violates it.

Other disagreements met while modelling are conditions of the properties rather
than runs. A graph that PreRunThread refuses because it must be rebuilt keeps its run
flag and cannot be removed, though the message asks for that. A model-cache hit leaves no root model and the request is answered
SUCCESS though nothing ran (no cache in `gm_async`). `CheckAndReleaseMemory` unloads a
model with a request still in its queue, which is then never answered. In the
allocator another thread may take the block that `TryExtendCache` has just added, so that
Malloc fails. After a failed event, an end mark stays in the callback queue of the
hybrid executor (`NothingOutlivesRun` excepts the runs that follow).

## 5. Proofs

`GraphManagerTypes.tla`, `GraphManagerProofs.tla`:

* `TypeCorrect`: `Spec => []TypeOK`. Needs `ThreadsOK` (a thread that works has a
  node and an accepted request) to be inductive.
* `Exclusive`: `Spec => []NodeExclusive`. Inductive together with the two above: a
  node in `run_args_q_` is locked, and only the thread that has the node unlocks it.
* `AnswersTheOwner`: without `RunGraph` among `Ops`, `[]AnswersOwner`. The
  strengthening is `TokenOK`: the token of `RunAsyncListener` belongs to one request,
  which is at RunThread, in the data queue or being computed.

`CachingAllocatorBlocks.tla` (rounding, merging, freeing, splitting, giving out, adding
and returning a region) and `CachingAllocatorProofs.tla` (one lemma per action):

* `MemoryNeverOverlaps`: `Spec => []NoOverlap`, `LinksAlwaysOK`: `Spec => []LinksOK`,
  `CachingTypeOK`: `Spec => []TypeOK`, from the inductive invariant `IInv`:
  blocks are disjoint, links join adjacent live blocks of one bin, bins hold free
  blocks, each block lies in a region and lacks a neighbour exactly where it
  reaches the region's end (`InRegion`: this is why a block without neighbours is
  the whole region, so that giving it back takes memory from nobody), a region
  about to be added has one owner and no block, and the map and the blocks in use
  agree. The lemmas about `FreeBlock`, `SplitBlock` and so on are about an arbitrary
  heap that satisfies `HeapInv`; the steps then only combine them.

`HybridModelPipelineProofs.tla`:

* `ImplementsStagePipeline`: `Spec => PipelineSpec`, the ring implements
  `StagePipeline`, for any numbers of stages, executors and iterations and
  whatever fails. `Execute` is `NewBatch`; taking the task of a later stage, or
  resetting the context for stage 0, is `Begin`; `Finish` is `End`; every failure, and
  an unexpected iteration, is `Fail`; the rest stutters.

It rests on `PipelineInvariant`: `Spec => []PipelineInv`. Its heart is `Ring`: the
task of a stage stands for the iteration the stage takes next and is with
the executor of that iteration (`Located`: executor `(i - iteration_) % NumExecutors`), there
is one task per stage (`Unique`, `Present`), and a stage is due for an earlier iteration
than the stage before it, or for the same one and behind it in the same queue
(`Behind`). Without the last part `Begin` could not be justified: nothing in the code
compares stages, only the order in the queues does. `Contexts` says that an iteration
between its first and its last stage has the context of its executor, unless that has
lost a callback thread; `Callbacks` relates threads, end marks and the executors that wait
for a thread. `Control` and
`Progress` relate the program counters to the iterations of the call. TLC has checked
`PipelineInv` for 3 stages on 2 executors, 2 on 3 and 1 on 3 before the proof.

`HybridModelPipelineOrder.tla`:

* `OrderlyPipeline`: `Spec => []OrderlyUnlessLapped`, for any numbers of stages,
  executors and iterations.
* `ContextsAreOwn`: `Spec => []ContextOwn`, for any numbers too and whatever fails. A lost
  thread could only let an executor reset its context too early if a task came to it out
  of turn, which the order of the ring excludes unless one was overtaken.
* `OutputsAreComplete`: with `NumExecutors = 2`, `Spec => [](OutputsComplete \/ Astray)`. Two
  is the code's `kNumExecutors`; with more, a number of iterations that they do not
  divide leaves more than one of them out. `Astray` (a task was overtaken and a callback
  thread lost) is excepted because tasks are then out of turn, and that a call still
  cannot succeed with a stage missing needs a count over all stages; TLC checks
  `OutputsComplete` without the exception.

The invariant `OutputInv` adds to `PipelineInv` that an executor takes the stages of
its iterations one after the other, so that the task at place `q` of its queue is
a function of `loop_idx` and `q` (`InTurn`, as long as no task has overtaken Execute);
that each takes the same number of tasks in a call (`Share`); and that at the end of a
call every stage has finished the same iterations (`Finishes`, `Outcome`, `Delivered`).

`HybridModelAsyncProofs.tla`:

* `AnswersComeInOrder`: `ASpec => []AnswersInOrder`, `StreamOutlivesRuns`:
  `ASpec => []StreamAlive`, from `AsyncInv`: the inputs in the queue are later than the one in
  hand, which is later than those answered (`Inputs`, `Answered`), and a queue that
  Stop has stopped stays stopped, so that a thread made by a later Start gets no
  input (`Stopping`).
* `AsyncContextsAreOwn`, `AsyncOrderlyPipeline`, `AsyncOutputsAreComplete`: the pipeline
  keeps its properties, with the same exceptions, when RunInternal is its caller.

Assumptions are the named `ASSUME`s on the constants: `ConstAssumption`,
`CachingAssumption` (bins ascend and are multiples of the rounding size, addresses
are positive) and `PipelineAssumption` (at least one stage and two executors). The
theorems hold for any number of threads, requests, blocks, stages and iterations.

Only model-checked: all liveness (`AnsweredOrStopped`, `RunGraphReturns`, `ExecuteReturns`,
`CallsEnd`, `CallsReturn`), which this prover does not do; what the recursive and folded
graph algorithms of the build compute, which would need induction over data;
`AnswersHonest`, `NoneLostWhileRunning`, `PerGraphOrder`, `TokenOwed`, `LoadFlagTruth`,
`NoStaleRun`, `SyncResultOwn`, `Accounted`, `OutputsComplete` in the states of `Astray`; and everything about `SubgraphExecutor`,
`SessionManager` and `SingleOpManager`.

## 6. Not modelled

The device runtime and `BlockingQueue` are external: they are modelled by what the
code relies on. The content of graphs and tensors, single optimisation passes, kernels,
format transfers, file formats, tools, logging and profiling have no state that a
model could add anything to.

The RDMA pool is one region with the same search, split and merge under one mutex as
the caching allocator, in a simpler form. The memory managers are short operations on
maps of reference-counted blocks; the variable manager is a set of tables behind one
recursive mutex, each operation one critical section. Partitioning, preprocessing,
labels and task generation rewrite one graph in one thread and are inputs of the build
modules.

Left out of the modelled parts: training subgraph calls, summaries and checkpoints of
`RunGraph` and models of dynamic shape in `GraphManager`; nested subgraphs of control
operators, stage groups, dumps and profiling callbacks in `SubgraphExecutor` (and
that `Cleanup` does not wait for callbacks HCCL still owes to a run that failed, which
the model shows but no property forbids); the synchronous calls of the asynchronous
executor; `RunGraphAsync` of a session; functional subgraphs, iteration
loops, huge streams, labels, and continuous, atomic, reference and zero-copy memory in
the build; multi-task dynamic operators in `SingleOpManager`.
