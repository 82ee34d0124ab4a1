-------------------------- MODULE SingleOpManager ---------------------------
(***************************************************************************)
(* Loading and executing single operators (ge/single_op).  SingleOpManager *)
(* keeps one StreamResource per stream, which caches the operators built   *)
(* from models and owns ONE buffer that all of them use as feature map     *)
(* memory.  A load that needs more replaces the buffer, so the addresses   *)
(* in the other operators' tasks become stale; ExecuteAsync notices that   *)
(* the base has changed and rewrites them before it launches.              *)
(*                                                                         *)
(* Threads load, execute and release in any order; a stream is released    *)
(* while no call uses it, and what was loaded on it is not used any more.  *)
(* The device runs the kernels of a stream one after the other.  mu_       *)
(* guards the operators of a resource, stream_mu_ its buffer and its       *)
(* launches; mutex_ of the manager is never held across two steps.         *)
(***************************************************************************)
EXTENDS Naturals, Sequences

CONSTANTS Thread, NoThread,
          Stream,        \* the streams clients create
          NullStream,    \* nullptr, the default stream
          Context,       \* the current context, under which it is kept
          Key,           \* addresses of model data
          Kind,          \* Kind[k]: static ("tbe", or "aicpu" with an AICPU task), or dynamic: one TBE
                         \* task ("dynamic"), or an AICPU task whose output shapes it knows the range
                         \* of ("depend_range") or learns by running ("depend_compute")
          MemSize,       \* MemSize[k]: feature map memory of the model
          HasWeight,     \* HasWeight[k]: the model has constants
          TaskNum,       \* TaskNum[k]: the number of its kernels
          Loads,         \* the streams and models of the clients' loads
          MaxAddr, MaxCalls, MaxFaults

ASSUME SingleOpAssumption ==
  /\ NoThread \notin Thread /\ NullStream \notin Stream /\ Context \notin Stream
  /\ Loads \subseteq (Stream \cup {NullStream}) \X Key
  /\ \A k \in Key : /\ Kind[k] \in {"tbe", "aicpu", "dynamic", "depend_range", "depend_compute"}
                    /\ MemSize[k] \in Nat /\ HasWeight[k] \in BOOLEAN
                    /\ TaskNum[k] \in Nat \ {0}
                    /\ Kind[k] \notin {"tbe", "aicpu"} => TaskNum[k] = 1

VARIABLES stream_resources_,   \* the StreamResource of each resource id
          queue,               \* the kernels launched on its stream and not yet run
          device,              \* device memory: the size and use of each address
          thread,              \* what each thread is doing
          handles,             \* the operators that clients have loaded
          calls, faults        \* calls made and failures met so far

vars == <<stream_resources_, queue, device, thread, handles, calls, faults>>

Rids == Stream \cup {Context}
Addr == 1..MaxAddr
Free == [size |-> 0, use |-> "free"]

\* An operator: mem_base of running_param_, args_, the device memory of its
\* AICPU task (its workspace_addr_, the shapes of a call, and one address for
\* all other buffers its destructor frees), and whether a failed load has taken
\* the buffer from under it.
NoOp == [id |-> 0, mem_base |-> 0, args |-> 0, workspace |-> 0, buffers |-> 0, out_shape |-> 0,
         robbed |-> FALSE]

\* A resource starts without operators and without a buffer (address 0).
NewResource(gen) ==
  [gen |-> gen, op_map_ |-> [k \in Key |-> NoOp], memory_list_ |-> 0, max_memory_size_ |-> 0,
   weight_list_ |-> {}, mu_ |-> NoThread, stream_mu_ |-> NoThread]

\* A thread outside any call.
Idle == [pc |-> "idle", rid |-> Context, key |-> CHOOSE k \in Key : TRUE, call |-> 0, mem |-> 0, task |-> 1]

Init == /\ stream_resources_ = [r \in Rids |-> NewResource(0)]
        /\ queue = [r \in Rids |-> <<>>]
        /\ device = [a \in Addr |-> Free]
        /\ thread = [t \in Thread |-> Idle]
        /\ handles = {} /\ calls = 0 /\ faults = 0

\* ------------------------------------------------------------------------
\* Helpers

At(t, p) == thread[t].pc = p
Go(t, p) == thread' = [thread EXCEPT ![t].pc = p]
Leave(t) == thread' = [thread EXCEPT ![t] = Idle]
Rid(t) == thread[t].rid
TheKey(t) == thread[t].key
Res(t) == stream_resources_[Rid(t)]
Op(t) == Res(t).op_map_[TheKey(t)]
Put(t, res) == stream_resources_' = [stream_resources_ EXCEPT ![Rid(t)] = res]
Exists(r) == stream_resources_[r].gen > 0
Found(t) == Op(t).id > 0
Dynamic(k) == Kind[k] \notin {"tbe", "aicpu"}
Aicpu(k) == Kind[k] \notin {"tbe", "dynamic"}

\* rtMalloc and rtFree.  Memory runs out when no address is left; a buffer gets
\* the lowest or the highest free address, so that the address of the one it
\* replaces is used again or not, and anything else gets the lowest.
FreeAddrs == {a \in Addr : device[a] = Free}
Lowest(addrs) == {a \in addrs : \A b \in addrs : a <= b}
Highest(addrs) == {a \in addrs : \A b \in addrs : a >= b}
Alloc(a, n, what) == [device EXCEPT ![a] = [size |-> n, use |-> what]]
Freed(addrs) == [a \in Addr |-> IF a \in addrs THEN Free ELSE device[a]]
Fault == faults < MaxFaults /\ faults' = faults + 1
MallocFails == Fault \/ (FreeAddrs = {} /\ UNCHANGED faults)

Unlock(res) == [res EXCEPT !.stream_mu_ = NoThread]
UnlockMu(res) == [res EXCEPT !.mu_ = NoThread]

\* GetResourceId: a default stream is known by its context.
GetResourceId(s) == IF s = NullStream THEN Context ELSE s

Busy(r) == \E t \in Thread : ~At(t, "idle") /\ Rid(t) = r

\* ------------------------------------------------------------------------
\* GetOpFromModel and GetDynamicOpFromModel

\* GetResourceId may fail, and GetResource creates a resource or fails to.
GetResource(t, s, k) ==
  LET r == GetResourceId(s) IN
  /\ At(t, "idle") /\ calls < MaxCalls /\ calls' = calls + 1
  /\ \/ /\ stream_resources_' = [stream_resources_ EXCEPT ![r] =
                                   IF Exists(r) THEN @ ELSE NewResource(calls + 1)]
        /\ thread' = [thread EXCEPT ![t] = [@ EXCEPT !.pc = "get_operator", !.rid = r, !.key = k,
                                                     !.call = calls + 1]]
        /\ UNCHANGED faults
     \/ Fault /\ UNCHANGED <<stream_resources_, thread>>
  /\ UNCHANGED <<queue, device, handles>>

\* The caller gets operator id.
Loaded(t, id) ==
  /\ Leave(t)
  /\ handles' = handles \cup {[rid |-> Rid(t), key |-> TheKey(t), id |-> id]}

\* GetOperator and GetDynamicOperator look into the map, under mu_.
GetOperator(t) ==
  /\ At(t, "get_operator") /\ Res(t).mu_ = NoThread
  /\ IF Found(t) THEN Loaded(t, Op(t).id) ELSE Go(t, "build") /\ UNCHANGED handles
  /\ UNCHANGED <<stream_resources_, queue, device, calls, faults>>

\* SingleOpModel::Init succeeds and the building starts, with mu_ held ...
StartBuild(t) ==
  /\ Put(t, [Res(t) EXCEPT !.mu_ = t])
  /\ Go(t, IF MemSize[TheKey(t)] > 0 THEN "malloc_memory" ELSE "weight")
  /\ UNCHANGED <<handles, faults>>

\* A mutant: relies on the look-up of GetOperator.
BadBuildOperator(t) ==
  /\ At(t, "build") /\ Res(t).mu_ = NoThread
  /\ StartBuild(t) \/ (Fault /\ Leave(t) /\ UNCHANGED <<stream_resources_, handles>>)
  /\ UNCHANGED <<queue, device, calls>>

\* A mutant: returns the error of Init without releasing mu_.
WorseBuildOperator(t) ==
  /\ At(t, "build") /\ Res(t).mu_ = NoThread
  /\ \/ Found(t) /\ Loaded(t, Op(t).id) /\ UNCHANGED <<stream_resources_, faults>>
     \/ ~Found(t) /\ StartBuild(t)
     \/ ~Found(t) /\ Fault /\ Put(t, [Res(t) EXCEPT !.mu_ = t]) /\ Leave(t) /\ UNCHANGED handles
  /\ UNCHANGED <<queue, device, calls>>

\* BuildOperator and BuildDynamicOperator look the model up again, now with mu_
\* held, and keep mu_ until the operator is in the map.
BuildOperator(t) ==
  /\ At(t, "build") /\ Res(t).mu_ = NoThread
  /\ \/ Found(t) /\ Loaded(t, Op(t).id) /\ UNCHANGED <<stream_resources_, faults>>
     \/ ~Found(t) /\ StartBuild(t)
     \/ ~Found(t) /\ Fault /\ Leave(t) /\ UNCHANGED <<stream_resources_, handles>>
  /\ UNCHANGED <<queue, device, calls>>

\* MallocMemory takes stream_mu_; DoMallocMemory reuses the buffer when it is
\* large enough, and otherwise takes it out of memory_list_.
MallocMemory(t) ==
  LET res == Res(t)
      reuse == MemSize[TheKey(t)] <= res.max_memory_size_ /\ res.memory_list_ # 0 IN
  /\ At(t, "malloc_memory") /\ res.stream_mu_ = NoThread
  /\ IF reuse
     THEN /\ thread' = [thread EXCEPT ![t].pc = "weight", ![t].mem = res.memory_list_]
          /\ UNCHANGED stream_resources_
     ELSE /\ thread' = [thread EXCEPT ![t].pc = IF res.memory_list_ = 0 THEN "rt_malloc" ELSE "synchronize",
                                      ![t].mem = res.memory_list_]
          /\ Put(t, [res EXCEPT !.stream_mu_ = t, !.memory_list_ = 0])
  /\ UNCHANGED <<queue, device, handles, calls, faults>>

\* DoMallocMemory waits until the stream is idle and frees the old buffer; a
\* failure to wait is only a warning.
Synchronize(t) ==
  LET q == queue[Rid(t)] IN
  /\ At(t, "synchronize")
  /\ \/ q = <<>> /\ UNCHANGED <<queue, faults>>
     \/ /\ q # <<>> /\ Fault
        /\ queue' = [queue EXCEPT ![Rid(t)] = [i \in DOMAIN q |-> [q[i] EXCEPT !.excused = TRUE]]]
  /\ device' = Freed({thread[t].mem})
  /\ Go(t, "rt_malloc")
  /\ UNCHANGED <<stream_resources_, handles, calls>>

\* DoMallocMemory allocates the new buffer.  When that (or clearing it) fails,
\* memory_list_ stays empty, max_memory_size_ keeps its value, and every
\* operator built before has lost its memory.
RtMalloc(t) ==
  LET res == Res(t)
      n == MemSize[TheKey(t)] IN
  /\ At(t, "rt_malloc")
  /\ \/ \E a \in Lowest(FreeAddrs) \cup Highest(FreeAddrs) :
          /\ device' = Alloc(a, n, "buffer")
          /\ thread' = [thread EXCEPT ![t].pc = "weight", ![t].mem = a]
          /\ Put(t, Unlock([res EXCEPT !.memory_list_ = a, !.max_memory_size_ = n]))
          /\ UNCHANGED faults
     \/ /\ MallocFails
        /\ Put(t, Unlock(UnlockMu([res EXCEPT !.op_map_ = [k \in Key |-> [@[k] EXCEPT !.robbed = TRUE]]])))
        /\ Leave(t)
        /\ UNCHANGED device
  /\ UNCHANGED <<queue, handles, calls>>

\* InitModelMem: MallocWeight, then the copy of the weights; what MallocWeight
\* allocated stays in weight_list_ even if the load fails.
MallocWeight(t) ==
  /\ At(t, "weight")
  /\ \/ ~HasWeight[TheKey(t)] /\ Go(t, "tasks") /\ UNCHANGED <<stream_resources_, device, faults>>
     \/ /\ HasWeight[TheKey(t)]
        /\ \/ \E a \in Lowest(FreeAddrs) :
                LET res == [Res(t) EXCEPT !.weight_list_ = @ \cup {a}] IN
                /\ device' = Alloc(a, 1, "weight")
                /\ \/ Put(t, res) /\ Go(t, "tasks") /\ UNCHANGED faults
                   \/ Put(t, UnlockMu(res)) /\ Leave(t) /\ Fault
           \/ MallocFails /\ Put(t, UnlockMu(Res(t))) /\ Leave(t) /\ UNCHANGED device
  /\ UNCHANGED <<queue, handles, calls>>

\* The operator goes into the map, or the error is returned.
Built(t, workspace, buffers) ==
  /\ Put(t, [UnlockMu(Res(t)) EXCEPT !.op_map_[TheKey(t)] =
        [NoOp EXCEPT !.id = thread[t].call, !.mem_base = thread[t].mem, !.workspace = workspace,
                     !.buffers = buffers]])
  /\ Loaded(t, thread[t].call)
  /\ UNCHANGED faults

NotBuilt(t) == Put(t, UnlockMu(Res(t))) /\ Leave(t) /\ UNCHANGED handles

\* TbeTaskBuilder::BuildTask
BuildTbeTask(t) == (Built(t, 0, 0) \/ (Fault /\ NotBuilt(t))) /\ UNCHANGED device

\* The memory of a task: its workspace and, if b is not 0, the rest of it.
TaskMemory(a, b, workspace, rest) ==
  [x \in Addr |-> IF x = a THEN [size |-> 1, use |-> workspace]
                  ELSE IF x = b THEN [size |-> 1, use |-> rest] ELSE device[x]]

\* AiCpuTaskBuilder::BuildTask allocates the workspace and the other buffers.
\* The destructor of the task frees the workspace only where dynamic_flag_ is
\* set: not in a static operator, and not after a failure, for the flag is set
\* last.
BuildAiCpuTask(t, dynamic_flag) ==
  \/ \E a \in Lowest(FreeAddrs) :
       \/ \E b \in Lowest(FreeAddrs \ {a}) :
            /\ device' = TaskMemory(a, b, IF dynamic_flag THEN "workspace" ELSE "unowned", "task")
            /\ Built(t, a, b)
       \/ /\ Fault \/ (FreeAddrs = {a} /\ UNCHANGED faults)
          /\ device' = TaskMemory(a, 0, "unowned", "task")
          /\ NotBuilt(t)
  \/ MallocFails /\ NotBuilt(t) /\ UNCHANGED device

BuildTask(t, dynamic_flag) ==
  IF Aicpu(TheKey(t)) THEN BuildAiCpuTask(t, dynamic_flag) ELSE BuildTbeTask(t)

BuildTaskList(t) ==
  /\ At(t, "tasks") /\ ~Dynamic(TheKey(t))
  /\ BuildTask(t, FALSE)
  /\ UNCHANGED <<queue, calls>>

\* A DEPEND_COMPUTE task is built, but its copy task is missing or SetMemCopyTask
\* fails: the error is returned, and nobody deletes the task any more.
DropAiCpuTask(t) ==
  /\ Kind[TheKey(t)] = "depend_compute" /\ Fault
  /\ \E a \in Lowest(FreeAddrs) : \E b \in Lowest(FreeAddrs \ {a}) :
       device' = TaskMemory(a, b, "dropped", "dropped")
  /\ NotBuilt(t)

BuildTaskListForDynamicOp(t) ==
  /\ At(t, "tasks") /\ Dynamic(TheKey(t))
  /\ BuildTask(t, TRUE) \/ DropAiCpuTask(t)
  /\ UNCHANGED <<queue, calls>>

\* ------------------------------------------------------------------------
\* ExecuteAsync

\* A call on a loaded operator; one whose arguments ValidateArgs (or
\* ValidateParams) refuses returns at once, and is not counted.
ExecuteAsync(t, h) ==
  /\ At(t, "idle") /\ calls < MaxCalls
  /\ \/ /\ calls' = calls + 1
        /\ thread' = [thread EXCEPT ![t] = [@ EXCEPT !.pc = "lock", !.rid = h.rid, !.key = h.key,
                                                     !.call = calls + 1, !.task = 1]]
     \/ UNCHANGED <<calls, thread>>
  /\ UNCHANGED <<stream_resources_, queue, device, handles, faults>>

\* UpdateArgs: every task's slots get the arguments of this call.
UpdateArgs(op, call) == [op EXCEPT !.args = call]

\* A mutant: the addresses stay those the tasks were built with.
BadUpdateArgTable(t) ==
  /\ At(t, "lock") /\ ~Dynamic(TheKey(t)) /\ Res(t).stream_mu_ = NoThread
  /\ Put(t, [Res(t) EXCEPT !.stream_mu_ = t, !.op_map_[TheKey(t)] = UpdateArgs(@, thread[t].call)])
  /\ Go(t, "launch")
  /\ UNCHANGED <<queue, device, handles, calls, faults>>

\* A mutant: the launches of two calls are not kept apart by stream_mu_.
WorseUpdateArgTable(t) ==
  /\ At(t, "lock") /\ ~Dynamic(TheKey(t))
  /\ Put(t, [Res(t) EXCEPT !.op_map_[TheKey(t)] =
                 UpdateArgs([@ EXCEPT !.mem_base = Res(t).memory_list_], thread[t].call)])
  /\ Go(t, "launch")
  /\ UNCHANGED <<queue, device, handles, calls, faults>>

\* SingleOp::ExecuteAsync with stream_mu_ held: the addresses in all tasks follow
\* the buffer, and the arguments are those of this call.  (UpdateArgTable
\* refuses a table of another length than the one the task was built with,
\* which nothing changes.)
UpdateArgTable(t) ==
  /\ At(t, "lock") /\ ~Dynamic(TheKey(t)) /\ Res(t).stream_mu_ = NoThread
  /\ Put(t, [Res(t) EXCEPT !.stream_mu_ = t, !.op_map_[TheKey(t)] =
                 UpdateArgs([@ EXCEPT !.mem_base = Res(t).memory_list_], thread[t].call)])
  /\ Go(t, "launch")
  /\ UNCHANGED <<queue, device, handles, calls, faults>>

\* DynamicSingleOp::ExecuteAsync with stream_mu_ held: all addresses come from
\* the arguments.  A TBE operator whose tiling asks for workspaces fails in
\* AllocateWorkspaces: nothing sets stream_resource_ of its task.
LockDynamic(t) ==
  /\ At(t, "lock") /\ Dynamic(TheKey(t)) /\ Res(t).stream_mu_ = NoThread
  /\ \/ /\ Put(t, [Res(t) EXCEPT !.stream_mu_ = t, !.op_map_[TheKey(t)] = UpdateArgs(@, thread[t].call)])
        /\ Go(t, "launch")
     \/ Kind[TheKey(t)] = "dynamic" /\ Leave(t) /\ UNCHANGED stream_resources_
  /\ UNCHANGED <<queue, device, handles, calls, faults>>

\* The kernel that thread t launches: what it needs at which address, for which
\* call, with whose arguments.
Kernel(t, need, base) ==
  [gen |-> Res(t).gen, need |-> need, base |-> base, call |-> thread[t].call,
   args |-> Op(t).args, excused |-> Op(t).robbed]

Launched(t, kernel) == queue' = [queue EXCEPT ![Rid(t)] = Append(@, kernel)]

Return(t) == Leave(t) /\ Put(t, Unlock(Res(t)))

\* LaunchKernel of one task; it fails before or (OpenDump) after the launch, and
\* the tasks launched before stay in the stream.
LaunchKernel(t) ==
  LET k == TheKey(t)
      kernel == Kernel(t, IF Dynamic(k) THEN 0 ELSE MemSize[k], Op(t).mem_base) IN
  /\ At(t, "launch")
  /\ \/ /\ Launched(t, kernel) /\ UNCHANGED faults
        /\ IF thread[t].task < TaskNum[k]
           THEN thread' = [thread EXCEPT ![t].task = @ + 1] /\ UNCHANGED stream_resources_
           ELSE IF Kind[k] \in {"depend_range", "depend_compute"}
                THEN /\ Go(t, IF Kind[k] = "depend_range" THEN "range" ELSE "summary")
                     /\ UNCHANGED stream_resources_
                ELSE Return(t)
     \/ Fault /\ Return(t) /\ (Launched(t, kernel) \/ UNCHANGED queue)
  /\ UNCHANGED <<device, handles, calls>>

\* A DEPEND_SHAPE_RANGE task waits for its kernel and reads the shapes.
UpdateOutputShape(t) ==
  /\ At(t, "range")
  /\ (queue[Rid(t)] = <<>> /\ UNCHANGED faults) \/ Fault
  /\ Return(t)
  /\ UNCHANGED <<queue, device, handles, calls>>

\* A DEPEND_COMPUTE task waits for its kernel, frees the shape buffers of an
\* earlier call that failed, allocates new ones and launches the copy kernel.
UpdateShapeAndDataByResultSummary(t) ==
  LET k == TheKey(t)
      shape(a) == Put(t, [Res(t) EXCEPT !.op_map_[k].out_shape = a])
      failed(a) == Put(t, [Unlock(Res(t)) EXCEPT !.op_map_[k].out_shape = a]) IN
  /\ At(t, "summary")
  /\ \/ /\ queue[Rid(t)] = <<>>
        /\ \E a \in Lowest(FreeAddrs \cup ({Op(t).out_shape} \ {0})) :
             /\ device' = [Freed({Op(t).out_shape}) EXCEPT ![a] = [size |-> 1, use |-> "shape"]]
             /\ \/ /\ shape(a) /\ Launched(t, [Kernel(t, 1, a) EXCEPT !.excused = FALSE])
                   /\ Go(t, "copy") /\ UNCHANGED faults
                \/ failed(a) /\ Fault /\ Leave(t) /\ UNCHANGED queue
     \/ /\ queue[Rid(t)] = <<>> /\ MallocFails
        /\ device' = Freed({Op(t).out_shape}) /\ failed(0) /\ Leave(t) /\ UNCHANGED queue
     \/ Fault /\ Return(t) /\ UNCHANGED <<queue, device>>
  /\ UNCHANGED <<handles, calls>>

\* It waits for the copy, reads the shapes and frees their buffers, which stay
\* with the task when the waiting or the reading fails.
CopyDataToHbm(t) ==
  /\ At(t, "copy")
  /\ \/ /\ queue[Rid(t)] = <<>>
        /\ device' = Freed({Op(t).out_shape}) /\ Leave(t)
        /\ Put(t, [Unlock(Res(t)) EXCEPT !.op_map_[TheKey(t)].out_shape = 0])
        /\ UNCHANGED faults
     \/ Fault /\ Return(t) /\ UNCHANGED device
  /\ UNCHANGED <<queue, handles, calls>>

\* ------------------------------------------------------------------------
\* ReleaseResource and the device

\* The memory ~AiCpuTask frees: not the workspace of a static operator.
TaskOwned(op, k) == {op.out_shape, op.buffers} \cup (IF Dynamic(k) THEN {op.workspace} ELSE {})

\* The memory ~StreamResource gives back.
Owned(res) ==
  {res.memory_list_} \cup res.weight_list_ \cup UNION {TaskOwned(res.op_map_[k], k) : k \in Key}

\* A mutant: forgets the weights.
BadReleaseResource(s) ==
  /\ ~Busy(GetResourceId(s)) /\ calls < MaxCalls /\ calls' = calls + 1
  /\ IF s \in Rids /\ Exists(s)
     THEN /\ device' = Freed(Owned(stream_resources_[s]) \ stream_resources_[s].weight_list_)
          /\ stream_resources_' = [stream_resources_ EXCEPT ![s] = NewResource(0)]
     ELSE UNCHANGED <<device, stream_resources_>>
  /\ handles' = {h \in handles : h.rid # GetResourceId(s)}
  /\ UNCHANGED <<queue, thread, faults>>

\* ReleaseResource looks for the stream itself, so it finds nothing for the
\* default stream; it does not wait for the kernels in the stream.
ReleaseResource(s) ==
  /\ ~Busy(GetResourceId(s)) /\ calls < MaxCalls /\ calls' = calls + 1
  /\ IF s \in Rids /\ Exists(s)
     THEN /\ device' = Freed(Owned(stream_resources_[s]))
          /\ stream_resources_' = [stream_resources_ EXCEPT ![s] = NewResource(0)]
     ELSE UNCHANGED <<device, stream_resources_>>
  /\ handles' = {h \in handles : h.rid # GetResourceId(s)}
  /\ UNCHANGED <<queue, thread, faults>>

\* The runtime: a stream's kernels run in order.
RunKernel(r) ==
  /\ queue[r] # <<>>
  /\ queue' = [queue EXCEPT ![r] = Tail(@)]
  /\ UNCHANGED <<stream_resources_, device, thread, handles, calls, faults>>

Step(t) == \/ GetOperator(t) \/ BuildOperator(t) \/ MallocMemory(t) \/ Synchronize(t) \/ RtMalloc(t)
           \/ MallocWeight(t) \/ BuildTaskList(t) \/ BuildTaskListForDynamicOp(t)
           \/ UpdateArgTable(t) \/ LockDynamic(t) \/ LaunchKernel(t) \/ UpdateOutputShape(t)
           \/ UpdateShapeAndDataByResultSummary(t) \/ CopyDataToHbm(t)

Next == \/ \E t \in Thread : \/ Step(t)
                             \/ \E l \in Loads : GetResource(t, l[1], l[2])
                             \/ \E h \in handles : ExecuteAsync(t, h)
        \/ \E s \in Stream \cup {NullStream} : ReleaseResource(s)
        \/ \E r \in Rids : RunKernel(r)

\* Someone runs as long as a thread inside a call or the device can; with a
\* bounded number of calls nobody is passed over for ever.
Fairness == WF_vars((\E t \in Thread : Step(t)) \/ (\E r \in Rids : RunKernel(r)))

Spec == Init /\ [][Next]_vars /\ Fairness

\* ------------------------------------------------------------------------
\* Properties

\* Types; the recorded size of a buffer is the one it was allocated with.
TypeOK ==
  /\ \A r \in Rids :
       LET res == stream_resources_[r] IN
       /\ res.gen \in 0..MaxCalls /\ res.memory_list_ \in 0..MaxAddr /\ res.max_memory_size_ \in Nat
       /\ res.memory_list_ # 0 => res.max_memory_size_ = device[res.memory_list_].size
       /\ res.weight_list_ \subseteq Addr
       /\ res.mu_ \in Thread \cup {NoThread} /\ res.stream_mu_ \in Thread \cup {NoThread}
       /\ res.op_map_ \in [Key -> [id : 0..MaxCalls, mem_base : 0..MaxAddr, args : 0..MaxCalls,
                                   workspace : 0..MaxAddr, buffers : 0..MaxAddr,
                                   out_shape : 0..MaxAddr, robbed : BOOLEAN]]
  /\ \A a \in Addr : (device[a].size = 0) <=> (device[a] = Free)
  /\ calls \in 0..MaxCalls /\ faults \in 0..MaxFaults

\* No kernel that waits in a stream refers to device memory that has been freed
\* or is smaller than its operator needs, although the buffer is replaced under
\* the operators that were built with it (DoMallocMemory, ExecuteAsync).  The
\* exceptions are what the code leaves open: a resource released with kernels
\* in its stream, a stream that could not be synchronised, and an operator
\* whose buffer a load freed and then failed to replace.
KernelMemory ==
  \A r \in Rids : \A i \in DOMAIN queue[r] :
    LET kernel == queue[r][i] IN
    (kernel.gen = stream_resources_[r].gen /\ ~kernel.excused /\ kernel.need > 0)
      => (kernel.base # 0 /\ device[kernel.base].size >= kernel.need)

\* The variables keep their ranges, and an operator pointer that a client got
\* from GetOpFromModel stays the one in the map until the stream is released:
\* two threads that load the same model get the same operator, none is built
\* over another (BuildOperator).
HandlesValid ==
  /\ TypeOK
  /\ \A h \in handles : stream_resources_[h.rid].op_map_[h.key].id = h.id

\* All device memory in use is reachable from a resource, from one of its
\* operators or from the thread that replaces its buffer, on every error path
\* (InitModelMem, DoMallocMemory, ~StreamResource, ~AiCpuTask).  Lost are only
\* the workspaces of AICPU tasks that are static or failed to build, and all
\* the memory of a DEPEND_COMPUTE task that was built and got no copy task
\* (BuildTaskListForDynamicOp).
NoLeak ==
  \A a \in Addr \ FreeAddrs :
    \/ device[a].use \in {"unowned", "dropped"}
    \/ \E r \in Rids : a \in Owned(stream_resources_[r])
    \/ \E t \in Thread : At(t, "synchronize") /\ thread[t].mem = a

\* The kernels of one ExecuteAsync call are next to each other in the stream
\* and carry the arguments of that call, whichever calls on the same stream or
\* on the same operator run at the same time (stream_mu_).
CallsNotMixed ==
  \A r \in Rids : \A i, j \in DOMAIN queue[r] :
    /\ queue[r][i].args = queue[r][i].call
    /\ (i < j /\ queue[r][i].call = queue[r][j].call)
         => \A m \in i..j : queue[r][m].call = queue[r][i].call

\* Every load and every execution returns: no error path keeps a lock, and no
\* wait for the stream under a lock waits for the owner of that lock.
CallsReturn == \A t \in Thread : (~At(t, "idle")) ~> At(t, "idle")
=============================================================================
