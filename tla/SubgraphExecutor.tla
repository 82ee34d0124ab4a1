--------------------------- MODULE SubgraphExecutor ---------------------------
(***************************************************************************)
(* The executor of dynamic-shape graphs (ge/hybrid/executor).              *)
(* HybridModelExecutor::Execute runs the root graph with a new             *)
(* SubgraphExecutor for every batch of inputs.  Four kinds of thread       *)
(* work on a run:                                                          *)
(*   - the caller, which pops nodes from ready_queue_ and launches them    *)
(*     (LaunchTasks), joins everything and returns;                        *)
(*   - PrepareNodes, which hands the shape inference of dynamic nodes to   *)
(*     a pool and pushes the nodes, in topological order, to ready_queue_; *)
(*   - the pool's workers, which infer shapes (the tasks may block);       *)
(*   - the callback thread, which waits for the device and notifies the    *)
(*     nodes that wait for a node's result (NodeDoneManager).              *)
(* GraphExecutionContext and the queue of callbacks outlive a run.         *)
(***************************************************************************)
EXTENDS Integers, Sequences, FiniteSets

CONSTANTS
  Order,        \* the graph's nodes in topological order, NetOutput last
  Inputs,       \* node -> the nodes that produce its data inputs
  ConstInputs,  \* node -> the inputs whose values its shape inference reads
  CondInput,    \* node -> {the input an If or Case branches on}, or {}
  Type,         \* node -> shape_inference_type: "known", "range", "compute"
  Dynamic,      \* nodes with is_dynamic
  UnknownOut,   \* nodes whose is_output_shape_static is false
  Hccl,         \* nodes the HCCL executor runs
  HostNodes,    \* nodes whose executor calls back inside ExecuteTask
  PoolSize,     \* kDefaultThreadNum
  QueueSize,    \* kDefaultQueueSize
  Faults,       \* the kinds of failure that may happen
  MaxFaults     \* how many failures may happen

Nodes == {Order[i] : i \in DOMAIN Order}
NetOutput == Order[Len(Order)]

FaultKinds ==
  {"static", "infer", "compile", "exec", "register", "callback", "event",
   "sync", "eos"}

\* What the graph's construction guarantees: edges follow the order, a node
\* with an unknown input or output shape is dynamic.
ASSUME GraphAssumption ==
  /\ \A i \in DOMAIN Order :
       /\ Inputs[Order[i]] \subseteq {Order[j] : j \in 1 .. i - 1}
       /\ ConstInputs[Order[i]] \cup CondInput[Order[i]]
            \subseteq Inputs[Order[i]]
  /\ UnknownOut \subseteq Dynamic
  /\ \A n \in Nodes : Inputs[n] \cap UnknownOut # {} => n \in Dynamic
  /\ NetOutput \notin UnknownOut
  /\ Hccl \cap HostNodes = {}

ASSUME BoundAssumption ==
  /\ PoolSize \in Nat \ {0}
  /\ QueueSize \in Nat \ {0}
  /\ MaxFaults \in Nat
  /\ Faults \subseteq FaultKinds

\* Two threads' names, and the values that stand for nullptr.
Main == "main"
Threads == Nodes \cup {Main}   \* a pool task is named after its node
None == "none"
Eof == "eof"
EofEntry == <<Eof, TRUE>>

-----------------------------------------------------------------------------
(* What HybridModelBuilder computes from the graph.                        *)

\* An HCCL node with a data input makes its consumers wait for it.
Observed == {n \in Hccl : Inputs[n] # {}}

dependents_for_execution(n) ==
  {p \in Inputs[n] : n \in Hccl \/ p \in Observed \/ Type[p] = "compute"}
    \cup CondInput[n]

dependents_for_shape_inference(n) ==
  {p \in Inputs[n] : Type[p] = "range"} \cup ConstInputs[n]

has_observer(p) ==
  \/ p \in Observed
  \/ \E n \in Nodes :
       p \in dependents_for_execution(n) \cup dependents_for_shape_inference(n)

\* The inputs whose shape is not known when the run starts.
UnknownInputs(n) == Inputs[n] \cap UnknownOut

\* The shape becomes valid when the node has been computed.
ShapeIsFuture(p) == Type[p] \in {"range", "compute"}

-----------------------------------------------------------------------------
VARIABLES
  main,        \* where the caller is
  cur,         \* the node the caller handles, or None
  ret,         \* the status Execute will return
  prepare,     \* PrepareNodes: where it is, next node, its result
  ready_queue, \* nodes prepared or being prepared, and Eof
  stopped,     \* ready_queue_.Stop() was called
  tasks,       \* the pool's queue
  task,        \* node -> where its preparation is
  num_pending_shapes, \* node -> input shapes not received yet
  shape_futures,      \* node -> producers whose shape comes with their result
  todo,        \* thread -> nodes it has still to Await
  cond,        \* thread -> the node whose Cond it waits on, or None
  released,    \* nodes whose Cond is released
  destroyed,   \* NodeDoneManager::destroyed_
  launched,    \* nodes launched, in order
  propagated,  \* nodes whose output tensors reached their consumers
  shaped,      \* nodes whose output shape is final
  invoked,     \* nodes of this run whose callback was invoked
  callback_queue, \* entries <<node or Eof, is it of this run>>
  callback,    \* the callback thread: "none", "run" or "ended"
  status,      \* GraphExecutionContext::status is SUCCESS
  is_eos,      \* GraphExecutionContext::is_eos_
  budget,      \* failures that may still happen
  hccl,        \* callbacks that HCCL owes: <<node, is it of this run>>
  lost         \* callbacks were lost or left behind: "no", "now" (by this
               \* run) or "before" (by an earlier one)

mainVars == <<main, cur, ret>>
poolVars == <<tasks, task, num_pending_shapes, shape_futures>>
doneVars == <<released, destroyed>>
resultVars == <<launched, propagated, shaped, invoked>>
callbackVars == <<callback_queue, callback, hccl>>
contextVars == <<status, is_eos>>
faultVars == <<budget, lost>>
queueVars == <<ready_queue, stopped>>
awaitVars == <<todo, cond>>
vars == <<mainVars, prepare, queueVars, poolVars, awaitVars, doneVars,
          resultVars, callbackVars, contextVars, faultVars>>

\* A SubgraphExecutor and its SubgraphContext as their constructors leave
\* them.  The shapes of the graph's own inputs are set before any thread
\* starts, so only inputs produced by other nodes are pending.
FreshRun ==
  [prepare |-> [at |-> "off", next |-> 1, ok |-> TRUE],
   task |-> [n \in Nodes |-> "none"],
   pending |-> [n \in Nodes |-> Cardinality(UnknownInputs(n))],
   futures |-> [n \in Nodes |-> {}],
   todo |-> [t \in Threads |-> {}],
   cond |-> [t \in Threads |-> None]]

Init ==
  /\ main = "idle" /\ cur = None /\ ret = "SUCCESS"
  /\ prepare = FreshRun.prepare
  /\ ready_queue = <<>> /\ stopped = FALSE
  /\ tasks = <<>> /\ task = FreshRun.task
  /\ num_pending_shapes = FreshRun.pending
  /\ shape_futures = FreshRun.futures
  /\ todo = FreshRun.todo /\ cond = FreshRun.cond
  /\ released = {} /\ destroyed = FALSE
  /\ launched = <<>> /\ propagated = {} /\ shaped = {} /\ invoked = {}
  /\ callback_queue = <<>> /\ callback = "none" /\ hccl = {}
  /\ status = TRUE /\ is_eos = FALSE
  /\ budget = MaxFaults /\ lost = "no"

\* A failure of this kind happens.
Fails(kind) == kind \in Faults /\ budget > 0 /\ budget' = budget - 1
NoFailure == budget' = budget

-----------------------------------------------------------------------------
(* NodeDoneManager.  Await takes a pointer to the node's Cond under mu_    *)
(* and waits on it after mu_ is released.  Destroy frees the Conds under   *)
(* the feet of those that wait, so that what such a wait returns is        *)
(* undefined: the model lets it be true or false.                          *)

\* GetSubject, for the next node that thread t has to await.
GetSubject(t) ==
  /\ cond[t] = None
  /\ ~destroyed
  /\ \E p \in todo[t] : cond' = [cond EXCEPT ![t] = p]
  /\ UNCHANGED todo

\* A wake-up without the release starts the wait, and its timeout, anew.
BadAwaited(t) ==
  /\ cond[t] # None
  /\ todo' = [todo EXCEPT ![t] = IF cond[t] \in released \/ destroyed
                                 THEN @ \ {cond[t]} ELSE @]
  /\ cond' = [cond EXCEPT ![t] = None]

\* Cond::Await returns true.
Awaited(t) ==
  /\ cond[t] # None
  /\ cond[t] \in released \/ destroyed
  /\ todo' = [todo EXCEPT ![t] = @ \ {cond[t]}]
  /\ cond' = [cond EXCEPT ![t] = None]

Await(t) ==
  /\ GetSubject(t) \/ Awaited(t)
  /\ UNCHANGED <<mainVars, prepare, queueVars, poolVars, doneVars, resultVars,
                 callbackVars, contextVars, faultVars>>

\* NodeDoneManager::Await returns false: the manager is destroyed, or the
\* notification was lost with the callback thread and 600 seconds went by.
AwaitFails(t) ==
  /\ todo[t] # {}
  /\ destroyed \/ (cond[t] # None /\ cond[t] \notin released
                     /\ lost # "no")
  /\ todo' = [todo EXCEPT ![t] = {}]
  /\ cond' = [cond EXCEPT ![t] = None]

\* The first 5 seconds without the shapes end the wait.
BadShapesCancelled(n) == num_pending_shapes[n] > 0

\* AwaitShapesReady gives up: it looks at is_eos_ and at the context's status
\* every 5 seconds, 120 times.
ShapesCancelled(n) ==
  /\ num_pending_shapes[n] > 0
  /\ is_eos \/ ~status \/ lost # "no"

\* SubgraphContext::Await and AwaitShapesReady both prefer END_OF_SEQUENCE.
CancelStatus == IF is_eos THEN "END_OF_SEQUENCE" ELSE "FAILED"

-----------------------------------------------------------------------------
(* PrepareNodes, in the thread that ScheduleTasks starts.                  *)

PrepareUnchanged ==
  UNCHANGED <<mainVars, awaitVars, doneVars, resultVars, callbackVars,
              contextVars, num_pending_shapes, shape_futures, lost>>

\* One node: commit its shape inference, or set its task if it is static.
PrepareNode ==
  /\ prepare.at = "node"
  /\ prepare.next <= Len(Order)
  /\ LET n == Order[prepare.next] IN
     \/ /\ n = NetOutput
        /\ prepare' = [prepare EXCEPT !.at = "push"]
        /\ NoFailure
        /\ UNCHANGED <<tasks, task>>
     \/ /\ n # NetOutput /\ n \in Dynamic
        /\ tasks' = Append(tasks, n)
        /\ task' = [task EXCEPT ![n] = "queued"]
        /\ prepare' = [prepare EXCEPT !.at = "push"]
        /\ NoFailure
     \/ /\ n # NetOutput /\ n \notin Dynamic
        /\ task' = [task EXCEPT ![n] = "ready"]
        /\ prepare' = [prepare EXCEPT !.at = "push"]
        /\ NoFailure
        /\ UNCHANGED tasks
     \/ /\ n # NetOutput /\ n \notin Dynamic
        /\ Fails("static")
        /\ prepare' = [prepare EXCEPT !.at = "eof", !.ok = FALSE]
        /\ UNCHANGED <<tasks, task>>
  /\ UNCHANGED queueVars
  /\ PrepareUnchanged

\* ready_queue_.Push(p_node_state): waits while the queue is full, and fails
\* when the caller has stopped it.
PushNode ==
  /\ prepare.at = "push"
  /\ \/ /\ ~stopped /\ Len(ready_queue) < QueueSize
        /\ ready_queue' = Append(ready_queue, Order[prepare.next])
        /\ prepare' = [prepare EXCEPT !.at = "node", !.next = @ + 1]
     \/ /\ stopped
        /\ prepare' = [prepare EXCEPT !.at = "eof", !.ok = is_eos]
        /\ UNCHANGED ready_queue
  /\ NoFailure
  /\ UNCHANGED <<stopped, tasks, task>>
  /\ PrepareUnchanged

\* ready_queue_.Push(nullptr), whatever PrepareNodes returned.
PushEof ==
  /\ \/ prepare.at = "eof"
     \/ prepare.at = "node" /\ prepare.next > Len(Order)
  /\ \/ ~stopped /\ Len(ready_queue) < QueueSize
          /\ ready_queue' = Append(ready_queue, Eof)
     \/ stopped /\ UNCHANGED ready_queue
  /\ prepare' = [prepare EXCEPT !.at = "done"]
  /\ NoFailure
  /\ UNCHANGED <<stopped, tasks, task>>
  /\ PrepareUnchanged

Prepare == PrepareNode \/ PushNode \/ PushEof

-----------------------------------------------------------------------------
(* The pool's workers: InferShape, PropagateOutputShapes and               *)
(* PrepareForExecution of one node.                                        *)

Running(n) == task[n] \in {"shapes", "futures", "deps", "compile"}

TaskUnchanged ==
  UNCHANGED <<mainVars, prepare, queueVars, doneVars, launched, propagated,
              invoked, callbackVars, contextVars, lost>>

\* ThreadPool::ThreadFunc takes the oldest task when a worker is free.
TaskStart ==
  /\ tasks # <<>>
  /\ Cardinality({n \in Nodes : Running(n)}) < PoolSize
  /\ task' = [task EXCEPT ![Head(tasks)] = "shapes"]
  /\ tasks' = Tail(tasks)
  /\ NoFailure
  /\ UNCHANGED <<num_pending_shapes, shape_futures, awaitVars, shaped>>
  /\ TaskUnchanged

\* AwaitShapesReady: every input has a shape, or the promise of one.
ShapesReady(n) ==
  /\ task[n] = "shapes"
  /\ num_pending_shapes[n] = 0
  /\ task' = [task EXCEPT ![n] = "futures"]
  /\ todo' = [todo EXCEPT ![n] = shape_futures[n]]
  /\ NoFailure
  /\ UNCHANGED <<tasks, num_pending_shapes, shape_futures, cond, shaped>>
  /\ TaskUnchanged

\* The promised shapes are there; AwaitDependentNodes is next.
FuturesReady(n) ==
  /\ task[n] = "futures"
  /\ todo[n] = {}
  /\ task' = [task EXCEPT ![n] = "deps"]
  /\ todo' = [todo EXCEPT ![n] = dependents_for_shape_inference(n)]
  /\ NoFailure
  /\ UNCHANGED <<tasks, num_pending_shapes, shape_futures, cond, shaped>>
  /\ TaskUnchanged

\* One of the waits fails.
TaskCancelled(n) ==
  /\ \/ task[n] = "shapes" /\ ShapesCancelled(n) /\ UNCHANGED awaitVars
     \/ task[n] \in {"futures", "deps"} /\ AwaitFails(n)
  /\ task' = [task EXCEPT ![n] = CancelStatus]
  /\ NoFailure
  /\ UNCHANGED <<tasks, num_pending_shapes, shape_futures, shaped>>
  /\ TaskUnchanged

\* Every consumer of n gets n's output shape, or the promise of it.
PropagateOutputShapes(n) ==
  LET dsts == {d \in Nodes : n \in UnknownInputs(d)} IN
  /\ num_pending_shapes' =
       [d \in Nodes |-> num_pending_shapes[d] - (IF d \in dsts THEN 1 ELSE 0)]
  /\ shape_futures' =
       [d \in Nodes |-> IF d \in dsts /\ ShapeIsFuture(n)
                        THEN shape_futures[d] \cup {n}
                        ELSE shape_futures[d]]

\* The rest of InferShape: it skips the inference of "compute" nodes.
InferShape(n) ==
  /\ task[n] = "deps"
  /\ todo[n] = {}
  /\ \/ /\ task' = [task EXCEPT ![n] = "compile"]
        /\ PropagateOutputShapes(n)
        /\ shaped' = IF ShapeIsFuture(n) THEN shaped ELSE shaped \cup {n}
        /\ NoFailure
     \/ /\ Fails("infer")
        /\ task' = [task EXCEPT ![n] = "FAILED"]
        /\ UNCHANGED <<num_pending_shapes, shape_futures, shaped>>
  /\ UNCHANGED <<tasks, awaitVars>>
  /\ TaskUnchanged

\* PrepareForExecution.  The task's future becomes ready.
PrepareForExecution(n) ==
  /\ task[n] = "compile"
  /\ \/ task' = [task EXCEPT ![n] = "ready"] /\ NoFailure
     \/ Fails("compile") /\ task' = [task EXCEPT ![n] = "FAILED"]
  /\ UNCHANGED <<tasks, num_pending_shapes, shape_futures, awaitVars, shaped>>
  /\ TaskUnchanged

Task(n) ==
  \/ ShapesReady(n) \/ FuturesReady(n) \/ TaskCancelled(n)
  \/ InferShape(n) \/ PrepareForExecution(n)
  \/ (Running(n) /\ Await(n))

-----------------------------------------------------------------------------
(* NodeDoneCallback::OnNodeDone, in the callback thread or, for HostNodes, *)
(* in the caller.  base is what has been propagated without it.            *)

OnNodeDone(n, base) ==
  /\ invoked' = invoked \cup {n}
  /\ \/ /\ NoFailure
        /\ shaped' = shaped \cup {n}
        /\ propagated' = base \cup {n}
        /\ released' = IF has_observer(n) /\ ~destroyed
                       THEN released \cup {n} ELSE released
        /\ UNCHANGED <<destroyed, status>>
     \/ /\ Fails("callback")            \* TaskContext::OnError
        /\ destroyed' = TRUE
        /\ status' = FALSE
        /\ propagated' = base
        /\ UNCHANGED <<shaped, released>>

CallbackUnchanged ==
  UNCHANGED <<mainVars, prepare, queueVars, poolVars, awaitVars, launched,
              is_eos>>

\* CallbackProcess takes an entry of this run whose event has occurred.
CallbackDone ==
  /\ callback = "run" /\ callback_queue # <<>>
  /\ \E n \in Nodes : /\ Head(callback_queue) = <<n, TRUE>>
                      /\ OnNodeDone(n, propagated)
  /\ callback_queue' = Tail(callback_queue)
  /\ UNCHANGED <<callback, hccl, lost>>
  /\ CallbackUnchanged

\* The callback of a node of an earlier run.  Its NodeState and its
\* SubgraphContext are gone: nothing happens, or the notification goes to
\* the SubgraphContext that now lives at the same address.
Stale(n) ==
  /\ released' \in {released, IF destroyed THEN released
                              ELSE released \cup {n}}
  /\ NoFailure
  /\ UNCHANGED <<destroyed, propagated, shaped, invoked, status>>

\* CallbackProcess takes an entry that an earlier run left in the queue.
StaleCallback ==
  /\ callback = "run" /\ callback_queue # <<>>
  /\ \E n \in Nodes : Head(callback_queue) = <<n, FALSE>> /\ Stale(n)
  /\ callback_queue' = Tail(callback_queue)
  /\ UNCHANGED <<callback, hccl, lost>>
  /\ CallbackUnchanged

\* rtEventSynchronize fails: the thread ends and the queue stays as it is.
EventFails ==
  /\ callback = "run" /\ callback_queue # <<>>
  /\ Head(callback_queue) # EofEntry
  /\ Fails("event")
  /\ callback_queue' = Tail(callback_queue)
  /\ callback' = "ended"
  /\ lost' = "now"
  /\ UNCHANGED <<hccl, doneVars, propagated, shaped, invoked, status>>
  /\ CallbackUnchanged

CallbackEof ==
  /\ callback = "run" /\ callback_queue # <<>>
  /\ Head(callback_queue) = EofEntry
  /\ callback_queue' = Tail(callback_queue)
  /\ callback' = "ended"
  /\ NoFailure
  /\ UNCHANGED <<hccl, doneVars, propagated, shaped, invoked, status, lost>>
  /\ CallbackUnchanged

CallbackProcess == CallbackDone \/ StaleCallback \/ EventFails \/ CallbackEof

\* HCCL calls back from a thread of its own.
HcclDone(n) ==
  /\ \/ /\ <<n, TRUE>> \in hccl
        /\ hccl' = hccl \ {<<n, TRUE>>}
        /\ OnNodeDone(n, propagated)
     \/ /\ <<n, FALSE>> \in hccl
        /\ hccl' = hccl \ {<<n, FALSE>>}
        /\ Stale(n)
  /\ UNCHANGED <<callback_queue, callback, lost>>
  /\ CallbackUnchanged

-----------------------------------------------------------------------------
(* The caller: HybridModelExecutor::Execute.                               *)

Goto(l) == main' = l /\ UNCHANGED <<cur, ret>>

Error(s) == main' = "error" /\ ret' = s /\ cur' = None

\* ResetExecutionContext starts a callback thread on the queue that earlier
\* runs have used; ScheduleTasks starts PrepareNodes.
Execute ==
  /\ main = "idle"
  /\ main' = "pop" /\ ret' = "SUCCESS" /\ UNCHANGED cur
  /\ callback' = "run"
  /\ prepare' = [prepare EXCEPT !.at = "node"]
  /\ lost' = IF lost = "no" THEN "no" ELSE "before"
  /\ NoFailure
  /\ UNCHANGED <<queueVars, poolVars, awaitVars, doneVars, resultVars,
                 callback_queue, hccl, contextVars>>

LaunchUnchanged ==
  UNCHANGED <<prepare, poolVars, stopped, is_eos, lost>>

\* The NetOutput is skipped without waiting for its inputs.
BadLaunchPop ==
  /\ main = "pop" /\ ready_queue # <<>>
  /\ ready_queue' = Tail(ready_queue)
  /\ \/ /\ Head(ready_queue) = Eof
        /\ Goto("join")
     \/ /\ Head(ready_queue) = NetOutput
        /\ Goto("pop")
     \/ /\ Head(ready_queue) \notin {Eof, NetOutput}
        /\ cur' = Head(ready_queue)
        /\ main' = "prepared"
        /\ UNCHANGED ret
  /\ NoFailure
  /\ UNCHANGED <<awaitVars, doneVars, resultVars, callbackVars, status>>
  /\ LaunchUnchanged

\* LaunchTasks takes the next node.
LaunchPop ==
  /\ main = "pop" /\ ready_queue # <<>>
  /\ ready_queue' = Tail(ready_queue)
  /\ \/ /\ Head(ready_queue) = Eof
        /\ Goto("join")
     \/ /\ Head(ready_queue) # Eof
        /\ cur' = Head(ready_queue)
        /\ main' = IF cur' = NetOutput THEN "shapes" ELSE "prepared"
        /\ UNCHANGED ret
  /\ NoFailure
  /\ UNCHANGED <<awaitVars, doneVars, resultVars, callbackVars, status>>
  /\ LaunchUnchanged

\* AwaitShapesReady of the NetOutput node.
OutputShapesReady ==
  /\ main = "shapes" /\ num_pending_shapes[cur] = 0
  /\ todo' = [todo EXCEPT ![Main] = shape_futures[cur]]
  /\ Goto("futures")
  /\ NoFailure
  /\ UNCHANGED <<cond, ready_queue, doneVars, resultVars, callbackVars, status>>
  /\ LaunchUnchanged

\* AwaitInputTensors waits for nothing.
BadAwaitInputTensors ==
  /\ \/ main = "futures" /\ todo[Main] = {}
     \/ main = "prepared" /\ task[cur] = "ready"
  /\ Goto("inputs")
  /\ NoFailure
  /\ UNCHANGED <<awaitVars, ready_queue, doneVars, resultVars, callbackVars,
                 status>>
  /\ LaunchUnchanged

\* WaitForPrepareDone, or the NetOutput's shapes: AwaitInputTensors is next.
AwaitInputTensors ==
  /\ \/ main = "futures" /\ todo[Main] = {}
     \/ main = "prepared" /\ task[cur] = "ready"
  /\ todo' = [todo EXCEPT ![Main] = dependents_for_execution(cur)]
  /\ Goto("inputs")
  /\ NoFailure
  /\ UNCHANGED <<cond, ready_queue, doneVars, resultVars, callbackVars, status>>
  /\ LaunchUnchanged

\* A wait of the caller fails, or the node's preparation did.
LaunchCancelled ==
  /\ \/ /\ main = "shapes" /\ ShapesCancelled(cur)
        /\ Error(CancelStatus) /\ UNCHANGED awaitVars
     \/ /\ main \in {"futures", "inputs"} /\ AwaitFails(Main)
        /\ Error(CancelStatus)
     \/ /\ main = "prepared" /\ task[cur] \in {"FAILED", "END_OF_SEQUENCE"}
        /\ Error(task[cur]) /\ UNCHANGED awaitVars
  /\ NoFailure
  /\ UNCHANGED <<ready_queue, doneVars, resultVars, callbackVars, status>>
  /\ LaunchUnchanged

\* The NetOutput has nothing to execute.
OutputDone ==
  /\ main = "inputs" /\ todo[Main] = {} /\ cur = NetOutput
  /\ main' = "pop" /\ cur' = None /\ UNCHANGED ret
  /\ NoFailure
  /\ UNCHANGED <<awaitVars, ready_queue, doneVars, resultVars, callbackVars,
                 status>>
  /\ LaunchUnchanged

\* ExecutionEngine::ExecuteAsync launches cur.  The outputs of all but
\* "compute" nodes propagate here.
Launch ==
  /\ main = "inputs" /\ todo[Main] = {} /\ cur # NetOutput
  /\ launched' = Append(launched, cur)
  /\ main' = "pop" /\ cur' = None
  /\ UNCHANGED <<ret, awaitVars, ready_queue>>
  /\ LaunchUnchanged

PropagateOutputs ==
  IF Type[cur] = "compute" THEN propagated ELSE propagated \cup {cur}

\* A host node calls back before ExecuteTask returns.
ExecuteHost ==
  /\ Launch
  /\ cur \in HostNodes
  /\ OnNodeDone(cur, PropagateOutputs)
  /\ UNCHANGED callbackVars

\* HcomExecEnqueueOperation keeps the callback.
ExecuteHccl ==
  /\ Launch
  /\ cur \in Hccl
  /\ hccl' = hccl \cup {<<cur, TRUE>>}
  /\ propagated' = PropagateOutputs
  /\ NoFailure
  /\ UNCHANGED <<doneVars, shaped, invoked, status, callback_queue, callback>>

\* Every other executor registers the callback after the kernel's launch.
ExecuteDevice ==
  /\ Launch
  /\ cur \notin HostNodes \cup Hccl
  /\ callback_queue' = Append(callback_queue, <<cur, TRUE>>)
  /\ propagated' = PropagateOutputs
  /\ NoFailure
  /\ UNCHANGED <<doneVars, shaped, invoked, status, callback, hccl>>

\* ExecuteAsync fails before or when it launches the kernel, or after it,
\* when the callback cannot be registered: TaskContext::RegisterCallback
\* then destroys the callback manager, which joins its thread.
ExecuteFails ==
  /\ main = "inputs" /\ todo[Main] = {} /\ cur # NetOutput
  /\ \/ /\ Fails("exec")
        /\ Error("FAILED")
        /\ UNCHANGED <<launched, callback_queue>>
     \/ /\ cur \notin HostNodes \cup Hccl
        /\ Fails("register")
        /\ launched' = Append(launched, cur)
        /\ callback_queue' = Append(callback_queue, EofEntry)
        /\ Goto("register")
  /\ UNCHANGED <<awaitVars, ready_queue, doneVars, propagated, shaped, invoked,
                 callback, hccl, status>>
  /\ LaunchUnchanged

RegisterJoin ==
  /\ main = "register" /\ callback = "ended"
  /\ callback' = "none"
  /\ Error("FAILED")
  /\ NoFailure
  /\ UNCHANGED <<awaitVars, ready_queue, doneVars, resultVars, callback_queue,
                 hccl, status>>
  /\ LaunchUnchanged

LaunchTasks ==
  \/ LaunchPop \/ OutputShapesReady \/ AwaitInputTensors \/ LaunchCancelled
  \/ OutputDone \/ ExecuteHost \/ ExecuteHccl \/ ExecuteDevice
  \/ ExecuteFails \/ RegisterJoin
  \/ (main \in {"futures", "inputs"} /\ Await(Main))

FinishUnchanged ==
  UNCHANGED <<prepare, poolVars, awaitVars, resultVars, lost>>

\* SubgraphContext::OnError.
OnError ==
  /\ main = "error"
  /\ destroyed' = TRUE
  /\ Goto("stop")
  /\ NoFailure
  /\ UNCHANGED <<queueVars, released, callbackVars, contextVars>>
  /\ FinishUnchanged

\* SetErrorCode and ready_queue_.Stop.
StopQueue ==
  /\ main = "stop"
  /\ status' = FALSE
  /\ stopped' = TRUE
  /\ Goto("join")
  /\ NoFailure
  /\ UNCHANGED <<ready_queue, doneVars, callbackVars, is_eos>>
  /\ FinishUnchanged

\* ScheduleTasks waits for PrepareNodes; its result counts when the launch
\* succeeded.
PrepareJoin ==
  /\ main = "join" /\ prepare.at = "done"
  /\ ret' = IF ~stopped /\ ~prepare.ok THEN "FAILED" ELSE ret
  /\ main' = IF ret' = "SUCCESS" THEN "sync" ELSE "cleanup"
  /\ NoFailure
  /\ UNCHANGED <<cur, queueVars, doneVars, callbackVars, contextVars>>
  /\ FinishUnchanged

\* GraphExecutionContext::Synchronize.
Synchronize ==
  /\ main = "sync"
  /\ main' = "cleanup" /\ UNCHANGED cur
  /\ \/ NoFailure /\ UNCHANGED <<ret, is_eos>>
     \/ Fails("sync") /\ ret' = "FAILED" /\ UNCHANGED is_eos
     \/ Fails("eos") /\ ret' = "END_OF_SEQUENCE" /\ is_eos' = TRUE
  /\ UNCHANGED <<queueVars, doneVars, callbackVars, status>>
  /\ FinishUnchanged

\* Destroy does not join the callback thread.
BadCleanup ==
  /\ main = "cleanup"
  /\ callback_queue' = Append(callback_queue, EofEntry)
  /\ Goto("destroy")
  /\ NoFailure
  /\ UNCHANGED <<queueVars, doneVars, callback, hccl, contextVars>>
  /\ FinishUnchanged

\* CallbackManager::Destroy, unless a failed registration has done it.
Cleanup ==
  /\ main = "cleanup"
  /\ \/ /\ callback # "none"
        /\ callback_queue' = Append(callback_queue, EofEntry)
        /\ Goto("drain")
     \/ /\ callback = "none"
        /\ Goto("destroy")
        /\ UNCHANGED callback_queue
  /\ NoFailure
  /\ UNCHANGED <<queueVars, doneVars, callback, hccl, contextVars>>
  /\ FinishUnchanged

CallbackJoin ==
  /\ main = "drain" /\ callback = "ended"
  /\ callback' = "none"
  /\ Goto("destroy")
  /\ NoFailure
  /\ UNCHANGED <<queueVars, doneVars, callback_queue, hccl, contextVars>>
  /\ FinishUnchanged

\* ~SubgraphExecutor joins the workers; tasks not started are dropped.  What
\* is left of callbacks, in the queue or with HCCL, outlives the run.
Destroy ==
  /\ main = "destroy"
  /\ \A n \in Nodes : ~Running(n)
  /\ main' = "idle" /\ cur' = None /\ UNCHANGED ret
  /\ prepare' = FreshRun.prepare
  /\ ready_queue' = <<>> /\ stopped' = FALSE
  /\ tasks' = <<>> /\ task' = FreshRun.task
  /\ num_pending_shapes' = FreshRun.pending
  /\ shape_futures' = FreshRun.futures
  /\ todo' = FreshRun.todo /\ cond' = FreshRun.cond
  /\ released' = {} /\ destroyed' = FALSE
  /\ launched' = <<>> /\ propagated' = {} /\ shaped' = {} /\ invoked' = {}
  /\ callback_queue' = [i \in DOMAIN callback_queue |->
                          LET e == callback_queue[i] IN
                          IF e = EofEntry THEN e ELSE <<e[1], FALSE>>]
  /\ hccl' = {<<e[1], FALSE>> : e \in hccl}
  /\ lost' = IF \E e \in hccl : e[2] THEN "now" ELSE lost
  /\ UNCHANGED <<callback, contextVars, budget>>

Finish ==
  \/ OnError \/ StopQueue \/ PrepareJoin \/ Synchronize
  \/ Cleanup \/ CallbackJoin \/ Destroy

Next ==
  \/ Execute \/ LaunchTasks \/ Finish
  \/ Prepare
  \/ TaskStart \/ \E n \in Nodes : Task(n)
  \/ CallbackProcess \/ \E n \in Hccl : HcclDone(n)

\* Every thread that can take a step eventually takes one; a call of Execute
\* is the environment's choice.  Failures need no fairness of their own.
Fairness ==
  /\ WF_vars(LaunchTasks \/ Finish)
  /\ WF_vars(Prepare)
  /\ WF_vars(TaskStart)
  /\ \A n \in Nodes : WF_vars(Task(n))
  /\ WF_vars(CallbackProcess)
  /\ \A n \in Hccl : WF_vars(HcclDone(n))

Spec == Init /\ [][Next]_vars /\ Fairness

-----------------------------------------------------------------------------
(* Properties.                                                             *)

\* The type of every variable.
TypeOK ==
  /\ main \in {"idle", "pop", "shapes", "futures", "prepared", "inputs",
               "register", "error", "stop", "join", "sync", "cleanup",
               "drain", "destroy"}
  /\ cur \in Nodes \cup {None}
  /\ ret \in {"SUCCESS", "FAILED", "END_OF_SEQUENCE"}
  /\ prepare \in [at : {"off", "node", "push", "eof", "done"},
                  next : 1 .. Len(Order) + 1, ok : BOOLEAN]
  /\ ready_queue \in Seq(Nodes \cup {Eof}) /\ Len(ready_queue) <= QueueSize
  /\ tasks \in Seq(Nodes)
  /\ task \in [Nodes -> {"none", "queued", "shapes", "futures", "deps",
                         "compile", "ready", "FAILED", "END_OF_SEQUENCE"}]
  /\ num_pending_shapes \in [Nodes -> Nat]
  /\ shape_futures \in [Nodes -> SUBSET Nodes]
  /\ todo \in [Threads -> SUBSET Nodes]
  /\ cond \in [Threads -> Nodes \cup {None}]
  /\ launched \in Seq(Nodes)
  /\ {released, propagated, shaped, invoked} \subseteq SUBSET Nodes
  /\ callback_queue \in Seq((Nodes \cup {Eof}) \X BOOLEAN)
  /\ callback \in {"none", "run", "ended"}
  /\ hccl \subseteq Hccl \X BOOLEAN
  /\ {stopped, destroyed, status, is_eos} \subseteq BOOLEAN
  /\ budget \in 0 .. MaxFaults
  /\ lost \in {"no", "now", "before"}

\* No wait has been cut short by Destroy, and no notification was lost.
WaitsSound == ~destroyed /\ lost = "no"

\* No node is ahead of its inputs.  When its shapes have been inferred, the
\* shapes of all its inputs were final, and the values it reads during
\* inference had been computed and copied to the host; its kernel is launched
\* only when every input tensor has been handed over by its producer, which
\* for "compute" nodes the callback thread does.
InputsReady ==
  WaitsSound =>
    /\ \A n \in Dynamic :
         task[n] \in {"compile", "ready"} =>
           UnknownInputs(n) \subseteq shaped /\ ConstInputs[n] \subseteq released
    /\ \A i \in DOMAIN launched : Inputs[launched[i]] \subseteq propagated

\* ExecuteAsync has returned SUCCESS: every node was launched, once and in
\* topological order, and the addresses and the shapes of the graph's
\* outputs are valid.
OutputsValid ==
  (/\ main \in {"sync", "cleanup", "drain", "destroy"}
   /\ ret = "SUCCESS"
   /\ WaitsSound)
  => /\ launched = SubSeq(Order, 1, Len(Order) - 1)
     /\ Inputs[NetOutput] \subseteq propagated
     /\ UnknownInputs(NetOutput) \subseteq shaped

\* Nothing of a run outlives it (and every variable keeps its range).  Unless
\* a launch failed, no task is left in the pool, waiting or running, when
\* ScheduleTasks returns, also when PrepareNodes failed: the executor is
\* destroyed with its ShapeInferenceEngine before its pool.  And Execute
\* returns only when the callback of every kernel it launched was invoked.
\* When the run fails there are two exceptions: the callbacks HCCL still
\* owes, and the one whose registration failed.
NothingOutlivesRun ==
  /\ TypeOK
  /\ main \in {"sync", "cleanup", "drain", "destroy"} /\ ~stopped =>
       tasks = <<>> /\ \A n \in Nodes : ~Running(n)
  /\ main = "destroy" /\ lost = "no" =>
       /\ callback_queue = <<>>
       /\ \A i \in DOMAIN launched :
            \/ launched[i] \in invoked
            \/ ret # "SUCCESS" /\ (launched[i] \in Hccl \/ i = Len(launched))

\* Until the first failure every Execute returns SUCCESS: no wait is ever
\* cut short by a queue that is full, a pool that is busy or an order of
\* events.
NoSpuriousFailure ==
  main = "destroy" /\ budget = MaxFaults => ret = "SUCCESS"

\* Every Execute returns, whatever fails.  While no event synchronisation
\* has failed this is without the help of any timeout.
ExecuteReturns == main = "pop" ~> main = "idle"

=============================================================================
