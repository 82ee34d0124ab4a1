--------------------- MODULE HybridModelPipelineExecutor ---------------------
(***************************************************************************)
(* A dynamic-shape graph that was divided into stages runs several         *)
(* iterations per call of Execute, on a ring of StageExecutors, each with  *)
(* a thread, a task queue and an execution context of its own.  Execute    *)
(* puts one task per stage on the queue of executor 0; an executor that    *)
(* finishes a stage hands the task, for the next iteration, to the next    *)
(* executor (ge/hybrid/executor/hybrid_model_pipeline_executor.cc).        *)
(*                                                                         *)
(* An execution context is reduced to the iteration it was last reset for  *)
(* (ctx), its callback thread (cb) and the end marks that were left for it *)
(* (eofs), and what earlier failures have left behind (root).  What a      *)
(* stage does inside is the subject of SubgraphExecutor.                   *)
(***************************************************************************)
EXTENDS Integers, Sequences

CONSTANTS
  NumStages,      \* config_.num_stages
  NumExecutors,   \* config_.num_executors, kNumExecutors
  LoopCounts,     \* the values args.num_loops takes: ITER_NUM, or 10
  Faults,         \* the kinds of failure that may happen
  MaxFaults       \* bound: how many failures may happen

ASSUME PipelineAssumption ==
  /\ NumStages \in Nat \ {0}
  /\ NumExecutors \in Nat \ {0, 1}
  /\ LoopCounts \subseteq Nat
  /\ MaxFaults \in Nat

Stages == 0 .. NumStages - 1
Executors == 0 .. NumExecutors - 1

StageTask == [stage : Stages, iteration : Nat]

VARIABLES
  main,          \* where the caller is in Execute
  index,         \* its loop variable
  loop_count,    \* args.num_loops of the call
  has_error,
  iteration_,    \* the first iteration of the next call
  iteration_end, \* config_.iteration_end
  result,        \* of the last call: status, and the iteration of its outputs
  pc,            \* executor -> where its thread is in Start
  loop_idx,      \* executor -> tasks it has finished in this call
  task,          \* executor -> the task it took last
  task_queue_,   \* executor -> its tasks
  ctx,
  cb,            \* executor -> its CallbackManager: "none" (ret_future_ is not
                 \* valid), "run", "ended" (the thread has returned by itself),
                 \* or "old" (Init has started a thread, which has returned, and
                 \* waits for the one before it)
  eofs,          \* executor -> end marks in callback_queue_ for which Destroy
                 \* found no thread
  root,          \* executor -> its root_graph_executor_ and context: "good",
                 \* "error" (the error code or is_eos_ is set: waiting may be
                 \* cancelled) or "stopped" (ready_queue_ is)
  faults,        \* how many failures have happened
  done,          \* history: stage -> the iteration its task stands for
  lapped,        \* history: a task came round to executor 0 before Execute had
                 \* put all the first tasks on its queue
  lost           \* history: executor -> a callback could not be registered or
                 \* its event not be waited for

caller == <<main, index, loop_count, has_error, iteration_, iteration_end, result>>
contexts == <<ctx, cb, eofs, root, lost>>
history == <<done, lapped>>
pvars == <<caller, pc, loop_idx, task, task_queue_, contexts, faults, history>>

NoTask == [stage |-> NumStages, iteration |-> 0]

Init ==
  /\ main = "idle" /\ index = 0 /\ loop_count = 0 /\ has_error = FALSE
  /\ iteration_ = 0 /\ iteration_end = 0
  /\ result = [status |-> "none", iteration |-> 0]
  /\ pc = [e \in Executors |-> "idle"]
  /\ loop_idx = [e \in Executors |-> 0]
  /\ task = [e \in Executors |-> NoTask]
  /\ task_queue_ = [e \in Executors |-> <<>>]
  /\ ctx = [e \in Executors |-> 0]
  /\ cb = [e \in Executors |-> "none"]
  /\ eofs = [e \in Executors |-> 0]
  /\ root = [e \in Executors |-> "good"]
  /\ lost = [e \in Executors |-> FALSE]
  /\ faults = 0
  /\ done = [s \in Stages |-> 0]
  /\ lapped = FALSE

MayFail(kind) == kind \in Faults /\ faults < MaxFaults

Fault == faults' = faults + 1

-----------------------------------------------------------------------------
(* HybridModelPipelineExecutor: the calling thread.                        *)

\* GE_CHECK_GE(loop_count, 2)
Execute(k) ==
  /\ main = "idle"
  /\ loop_count' = k
  /\ IF k < 2
     THEN /\ result' = [status |-> "failed", iteration |-> 0]
          /\ UNCHANGED <<main, index, has_error, done>>
     ELSE /\ main' = "start"
          /\ index' = 0
          /\ has_error' = FALSE
          /\ done' = [s \in Stages |-> iteration_]
          /\ UNCHANGED result
  /\ UNCHANGED <<iteration_, iteration_end, pc, loop_idx, task, task_queue_, contexts, faults, lapped>>

\* Mutants: the stages are forgotten; executor 0 always takes one more.
BadNumLoops(e) == loop_count \div NumExecutors

WorseNumLoops(e) ==
  (IF e <= loop_count % loop_count THEN loop_count \div NumExecutors + 1
                                   ELSE loop_count \div NumExecutors) * NumStages

\* The number of tasks an executor takes.  iteration_count % iteration_count
\* is zero, so no executor takes the odd iteration.
NumLoops(e) ==
  (IF e < loop_count % loop_count THEN loop_count \div NumExecutors + 1
                                  ELSE loop_count \div NumExecutors) * NumStages

AtLoop(e, i) == IF i < NumLoops(e) THEN "pop" ELSE "done"

\* Reset empties the queue of what the last call has left in it, then
\* std::async runs Start, which may fail to set the device's context.
StartExecutor ==
  /\ main = "start"
  /\ task_queue_' = [task_queue_ EXCEPT ![index] = <<>>]
  /\ task' = [task EXCEPT ![index] = NoTask]
  /\ loop_idx' = [loop_idx EXCEPT ![index] = 0]
  /\ \/ pc' = [pc EXCEPT ![index] = AtLoop(index, 0)] /\ UNCHANGED faults
     \/ MayFail("context") /\ Fault /\ pc' = [pc EXCEPT ![index] = "failed"]
  /\ IF index < NumExecutors - 1
     THEN main' = "start" /\ index' = index + 1 /\ UNCHANGED iteration_end
     ELSE main' = "push" /\ index' = 0 /\ iteration_end' = iteration_ + loop_count
  /\ UNCHANGED <<loop_count, has_error, iteration_, result, contexts, history>>

ExecuteAsync(e, t) == task_queue_' = [task_queue_ EXCEPT ![e] = Append(@, t)]

PushTask ==
  /\ main = "push"
  /\ ExecuteAsync(0, [stage |-> index, iteration |-> iteration_])
  /\ IF index < NumStages - 1 THEN main' = "push" /\ index' = index + 1
                              ELSE main' = "wait" /\ index' = 0
  /\ UNCHANGED <<loop_count, has_error, iteration_, iteration_end, result>>
  /\ UNCHANGED <<pc, loop_idx, task, contexts, faults, history>>

\* Synchronize fails or ends the sequence, which sets is_eos_.
SyncFails(e) ==
  /\ MayFail("sync") /\ Fault
  /\ root' \in {root, [root EXCEPT ![e] = "error"]}

\* futures[i].get(), and then Synchronize.
Wait ==
  /\ main = "wait"
  /\ pc[index] \in {"done", "failed", "unexpected"}
  /\ \/ has_error' = (has_error \/ pc[index] # "done") /\ UNCHANGED <<root, faults>>
     \/ pc[index] = "done" /\ SyncFails(index) /\ has_error' = TRUE
  /\ IF index < NumExecutors - 1 THEN main' = "wait" /\ index' = index + 1
                                 ELSE main' = "return" /\ index' = 0
  /\ UNCHANGED <<loop_count, iteration_, iteration_end, result>>
  /\ UNCHANGED <<pc, loop_idx, task, task_queue_, ctx, cb, eofs, lost, history>>

LastIterExecutor == loop_count % NumExecutors

Return ==
  /\ main = "return"
  /\ main' = "idle"
  /\ iteration_' = iteration_end
  /\ \/ /\ has_error
        /\ result' = [status |-> "failed", iteration |-> 0] /\ UNCHANGED faults
     \/ /\ ~ has_error
        /\ result' = [status |-> "ok", iteration |-> ctx[LastIterExecutor]] /\ UNCHANGED faults
     \/ /\ ~ has_error /\ MayFail("outputs") /\ Fault
        /\ result' = [status |-> "failed", iteration |-> 0]
  /\ UNCHANGED <<index, loop_count, has_error, iteration_end>>
  /\ UNCHANGED <<pc, loop_idx, task, task_queue_, contexts, history>>

-----------------------------------------------------------------------------
(* StageExecutor::Start: the thread of executor e.                         *)

Pop(e) ==
  /\ pc[e] = "pop"
  /\ task_queue_[e] # <<>>
  /\ LET t == Head(task_queue_[e])
     IN /\ task' = [task EXCEPT ![e] = t]
        /\ pc' = [pc EXCEPT ![e] = IF t.iteration >= iteration_end THEN "unexpected"
                                   ELSE IF t.stage = 0 THEN "reset" ELSE "run"]
  /\ task_queue_' = [task_queue_ EXCEPT ![e] = Tail(@)]
  /\ UNCHANGED <<caller, loop_idx, contexts, faults, history>>

\* CallbackManager::Destroy does nothing without a thread to wait for; the
\* end mark it pushes is taken by the thread, or stays in the queue.
Destroy(e) ==
  /\ cb' = [cb EXCEPT ![e] = "none"]
  /\ eofs' = [eofs EXCEPT ![e] = IF cb[e] = "ended" THEN @ + 1 ELSE @]

\* Mutant: Init does not care for the thread of the last Init.
BadReset(e) ==
  /\ pc[e] = "reset"
  /\ cb' = [cb EXCEPT ![e] = "run"]
  /\ pc' = [pc EXCEPT ![e] = "open"]
  /\ UNCHANGED <<caller, loop_idx, task, task_queue_, ctx, eofs, root, lost, faults, history>>

\* CallbackManager::Init starts a thread and assigns it to ret_future_: while
\* the thread of the last Init lives, the assignment waits for it, and
\* Destroy, which is not reached, would end it.
Reset(e) ==
  /\ pc[e] = "reset"
  /\ \/ /\ cb' = [cb EXCEPT ![e] = "run"]
        /\ pc' = [pc EXCEPT ![e] = IF cb[e] = "run" THEN "stuck" ELSE "open"]
        /\ UNCHANGED faults
     \/ /\ MayFail("reset") /\ Fault      \* no thread is started
        /\ pc' = [pc EXCEPT ![e] = "failed"]
        /\ UNCHANGED cb
  /\ UNCHANGED <<caller, loop_idx, task, task_queue_, ctx, eofs, root, lost, history>>

\* The rest of ResetExecutionContext, and SetInputs, whose result is ignored.
Open(e) ==
  /\ pc[e] = "open"
  /\ \/ /\ ctx' = [ctx EXCEPT ![e] = task[e].iteration]
        /\ pc' = [pc EXCEPT ![e] = "run"]
        /\ UNCHANGED faults
     \/ /\ MayFail("reset") /\ Fault
        /\ pc' = [pc EXCEPT ![e] = "failed"]
        /\ UNCHANGED ctx
  /\ UNCHANGED <<caller, loop_idx, task, task_queue_, cb, eofs, root, lost, history>>

\* TaskContext::RegisterCallback fails and destroys the callback manager; the
\* stage fails, or goes on when the callback was the profiler's.
RegisterFails(e) ==
  /\ MayFail("register") /\ Fault
  /\ Destroy(e) /\ lost' = [lost EXCEPT ![e] = TRUE]
  /\ \/ pc' = [pc EXCEPT ![e] = "sync"] /\ UNCHANGED root
     \/ pc' = [pc EXCEPT ![e] = "failed"] /\ root' = [root EXCEPT ![e] = "stopped"]

\* ScheduleTasks fails: by itself, or as the callbacks or shapes it waits for
\* do not come any more.  When LaunchTasks fails it leaves ready_queue_
\* stopped for good.
ScheduleFails(e) ==
  /\ \/ MayFail("launch") /\ Fault
     \/ (cb[e] # "run" \/ root[e] # "good") /\ UNCHANGED faults
  /\ pc' = [pc EXCEPT ![e] = "failed"]
  /\ root' \in {root, [root EXCEPT ![e] = "stopped"]}
  /\ UNCHANGED <<cb, eofs, lost>>

PartialExecuteAsync(e) ==
  /\ pc[e] = "run"
  /\ \/ /\ root[e] # "stopped"
        /\ pc' = [pc EXCEPT ![e] = "sync"] /\ UNCHANGED <<cb, eofs, root, lost, faults>>
     \/ root[e] # "stopped" /\ RegisterFails(e)
     \/ ScheduleFails(e)
  /\ UNCHANGED <<caller, loop_idx, task, task_queue_, ctx, history>>

NextExecutor(e) == (e + 1) % NumExecutors

\* The stage has ended: the last stage ends the callback thread, and the
\* task goes to the next executor for the next iteration.
Finish(e) ==
  LET t == task[e]
  IN /\ pc[e] = "sync"
     /\ IF t.stage < NumStages - 1 THEN UNCHANGED <<cb, eofs>> ELSE Destroy(e)
     /\ ExecuteAsync(NextExecutor(e), [t EXCEPT !.iteration = @ + 1])
     /\ loop_idx' = [loop_idx EXCEPT ![e] = @ + 1]
     /\ pc' = [pc EXCEPT ![e] = AtLoop(e, loop_idx[e] + 1)]
     /\ task' = [task EXCEPT ![e] = NoTask]
     /\ done' = [done EXCEPT ![t.stage] = @ + 1]
     /\ lapped' = (lapped \/ (main = "push" /\ NextExecutor(e) = 0))
     /\ UNCHANGED <<caller, ctx, root, lost, faults>>

\* Mutant: the failure is logged, and the task handed on.
BadFailSync(e) ==
  /\ pc[e] = "sync"
  /\ MayFail("sync") /\ Fault
  /\ ExecuteAsync(NextExecutor(e), [task[e] EXCEPT !.iteration = @ + 1])
  /\ loop_idx' = [loop_idx EXCEPT ![e] = @ + 1]
  /\ task' = [task EXCEPT ![e] = NoTask]
  /\ pc' = [pc EXCEPT ![e] = AtLoop(e, loop_idx[e] + 1)]
  /\ UNCHANGED <<caller, contexts, history>>

\* Synchronize fails, or ends the sequence: the callback thread is ended,
\* the thread returns and nobody is told.  (Without a profiler the call of
\* context_.profiler->Dump on the way is undefined; the process may end.)
FailSync(e) ==
  /\ pc[e] = "sync"
  /\ SyncFails(e) /\ Destroy(e)
  /\ pc' = [pc EXCEPT ![e] = "failed"]
  /\ UNCHANGED <<caller, loop_idx, task, task_queue_, ctx, lost, history>>

StageStep(e) ==
  Pop(e) \/ Reset(e) \/ Open(e) \/ PartialExecuteAsync(e) \/ Finish(e) \/ FailSync(e)

-----------------------------------------------------------------------------
(* CallbackManager::CallbackProcess: the callback thread of executor e, or *)
(* two threads while Init waits for the one before.                        *)

ThreadEnds(e) ==
  \/ /\ pc[e] # "stuck"
     /\ cb' = [cb EXCEPT ![e] = "ended"] /\ UNCHANGED pc
  \/ /\ pc[e] = "stuck" /\ cb[e] = "run"      \* the new one
     /\ cb' = [cb EXCEPT ![e] = "old"] /\ UNCHANGED pc
  \/ /\ pc[e] = "stuck"                        \* the one before
     /\ cb' = [cb EXCEPT ![e] = IF @ = "run" THEN "run" ELSE "ended"]
     /\ pc' = [pc EXCEPT ![e] = "open"]

\* The thread takes an end mark that was not meant for it.
CallbackEof(e) ==
  /\ cb[e] \in {"run", "old"} /\ eofs[e] > 0
  /\ eofs' = [eofs EXCEPT ![e] = @ - 1]
  /\ ThreadEnds(e)
  /\ UNCHANGED <<caller, loop_idx, task, task_queue_, ctx, root, lost, faults, history>>

\* rtEventSynchronize fails and the thread returns, or a callback fails and
\* sets the error code of the context (TaskContext::OnError).
CallbackFails(e) ==
  /\ cb[e] \in {"run", "old"} /\ MayFail("callback") /\ Fault
  /\ \/ ThreadEnds(e) /\ lost' = [lost EXCEPT ![e] = TRUE] /\ UNCHANGED root
     \/ /\ root' = [root EXCEPT ![e] = IF @ = "good" THEN "error" ELSE @]
        /\ UNCHANGED <<pc, cb, lost>>
  /\ UNCHANGED <<caller, loop_idx, task, task_queue_, ctx, eofs, history>>

CallbackStep(e) == CallbackEof(e) \/ CallbackFails(e)

CallerStep == StartExecutor \/ PushTask \/ Wait \/ Return

Next ==
  \/ \E k \in LoopCounts : Execute(k)
  \/ CallerStep
  \/ \E e \in Executors : StageStep(e) \/ CallbackStep(e)

Spec == Init /\ [][Next]_pvars

-----------------------------------------------------------------------------
(* Properties.                                                             *)

\* A task taken from a queue is one of the call's iterations, or Start
\* reports an "Unexpected iteration".
NoneUnexpected == \A e \in Executors : pc[e] # "unexpected"

\* A stage works in the context that stage 0 of the same iteration has
\* reset (ResetExecutionContext), unless a task was overtaken and the
\* executor has lost a callback thread, whose life would else keep it from
\* resetting its context too early; the callback thread lives unless the
\* executor has lost one; and no two executors work for the same iteration.
ContextOwn ==
  /\ \A e \in Executors : pc[e] \in {"run", "sync"} =>
       /\ cb[e] = "run" \/ lost[e]
       /\ ctx[e] = task[e].iteration \/ (lost[e] /\ lapped)
  /\ \A e, f \in Executors : pc[e] \in {"run", "sync"} /\ pc[f] \in {"run", "sync"} /\ e # f
                               => task[e].iteration # task[f].iteration

\* When a call of Execute succeeds every stage has run all its iterations, but
\* for the loop_count % NumExecutors that no executor takes; and the outputs
\* it returns are those of iteration_end - NumExecutors, which is not the
\* last: the executor they are taken from is the one after that of the last.
OutputsComplete ==
  main = "idle" /\ result.status = "ok" =>
    /\ result.iteration = iteration_end - NumExecutors
    /\ \A s \in Stages : done[s] = iteration_end - (loop_count % NumExecutors)

\* Nobody can take another step until a stage executor does, and none can.
Hung ==
  /\ main = "wait"
  /\ \E e \in Executors : pc[e] \in {"pop", "stuck"}
  /\ \A e \in Executors : \/ pc[e] \in {"done", "failed", "unexpected"}
                          \/ pc[e] = "stuck" /\ eofs[e] = 0
                          \/ pc[e] = "pop" /\ task_queue_[e] = <<>>

\* The executors wait for each other forever, or meet a task that is not
\* of this call, only after a failure or when Execute was overtaken while
\* it was putting the first tasks on the queue: what a call leaves in the
\* queues never reaches the next, and no executor takes more than its part.
OrderlyUnlessLapped ==
  /\ Hung => faults > 0 \/ lapped
  /\ NoneUnexpected \/ lapped

\* The pipeline keeps the promise of StagePipeline.
Pipeline == INSTANCE StagePipeline WITH
  next <- done,
  st <- [s \in Stages |->
           IF main = "start" THEN "idle"
           ELSE IF \E e \in Executors : task[e].stage = s /\ pc[e] \in {"run", "sync"} THEN "running"
           ELSE IF \E e \in Executors : task[e].stage = s /\ pc[e] \in {"failed", "unexpected"} THEN "failed"
           ELSE "idle"]

PipelineSpec == Pipeline!Spec

=============================================================================
