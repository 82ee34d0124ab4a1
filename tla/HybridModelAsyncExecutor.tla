----------------------- MODULE HybridModelAsyncExecutor -----------------------
(***************************************************************************)
(* The executor of a loaded dynamic-shape model: clients put input data on *)
(* a queue, one thread takes them, runs the graph and calls the listener   *)
(* (ge/hybrid/executor/hybrid_model_async_executor.cc).  A graph of two    *)
(* stages or more is run by HybridModelPipelineExecutor, whose state this  *)
(* module shares; any other by one call of HybridModelExecutor::Execute,   *)
(* a step here that succeeds, fails or ends the sequence.                  *)
(*                                                                         *)
(* Clients call Start, Stop and EnqueueData in any order.  The queue is    *)
(* external: Push and Pop fail after Stop, and it is never started again.  *)
(***************************************************************************)
EXTENDS HybridModelPipelineExecutor

CONSTANTS
  MaxData,      \* bound: how many inputs the clients send
  MaxStarts,    \* bound: how often they call Start
  MaxStops      \* bound: how often they call Stop

VARIABLES
  pipe_executor_, \* there is a pipeline executor
  run_flag_,
  mu_,            \* Stop holds the mutex
  future_,        \* future_.valid()
  stream_,        \* the stream that executor_ was made with exists
  queue_,         \* data_inputer_: the inputs in it
  stopped,        \* data_inputer_ has been stopped
  run,            \* where the thread is in RunInternal
  current_data,
  single_ret,     \* what HybridModelExecutor::Execute has returned
  answers,        \* what the listener was called with, in order
  sent,           \* how many inputs EnqueueData has taken
  starts, stops

control == <<run_flag_, mu_, future_, stream_, stopped, starts, stops>>
avars == <<pvars, pipe_executor_, control, queue_, run, current_data, single_ret, answers, sent>>

AInit ==
  /\ Init
  /\ pipe_executor_ \in BOOLEAN
  /\ run_flag_ = FALSE /\ mu_ = FALSE /\ future_ = FALSE /\ stream_ = TRUE
  /\ queue_ = <<>> /\ stopped = FALSE
  /\ run = "none" /\ current_data = 0 /\ single_ret = "none"
  /\ answers = <<>> /\ sent = 0 /\ starts = 0 /\ stops = 0

-----------------------------------------------------------------------------
(* The clients.                                                            *)

\* A refused input is the caller's to send again: it changes nothing.
EnqueueData ==
  /\ sent < MaxData
  /\ ~ stopped
  /\ sent' = sent + 1
  /\ queue_' = Append(queue_, sent + 1)
  /\ UNCHANGED <<pvars, pipe_executor_, control, run, current_data, single_ret, answers>>

\* "Model already started" changes nothing either.
Start ==
  /\ starts < MaxStarts
  /\ ~ mu_ /\ ~ run_flag_
  /\ starts' = starts + 1
  /\ run_flag_' = TRUE
  /\ future_' = TRUE
  /\ run' = "device"
  /\ UNCHANGED <<pvars, pipe_executor_, mu_, stream_, stopped, stops, queue_, current_data, single_ret, answers, sent>>

\* Mutant: the queue is left open.
BadStop ==
  /\ stops < MaxStops
  /\ ~ mu_
  /\ stops' = stops + 1
  /\ mu_' = TRUE
  /\ run_flag_' = FALSE
  /\ UNCHANGED <<pvars, pipe_executor_, future_, stream_, stopped, starts, queue_, run, current_data, single_ret, answers, sent>>

Stop ==
  /\ stops < MaxStops
  /\ ~ mu_
  /\ stops' = stops + 1
  /\ mu_' = TRUE
  /\ run_flag_' = FALSE
  /\ stopped' = TRUE
  /\ UNCHANGED <<pvars, pipe_executor_, future_, stream_, starts, queue_, run, current_data, single_ret, answers, sent>>

\* future_.get() waits for the thread; then the stream is destroyed.
StopEnd ==
  /\ mu_
  /\ future_ => run = "none"
  /\ mu_' = FALSE
  /\ future_' = FALSE
  /\ stream_' = FALSE
  /\ UNCHANGED <<pvars, pipe_executor_, run_flag_, stopped, starts, stops, queue_, run, current_data, single_ret, answers, sent>>

-----------------------------------------------------------------------------
(* RunInternal.                                                            *)

SetDevice ==
  /\ run = "device"
  /\ \/ run' = "loop" /\ UNCHANGED faults
     \/ MayFail("device") /\ Fault /\ run' = "none"
  /\ UNCHANGED <<caller, pc, loop_idx, task, task_queue_, contexts, history>>
  /\ UNCHANGED <<pipe_executor_, control, queue_, current_data, single_ret, answers, sent>>

Loop ==
  /\ run = "loop"
  /\ run' = IF run_flag_ THEN "pop" ELSE "none"
  /\ UNCHANGED <<pvars, pipe_executor_, control, queue_, current_data, single_ret, answers, sent>>

\* Mutant: a stopped queue does not wake the thread.
BadPopData ==
  /\ run = "pop"
  /\ ~ stopped /\ queue_ # <<>>
  /\ current_data' = Head(queue_)
  /\ queue_' = Tail(queue_)
  /\ run' = "check"
  /\ UNCHANGED <<pvars, pipe_executor_, control, single_ret, answers, sent>>

PopData ==
  /\ run = "pop"
  /\ \/ /\ stopped
        /\ run' = "loop"
        /\ UNCHANGED <<queue_, current_data>>
     \/ /\ ~ stopped /\ queue_ # <<>>
        /\ current_data' = Head(queue_)
        /\ queue_' = Tail(queue_)
        /\ run' = "check"
  /\ UNCHANGED <<pvars, pipe_executor_, control, single_ret, answers, sent>>

\* The second look at run_flag_: an input taken when Stop comes is dropped.
Check ==
  /\ run = "check"
  /\ run' = IF run_flag_ THEN "prerun" ELSE "none"
  /\ UNCHANGED <<pvars, pipe_executor_, control, queue_, current_data, single_ret, answers, sent>>

OnComputeDone(status) == answers' = Append(answers, [data |-> current_data, status |-> status])

\* Mutant: the graph is executed all the same.
BadPreRun ==
  /\ run = "prerun"
  /\ run' = "execute"
  /\ \/ UNCHANGED <<faults, answers>>
     \/ MayFail("prerun") /\ Fault /\ OnComputeDone("failed")
  /\ UNCHANGED <<caller, pc, loop_idx, task, task_queue_, contexts, history>>
  /\ UNCHANGED <<pipe_executor_, control, queue_, current_data, single_ret, sent>>

\* SyncVarData and PrepareInputs.
PreRun ==
  /\ run = "prerun"
  /\ \/ run' = "execute" /\ UNCHANGED <<faults, answers>>
     \/ MayFail("prerun") /\ Fault /\ OnComputeDone("failed") /\ run' = "loop"
  /\ UNCHANGED <<caller, pc, loop_idx, task, task_queue_, contexts, history>>
  /\ UNCHANGED <<pipe_executor_, control, queue_, current_data, single_ret, sent>>

RunPipeline ==
  /\ run = "execute" /\ pipe_executor_
  /\ \E k \in LoopCounts : Execute(k)
  /\ run' = "running"
  /\ UNCHANGED <<pipe_executor_, control, queue_, current_data, single_ret, answers, sent>>

RunSingle ==
  /\ run = "execute" /\ ~ pipe_executor_
  /\ run' = "running"
  /\ \/ single_ret' = "ok" /\ UNCHANGED faults
     \/ MayFail("sync") /\ Fault /\ single_ret' \in {"failed", "eos"}
  /\ UNCHANGED <<caller, pc, loop_idx, task, task_queue_, contexts, history>>
  /\ UNCHANGED <<pipe_executor_, control, queue_, current_data, answers, sent>>

ExecRet == IF pipe_executor_ THEN result.status ELSE single_ret

\* The end of a sequence, an error, and outputs that are copied or not: the
\* listener is called in each case.
HandleResult ==
  /\ run = "running" /\ main = "idle"
  /\ run' = "loop"
  /\ \/ OnComputeDone(ExecRet) /\ UNCHANGED faults
     \/ /\ ExecRet = "ok" /\ MayFail("copy") /\ Fault
        /\ OnComputeDone("failed")
  /\ UNCHANGED <<caller, pc, loop_idx, task, task_queue_, contexts, history>>
  /\ UNCHANGED <<pipe_executor_, control, queue_, current_data, single_ret, sent>>

RunInternal == SetDevice \/ Loop \/ PopData \/ Check \/ PreRun \/ RunPipeline \/ RunSingle \/ HandleResult

\* The pipeline's threads; its caller is the thread of RunInternal.
PipelineStep ==
  /\ CallerStep \/ \E e \in Executors : StageStep(e) \/ CallbackStep(e)
  /\ UNCHANGED <<pipe_executor_, control, queue_, run, current_data, single_ret, answers, sent>>

ANext == EnqueueData \/ Start \/ Stop \/ StopEnd \/ RunInternal \/ PipelineStep

\* Threads are scheduled, and a client that waits in Stop goes on; whether
\* clients call at all is up to them.
Rest == UNCHANGED <<pipe_executor_, control, queue_, run, current_data, single_ret, answers, sent>>

Fairness ==
  /\ WF_avars(RunInternal)
  /\ WF_avars(CallerStep /\ Rest)
  /\ \A e \in Executors : WF_avars(StageStep(e) /\ Rest) /\ WF_avars(CallbackEof(e) /\ Rest)
  /\ WF_avars(StopEnd)

ASpec == AInit /\ [][ANext]_avars /\ Fairness

-----------------------------------------------------------------------------
(* Properties.                                                             *)

TypeOK ==
  /\ main \in {"idle", "start", "push", "wait", "return"}
  /\ pc \in [Executors -> {"idle", "pop", "reset", "stuck", "open", "run", "sync", "done", "failed",
                       "unexpected"}]
  /\ task \in [Executors -> StageTask \cup {NoTask}]
  /\ \A e \in Executors : task_queue_[e] \in Seq(StageTask)
  /\ loop_idx \in [Executors -> Nat] /\ ctx \in [Executors -> Nat]
  /\ cb \in [Executors -> {"none", "run", "ended", "old"}]
  /\ eofs \in [Executors -> Nat] /\ root \in [Executors -> {"good", "error", "stopped"}]
  /\ done \in [Stages -> Nat]
  /\ run \in {"none", "device", "loop", "pop", "check", "prerun", "execute", "running"}
  /\ run # "none" => future_

\* The listener hears of an input at most once, and of the inputs in the
\* order in which they were put on the queue (RunInternal).
AnswersInOrder ==
  \A i, j \in 1 .. Len(answers) : i < j => answers[i].data < answers[j].data

\* Nothing runs on a stream that Stop has destroyed (and every variable keeps
\* its range).  executor_ keeps the stream it was made with, and a model can be
\* started again after Stop: only the stopped queue keeps the thread from
\* running anything, and the pipeline runs only for an input of the thread.
StreamAlive ==
  /\ TypeOK
  /\ run \in {"check", "prerun", "execute", "running"} => stream_
  /\ main # "idle" \/ (\E e \in Executors : pc[e] \in {"pop", "reset", "stuck", "open", "run", "sync"})
       => run = "running"

\* A call of the pipeline's Execute comes to an end or hangs for one of the
\* reasons OrderlyUnlessLapped allows; and so does a call of Stop.  While the
\* model runs, every input is answered in the end, unless Stop is called, the
\* thread could not set its device, or the pipeline hangs.
CallsEnd ==
  /\ main # "idle" ~> (main = "idle" \/ Hung)
  /\ mu_ ~> (~ mu_ \/ Hung)
  /\ \A d \in 1 .. MaxData :
       (d <= sent /\ run_flag_) ~>
         (stopped \/ run = "none" \/ Hung \/ \E i \in 1 .. Len(answers) : answers[i].data = d)

=============================================================================
