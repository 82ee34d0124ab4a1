----------------------- MODULE HybridModelAsyncProofs -----------------------
(***************************************************************************)
(* The executor of a loaded dynamic-shape model: answers come in order and *)
(* nothing runs on a stream that Stop has destroyed, for any numbers of    *)
(* inputs and of calls of Start and Stop, and whatever fails.              *)
(*                                                                         *)
(* The pipeline's invariants hold here too, as the thread of RunInternal   *)
(* changes the pipeline only by its calls of Execute.                      *)
(***************************************************************************)
EXTENDS HybridModelAsyncExecutor, HybridModelPipelineOrder

\* The places of RunInternal where the thread has an input in hand.
InHand == {"check", "prerun", "execute", "running"}

\* Stop stops the queue before anything else, and nobody starts it again: a
\* thread that Start makes later never gets an input.
Stopping ==
  /\ run \in {"none", "device", "loop", "pop"} \cup InHand
  /\ run # "none" => future_
  /\ ~stream_ \/ mu_ => stopped
  /\ ~run_flag_ /\ ~mu_ => run = "none"
  /\ run \in InHand => stream_
  /\ main # "idle" => run = "running"

\* The inputs: those on the queue are later than the one in hand, which is
\* later than those that have been answered.
Inputs ==
  /\ sent \in Nat /\ current_data \in Nat /\ current_data <= sent
  /\ queue_ \in Seq(Nat)
  /\ \A q \in 1 .. Len(queue_) : current_data < queue_[q] /\ queue_[q] <= sent
  /\ \A q, r \in 1 .. Len(queue_) : q < r => queue_[q] < queue_[r]

Answer == [data : Nat, status : {"none", "ok", "failed", "eos"}]

Answered ==
  /\ answers \in Seq(Answer)
  /\ \A i \in 1 .. Len(answers) : /\ answers[i].data <= current_data
                                  /\ run \in InHand => answers[i].data < current_data
  /\ AnswersInOrder

AsyncInv == /\ PipelineInv /\ Stopping /\ Inputs /\ Answered
            /\ loop_idx \in [Executors -> Nat]
            /\ root \in [Executors -> {"good", "error", "stopped"}]
            /\ result.status \in {"none", "ok", "failed"}
            /\ single_ret \in {"none", "ok", "failed", "eos"}

-----------------------------------------------------------------------------
(* Sequences.                                                              *)

LEMMA AppendElements ==
  ASSUME NEW T, NEW q \in Seq(T), NEW x \in T
  PROVE  /\ Append(q, x) \in Seq(T) /\ Len(Append(q, x)) = Len(q) + 1 /\ Len(q) \in Nat
         /\ \A i \in 1 .. Len(q) : Append(q, x)[i] = q[i]
         /\ Append(q, x)[Len(q) + 1] = x
         /\ \A i \in 1 .. Len(q) + 1 : i \in 1 .. Len(q) \/ i = Len(q) + 1
  BY SMTT(60)

LEMMA TailElements ==
  ASSUME NEW T, NEW q \in Seq(T), q # <<>>
  PROVE  /\ Head(q) = q[1] /\ 1 \in 1 .. Len(q) /\ Head(q) \in T /\ Tail(q) \in Seq(T)
         /\ \A i \in 1 .. Len(Tail(q)) : i + 1 \in 1 .. Len(q) /\ Tail(q)[i] = q[i + 1] /\ 1 < i + 1
  BY SMTT(60)

-----------------------------------------------------------------------------
(* Steps.                                                                  *)

\* What the thread and the clients do leaves the pipeline alone, but for
\* Execute.
Aside == /\ UNCHANGED <<main, index, loop_count, iteration_, iteration_end, pc>>
         /\ UNCHANGED <<task, task_queue_, ctx, cb, eofs, root, lost, done>>
         /\ UNCHANGED <<loop_idx, result>>

LEMMA ThreadAside ==
  ASSUME EnqueueData \/ Start \/ Stop \/ StopEnd \/ SetDevice \/ Loop \/ PopData \/ Check \/ PreRun
         \/ RunSingle \/ HandleResult
  PROVE  Aside
  BY Zenon DEF Aside, EnqueueData, Start, Stop, StopEnd, SetDevice, Loop, PopData, Check, PreRun, RunSingle,
         HandleResult, pvars, caller, contexts, history

LEMMA LoopIdxNext ==
  ASSUME Types, loop_idx \in [Executors -> Nat], result.status \in {"none", "ok", "failed"}, Next
  PROVE  /\ loop_idx' \in [Executors -> Nat]
         /\ result'.status \in {"none", "ok", "failed"}
  <1>1. CASE \E k \in LoopCounts : Execute(k)
    BY SMTT(60), <1>1 DEF Execute
  <1>2. CASE StartExecutor
    BY Zenon, <1>2 DEF StartExecutor
  <1>3. CASE PushTask \/ Wait
    BY ZenonT(60), <1>3 DEF PushTask, Wait
  <1>4. CASE Return
    BY SMTT(60), <1>4 DEF Return
  <1>5. ASSUME NEW e \in Executors, StageStep(e)
        PROVE  /\ loop_idx' \in [Executors -> Nat]
               /\ result'.status \in {"none", "ok", "failed"}
    <2>1. CASE Finish(e)
      BY SMTT(60), <2>1 DEF Finish, caller
    <2>2. CASE ~Finish(e)
      BY Zenon, <1>5, <2>2, AtWork, OnItsWay DEF caller
    <2> QED BY ZenonT(60), <2>1, <2>2
  <1>6. ASSUME NEW e \in Executors, CallbackStep(e)
        PROVE  UNCHANGED <<loop_idx, result>>
    BY Zenon, <1>6, CallbackRest DEF caller
  <1> QED BY ZenonT(60), <1>1, <1>2, <1>3, <1>4, <1>5, <1>6 DEF Next, CallerStep

LEMMA RootNext ==
  ASSUME root \in [Executors -> {"good", "error", "stopped"}], Types, Next
  PROVE  root' \in [Executors -> {"good", "error", "stopped"}]
  <1>1. CASE Wait
    <2>1. index \in Executors
      BY Zenon, <1>1 DEF Wait, Types
    <2> QED BY Zenon, <1>1, <2>1 DEF Wait, SyncFails
  <1>2. CASE StartExecutor \/ PushTask \/ Return \/ \E k \in LoopCounts : Execute(k)
    BY Zenon, <1>2 DEF StartExecutor, PushTask, Return, Execute, contexts
  <1>3. ASSUME NEW e \in Executors, StageStep(e)
        PROVE  root' \in [Executors -> {"good", "error", "stopped"}]
    <2>1. CASE Pop(e)
      BY Zenon, <2>1 DEF Pop, contexts
    <2>2. CASE Reset(e) \/ Open(e) \/ Finish(e)
      BY Zenon, <2>2 DEF Reset, Open, Finish
    <2>3. CASE PartialExecuteAsync(e)
      BY Zenon, <2>3 DEF PartialExecuteAsync, RegisterFails, ScheduleFails
    <2>4. CASE FailSync(e)
      BY Zenon, <2>4 DEF FailSync, SyncFails
    <2> QED BY Zenon, <1>3, <2>1, <2>2, <2>3, <2>4 DEF StageStep
  <1>4. ASSUME NEW e \in Executors, CallbackStep(e)
        PROVE  root' \in [Executors -> {"good", "error", "stopped"}]
    <2>1. root' = root \/ \E v \in {"good", "error", "stopped"} : root' = [root EXCEPT ![e] = v]
      BY Zenon, <1>4 DEF CallbackStep, CallbackEof, CallbackFails
    <2> QED BY Zenon, <2>1
  <1> QED BY Zenon, <1>1, <1>2, <1>3, <1>4 DEF Next, CallerStep

LEMMA PipelineANext ==
  ASSUME AsyncInv, ANext
  PROVE  /\ PipelineInv' /\ loop_idx' \in [Executors -> Nat]
         /\ root' \in [Executors -> {"good", "error", "stopped"}]
         /\ result'.status \in {"none", "ok", "failed"}
  <1>1. CASE Aside
    BY ZenonT(60), <1>1, PipelineFrame DEF Aside, AsyncInv
  <1>2. CASE RunPipeline \/ PipelineStep
    <2>1. Next
      BY Zenon, <1>2 DEF RunPipeline, PipelineStep, Next
    <2> QED BY ZenonT(60), <2>1, PipelineNext, LoopIdxNext, RootNext DEF AsyncInv, PipelineInv
  <1> QED BY ZenonT(60), <1>1, <1>2, ThreadAside DEF ANext, RunInternal

LEMMA StoppingNext ==
  ASSUME AsyncInv, ANext
  PROVE  Stopping' /\ single_ret' \in {"none", "ok", "failed", "eos"}
  <1> USE DEF AsyncInv, Stopping, InHand
  <1>1. CASE EnqueueData
    BY ZenonT(60), <1>1 DEF EnqueueData, control, pvars, caller
  <1>2. CASE Start
    BY Zenon, <1>2 DEF Start, pvars, caller
  <1>3. CASE Stop
    BY ZenonT(60), <1>3 DEF Stop, pvars, caller
  <1>4. CASE StopEnd
    BY ZenonT(60), <1>4 DEF StopEnd, pvars, caller
  <1>5. CASE SetDevice
    BY Zenon, <1>5 DEF SetDevice, control, caller
  <1>6. CASE Loop
    BY ZenonT(60), <1>6 DEF Loop, control, pvars, caller
  <1>7. CASE PopData
    BY ZenonT(60), <1>7 DEF PopData, control, pvars, caller
  <1>8. CASE Check
    BY Zenon, <1>8 DEF Check, control, pvars, caller
  <1>9. CASE PreRun
    BY ZenonT(60), <1>9 DEF PreRun, control, caller
  <1>10. CASE RunPipeline
    BY ZenonT(60), <1>10 DEF RunPipeline, control
  <1>11. CASE RunSingle
    BY Zenon, <1>11 DEF RunSingle, control, caller
  <1>12. CASE HandleResult
    BY ZenonT(60), <1>12 DEF HandleResult, control, caller
  <1>13. CASE PipelineStep
    <2>1. main # "idle" \/ main' = main
      <3>1. CASE CallerStep
        BY Zenon, <3>1 DEF CallerStep, StartExecutor, PushTask, Wait, Return
      <3>2. ASSUME NEW e \in Executors, StageStep(e) \/ CallbackStep(e)
            PROVE  main' = main
        BY Zenon, <3>2, AtWork, CallbackRest DEF caller
      <3> QED BY Zenon, <1>13, <3>1, <3>2 DEF PipelineStep
    <2> QED BY ZenonT(60), <1>13, <2>1 DEF PipelineStep, control
  <1> QED BY ZenonT(60), <1>1, <1>2, <1>3, <1>4, <1>5, <1>6, <1>7, <1>8, <1>9, <1>10, <1>11, <1>12, <1>13
          DEF ANext, RunInternal

LEMMA InputsNext ==
  ASSUME AsyncInv, ANext
  PROVE  Inputs'
  <1>1. CASE EnqueueData
    <2>1. /\ queue_' = Append(queue_, sent + 1) /\ sent' = sent + 1
          /\ current_data' = current_data
      BY Zenon, <1>1 DEF EnqueueData
    <2>2. queue_ \in Seq(Nat) /\ sent + 1 \in Nat
      BY SMTT(60) DEF AsyncInv, Inputs
    <2> QED BY SMTT(60), <2>1, <2>2, AppendElements DEF AsyncInv, Inputs
  <1>2. CASE PopData /\ queue_' # queue_
    <2>1. /\ queue_ # <<>> /\ current_data' = Head(queue_) /\ queue_' = Tail(queue_) /\ sent' = sent
      BY Zenon, <1>2 DEF PopData
    <2>2. queue_ \in Seq(Nat)
      BY Zenon DEF AsyncInv, Inputs
    <2> QED BY SMTT(60), <2>1, <2>2, TailElements DEF AsyncInv, Inputs
  <1>3. CASE UNCHANGED <<queue_, current_data, sent>>
    BY Zenon, <1>3 DEF AsyncInv, Inputs
  <1>4. CASE PopData /\ queue_' = queue_ /\ current_data' # current_data
    <2>1. /\ queue_ # <<>> /\ queue_' = Tail(queue_)
      BY Zenon, <1>4 DEF PopData
    <2>2. queue_ \in Seq(Nat)
      BY Zenon DEF AsyncInv, Inputs
    <2>3. Len(Tail(queue_)) # Len(queue_)
      BY SMTT(60), <2>1, <2>2
    <2> QED BY ZenonT(60), <1>4, <2>1, <2>3
  <1> QED BY ZenonT(60), <1>1, <1>2, <1>3, <1>4
          DEF ANext, Start, Stop, StopEnd, RunInternal, SetDevice, Loop, PopData, Check, PreRun,
              RunPipeline, RunSingle, HandleResult, PipelineStep

LEMMA AnsweredNext ==
  ASSUME AsyncInv, ANext
  PROVE  Answered'
  <1>0. answers \in Seq(Answer) /\ \A i \in 1 .. Len(answers) : answers[i].data \in Nat
    <2>1. answers \in Seq(Answer)
      BY Zenon DEF AsyncInv, Answered
    <2>2. \A i \in 1 .. Len(answers) : answers[i] \in Answer
      BY SMTT(60), <2>1
    <2> QED BY ZenonT(60), <2>1, <2>2 DEF Answer
  <1>1. ASSUME NEW s \in {"none", "ok", "failed", "eos"}, OnComputeDone(s), run \in InHand,
               run' = "loop", UNCHANGED current_data
        PROVE  Answered'
    <2>1. /\ answers \in Seq(Answer) /\ [data |-> current_data, status |-> s] \in Answer
          /\ current_data \in Nat /\ run' \notin InHand
      BY ZenonT(60), <1>0, <1>1 DEF AsyncInv, Inputs, InHand, Answer
    <2>2. answers' = Append(answers, [data |-> current_data, status |-> s])
      BY ZenonT(60), <1>1 DEF OnComputeDone
    <2>3. /\ answers' \in Seq(Answer) /\ Len(answers') = Len(answers) + 1 /\ Len(answers) \in Nat
          /\ \A i \in 1 .. Len(answers) : answers'[i] = answers[i]
          /\ answers'[Len(answers) + 1].data = current_data
          /\ \A i \in 1 .. Len(answers) + 1 : i \in 1 .. Len(answers) \/ i = Len(answers) + 1
      BY SMTT(60), <2>1, <2>2, AppendElements
    <2>4. \A i \in 1 .. Len(answers) : answers[i].data < current_data /\ answers[i].data \in Nat
      BY ZenonT(60), <1>0, <1>1 DEF AsyncInv, Answered
    <2>5. \A i \in 1 .. Len(answers') : answers'[i].data <= current_data'
      BY SMTT(60), <1>1, <2>1, <2>3, <2>4
    <2>6. AnswersInOrder'
      <3>1. AnswersInOrder
        BY Zenon DEF AsyncInv, Answered
      <3> QED BY SMTT(60), <2>1, <2>3, <2>4, <3>1 DEF AnswersInOrder
    <2> QED BY ZenonT(60), <2>1, <2>3, <2>5, <2>6 DEF Answered
  <1>2. ASSUME UNCHANGED <<answers, current_data>>, run' \in InHand => run \in InHand
        PROVE  Answered'
    BY Zenon, <1>2 DEF AsyncInv, Answered, AnswersInOrder
  <1>3. CASE PopData
    <2>1. CASE run' = "check" /\ current_data' = Head(queue_) /\ queue_ # <<>> /\ UNCHANGED answers
      <3>1. queue_ \in Seq(Nat)
        BY Zenon DEF AsyncInv, Inputs
      <3>2. current_data' \in Nat /\ current_data < current_data' /\ current_data \in Nat
        BY ZenonT(60), <2>1, <3>1, TailElements DEF AsyncInv, Inputs
      <3>3. \A i \in 1 .. Len(answers) : answers[i].data <= current_data /\ answers[i].data \in Nat
        BY ZenonT(60), <1>0 DEF AsyncInv, Answered
      <3>4. \A i \in 1 .. Len(answers') : answers'[i].data < current_data' /\ answers'[i].data <= current_data'
        BY SMTT(60), <2>1, <3>2, <3>3
      <3> QED BY ZenonT(60), <2>1, <3>4 DEF AsyncInv, Answered, AnswersInOrder
    <2>2. CASE run' = "loop" /\ UNCHANGED <<answers, current_data>>
      BY Zenon, <1>2, <2>2 DEF InHand
    <2> QED BY ZenonT(60), <1>3, <2>1, <2>2 DEF PopData
  <1>4. CASE PreRun
    BY ZenonT(60), <1>1, <1>2, <1>4 DEF PreRun, InHand
  <1>5. CASE HandleResult
    BY ZenonT(60), <1>1, <1>5 DEF HandleResult, ExecRet, AsyncInv, InHand
  <1>6. CASE ~(PopData \/ PreRun \/ HandleResult)
    BY Zenon, <1>2, <1>6 DEF ANext, EnqueueData, Start, Stop, StopEnd, RunInternal, SetDevice, Loop, Check,
                      RunPipeline, RunSingle, PipelineStep, InHand
  <1> QED BY ZenonT(60), <1>3, <1>4, <1>5, <1>6

-----------------------------------------------------------------------------
(* The theorems.                                                           *)

\* The invariant of RunInternal, Start, Stop and EnqueueData together with
\* that of the pipeline they drive.
THEOREM AsyncInvariant == ASpec => []AsyncInv
  <1>1. AInit => AsyncInv
    <2> SUFFICES ASSUME AInit PROVE AsyncInv
      BY Zenon
    <2>1. PipelineInv
      BY ZenonT(60), InitInv DEF AInit
    <2>2. Stopping
      BY Zenon DEF AInit, Init, Stopping, InHand
    <2>3. Inputs
      BY SMTT(60) DEF AInit, Inputs
    <2>4. Answered
      BY SMTT(60) DEF AInit, Answered, AnswersInOrder
    <2>5. /\ loop_idx \in [Executors -> Nat] /\ root \in [Executors -> {"good", "error", "stopped"}]
          /\ result.status \in {"none", "ok", "failed"}
          /\ single_ret \in {"none", "ok", "failed", "eos"}
      BY Zenon DEF AInit, Init
    <2> QED BY ZenonT(60), <2>1, <2>2, <2>3, <2>4, <2>5 DEF AsyncInv
  <1>2. AsyncInv /\ [ANext]_avars => AsyncInv'
    <2> SUFFICES ASSUME AsyncInv, [ANext]_avars PROVE AsyncInv'
      BY Zenon
    <2>1. CASE ANext
      BY ZenonT(60), <2>1, PipelineANext, StoppingNext, InputsNext, AnsweredNext DEF AsyncInv
    <2>2. CASE UNCHANGED avars
      <3>1. /\ UNCHANGED <<main, index, loop_count, iteration_, iteration_end, pc>>
            /\ UNCHANGED <<task, task_queue_, ctx, cb, eofs, root, lost, done, loop_idx, result, single_ret>>
            /\ UNCHANGED <<run_flag_, mu_, future_, stream_, stopped>>
            /\ UNCHANGED <<run, queue_, current_data, sent, answers>>
        BY Zenon, <2>2 DEF avars, control, pvars, caller, contexts, history
      <3>2. PipelineInv'
        BY ZenonT(60), <3>1, PipelineFrame DEF AsyncInv
      <3>3. Stopping'
        BY ZenonT(60), <3>1 DEF AsyncInv, Stopping
      <3>4. Inputs'
        BY Zenon, <3>1 DEF AsyncInv, Inputs
      <3>5. Answered'
        BY Zenon, <3>1 DEF AsyncInv, Answered, AnswersInOrder
      <3> QED BY ZenonT(60), <3>1, <3>2, <3>3, <3>4, <3>5 DEF AsyncInv
    <2> QED BY ZenonT(60), <2>1, <2>2
  <1> QED BY <1>1, <1>2, PTL DEF ASpec

\* The listener hears of an input at most once, and of the inputs in the
\* order in which EnqueueData took them, whatever fails and whenever Stop and
\* Start are called (RunInternal, OnComputeDone).
THEOREM AnswersComeInOrder == ASpec => []AnswersInOrder
  <1>1. AsyncInv => AnswersInOrder
    BY Zenon DEF AsyncInv, Answered
  <1> QED BY <1>1, AsyncInvariant, PTL

\* Nothing runs on the stream that Stop destroys: the thread has no input in
\* hand then, and the pipeline's executors rest (Stop, RunInternal).
THEOREM StreamOutlivesRuns == ASpec => []StreamAlive
  <1>1. AsyncInv => StreamAlive
    <2> SUFFICES ASSUME AsyncInv PROVE StreamAlive
      BY Zenon
    <2>1. TypeOK
      BY Zenon DEF AsyncInv, PipelineInv, Types, Finished, Working, Stopping, InHand, TypeOK
    <2>2. run \in InHand => stream_
      BY Zenon DEF AsyncInv, Stopping
    <2>3. ASSUME NEW e \in Executors, pc[e] \in {"pop", "reset", "stuck", "open", "run", "sync"}
          PROVE  main # "idle"
      BY Zenon, <2>3 DEF AsyncInv, PipelineInv, Control, Finished
    <2> QED BY ZenonT(60), <2>1, <2>2, <2>3 DEF StreamAlive, AsyncInv, Stopping, InHand
  <1> QED BY <1>1, AsyncInvariant, PTL

\* A step of the threads is one of the pipeline, or at most counts a failure.
LEMMA OutputANext ==
  ASSUME OutputInv, ANext
  PROVE  OutputInv'
  <1>0. faults \in Nat
    BY ZenonT(60) DEF OutputInv, OrderInv, Parts
  <1>1. CASE RunPipeline \/ PipelineStep
    <2>1. Next
      BY Zenon, <1>1 DEF RunPipeline, PipelineStep, Next
    <2> QED BY ZenonT(60), <2>1, OutputNext
  <1>2. CASE SetDevice \/ PreRun \/ RunSingle \/ HandleResult
    <2>1. /\ UNCHANGED <<caller, pc, loop_idx, task, task_queue_, contexts, history>>
          /\ faults' = faults \/ faults' = faults + 1
      BY ZenonT(60), <1>2 DEF SetDevice, PreRun, RunSingle, HandleResult, Fault
    <2>2. faults' \in Nat /\ faults' >= faults
      BY SMTT(60), <1>0, <2>1
    <2> QED BY ZenonT(60), <2>1, <2>2, OutputFrame
  <1>3. CASE EnqueueData \/ Start \/ Stop \/ StopEnd \/ Loop \/ PopData \/ Check
    <2>1. UNCHANGED pvars
      BY Zenon, <1>3 DEF EnqueueData, Start, Stop, StopEnd, Loop, PopData, Check
    <2> QED BY SMTT(60), <1>0, <2>1, OutputFrame DEF pvars
  <1> QED BY ZenonT(60), <1>1, <1>2, <1>3 DEF ANext, RunInternal

\* The orders of the pipeline's tasks, driven by RunInternal.
THEOREM AsyncOutputInvariant == ASpec => []OutputInv
  <1>1. AInit => OutputInv
    BY ZenonT(60), OutputInit DEF AInit
  <1>2. OutputInv /\ UNCHANGED avars => OutputInv'
    BY SMTT(60), OutputFrame DEF avars, pvars, OutputInv, OrderInv, Parts
  <1>3. OutputInv /\ ANext => OutputInv'
    BY Zenon, OutputANext
  <1> QED BY <1>1, <1>2, <1>3, PTL DEF ASpec

\* In the executor of a loaded model too, the pipeline hangs or meets a task
\* that is not of its call only after a failure or when Execute was overtaken.
THEOREM AsyncOrderlyPipeline == ASpec => []OrderlyUnlessLapped
  <1>1. OutputInv => OrderlyUnlessLapped
    BY Zenon, OrderImplies DEF OutputInv
  <1> QED BY <1>1, AsyncOutputInvariant, PTL

\* In the executor of a loaded model too, a stage works in the context of its
\* own iteration (RunInternal calls Execute again and again).
THEOREM AsyncContextsAreOwn == ASpec => []ContextOwn
  <1>1. OutputInv => ContextOwn
    BY Zenon, OutputImplies
  <1> QED BY <1>1, AsyncOutputInvariant, PTL

\* With the two executors of the code (kNumExecutors), the outputs that
\* HandleResult gives to the listener after a successful Execute are those of
\* iteration_end - NumExecutors of that call, and every stage has run all its
\* iterations but the odd one; the same case is left open as in
\* OutputsAreComplete.
THEOREM AsyncOutputsAreComplete ==
  ASSUME NumExecutors = 2
  PROVE  ASpec => [](OutputsComplete \/ Astray)
  <1>1. OutputInv => OutputsComplete \/ Astray
    BY Zenon, TwoExecutors
  <1> QED BY <1>1, AsyncOutputInvariant, PTL

=============================================================================
