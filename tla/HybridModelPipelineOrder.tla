----------------------- MODULE HybridModelPipelineOrder -----------------------
(***************************************************************************)
(* What the calls of HybridModelPipelineExecutor::Execute come to, for any *)
(* numbers of stages, executors and iterations: the executors never wait   *)
(* for each other forever unless something failed or a task has overtaken  *)
(* Execute, and a call that succeeds has run every stage of its            *)
(* iterations.                                                             *)
(*                                                                         *)
(* Two orders carry the argument.  The tasks of an executor are queued in  *)
(* the order of its iterations and stages as long as no task overtakes     *)
(* Execute (Turn); they are also finished in that order when one does      *)
(* (Finishes), as an executor that takes a first stage too early is stuck  *)
(* in its reset, unless a callback thread was lost.                        *)
(***************************************************************************)
EXTENDS HybridModelPipelineProofs, WellFoundedInduction

-----------------------------------------------------------------------------
(* The order of the tasks.  As long as no task has overtaken Execute, an   *)
(* executor takes the tasks of its iterations one after the other, stage   *)
(* by stage: its c-th task (from 0) is TaskOf(e, c), and it has received   *)
(* as many as the executor before it has finished.                         *)

Hand(e) == IF task[e] = NoTask THEN 0 ELSE 1

Received(e) == loop_idx[e] + Hand(e) + Len(task_queue_[e])

TaskOf(e, c) == [stage |-> c % NumStages,
                 iteration |-> iteration_ + e + NumExecutors * (c \div NumStages)]

InTurn ==
  /\ \A e \in Executors :
       /\ task[e] # NoTask => task[e] = TaskOf(e, loop_idx[e])
       /\ \A q \in DOMAIN task_queue_[e] :
            task_queue_[e][q] = TaskOf(e, loop_idx[e] + Hand(e) + q - 1)
       /\ e > 0 => Received(e) = loop_idx[e - 1]
  /\ Received(0) = (IF main = "push" THEN index ELSE NumStages) + loop_idx[NumExecutors - 1]
  /\ main = "push" => loop_idx[NumExecutors - 1] = 0

\* The tasks an executor takes in a call, when loop_count >= 2.
Share == NumStages * (loop_count \div NumExecutors)

Parts ==
  /\ loop_idx \in [Executors -> Nat] /\ has_error \in BOOLEAN /\ lapped \in BOOLEAN /\ faults \in Nat
  /\ main # "idle" => loop_count >= 2
  /\ main \in {"push", "wait", "return"} => iteration_end = iteration_ + loop_count
  /\ \A e \in Executors :
       /\ main \in {"push", "wait"} \/ (main = "start" /\ e < index) =>
            /\ pc[e] # "idle"
            /\ pc[e] \in Working \cup {"pop"} => loop_idx[e] < Share
            /\ pc[e] = "done" => loop_idx[e] = Share /\ task[e] = NoTask
       /\ main = "start" /\ e < index => loop_idx[e] = 0
       /\ main = "wait" /\ e < index /\ ~has_error => pc[e] = "done"
       /\ main = "return" /\ ~has_error => pc[e] = "done"

Turn == main \in {"push", "wait"} /\ ~lapped => InTurn

\* What can go wrong only when a task has overtaken Execute, or something has
\* failed: without it the callback thread of an iteration is gone before its
\* executor resets the context for the next.
Clean ==
  /\ ~lapped => \A e \in Executors : pc[e] # "unexpected"
  /\ faults = 0 => \A e \in Executors : ~lost[e] /\ root[e] = "good"
  /\ ~lapped /\ faults = 0 =>
       \A e \in Executors :
         /\ pc[e] \notin {"failed", "stuck"}
         /\ main \in {"idle", "start", "return"} => cb[e] # "run"
         /\ cb[e] = "run" => loop_idx[e] % NumStages # 0 \/ pc[e] \in {"open", "run", "sync"}

OrderInv == PipelineInv /\ Parts /\ Turn /\ Clean

LEMMA Quotient ==
  ASSUME NEW c \in Nat, NEW S \in Nat \ {0}
  PROVE  /\ c \div S \in Nat /\ c % S \in 0 .. S - 1
         /\ (c + S) % S = c % S /\ (c + S) \div S = (c \div S) + 1
         /\ c < S => c % S = c /\ c \div S = 0
         /\ c % S < S - 1 => (c + 1) % S # 0
         /\ \A L \in Nat : c < S * L => c \div S < L
         /\ (S * c) % S = 0 /\ S * (c \div S) <= c
  <1> DEFINE q == c \div S
             r == c % S
             p == (c + S) \div S
             u == (c + S) % S
  <1>1. q \in Int /\ r \in 0 .. S - 1 /\ c = S * q + r
    BY Zenon, Division
  <1>2. p \in Int /\ u \in 0 .. S - 1 /\ c + S = S * p + u
    BY SMTT(60), Division
  <1>3. (c + 1) % S = ((c % S) + 1) % S
    BY Zenon, RemainderNext
  <1> HIDE DEF q, r, p, u
  <1>4. q >= 0
    <2> SUFFICES ASSUME q <= -1 PROVE FALSE
      BY SMTT(60), <1>1
    <2>1. S * q <= -S
      BY SMTT(60), <1>1
    <2> QED BY SMTT(60), <1>1, <2>1
  <1>5. u = r
    <2>1. S * (q + 1) + r = S * p + u
      BY SMTT(60), <1>1, <1>2
    <2>2. q + 1 \in Int
      BY SMTT(60), <1>1
    <2> QED BY ZenonT(60), <1>1, <1>2, <2>1, <2>2, RemainderUnique
  <1>6. p = q + 1
    <2>1. S * (p - (q + 1)) = 0
      BY SMTT(60), <1>1, <1>2, <1>5
    <2>2. p - (q + 1) >= 1 => S * (p - (q + 1)) >= S
      BY SMTT(60), <1>1, <1>2
    <2>3. p - (q + 1) <= -1 => S * (p - (q + 1)) <= -S
      BY SMTT(60), <1>1, <1>2
    <2> QED BY SMTT(60), <1>1, <1>2, <2>1, <2>2, <2>3
  <1>7. c < S => r = c /\ q = 0
    <2> SUFFICES ASSUME c < S PROVE r = c /\ q = 0
      BY Zenon
    <2>1. q >= 1 => S * q >= S
      BY SMTT(60), <1>1
    <2>2. q = 0
      BY SMTT(60), <1>1, <1>4, <2>1
    <2>3. S * q = 0
      BY SMTT(60), <2>2
    <2> QED BY SMTT(60), <1>1, <2>2, <2>3
  <1>8. r < S - 1 => (c + 1) % S # 0
    <2> SUFFICES ASSUME r < S - 1 PROVE (c + 1) % S # 0
      BY Zenon
    <2>1. r + 1 \in 0 .. S - 1 /\ r + 1 \in Nat /\ r + 1 = S * 0 + (r + 1)
      BY SMTT(60), <1>1
    <2>2. (r + 1) % S = r + 1
      BY SMTT(60), <2>1, Remainder
    <2> QED BY SMTT(60), <1>1, <1>3, <2>2 DEF r
  <1>9. ASSUME NEW L \in Nat, c < S * L
        PROVE  q < L
    <2> SUFFICES ASSUME q - L >= 0 PROVE FALSE
      BY SMTT(60), <1>1
    <2>1. S * (q - L) >= 0
      BY SMTT(60), <1>1
    <2>2. S * q = S * L + S * (q - L)
      BY SMTT(60), <1>1
    <2>3. S * q \in Int /\ S * L \in Int /\ S * (q - L) \in Int
      BY SMTT(60), <1>1
    <2> QED BY SMTT(60), <1>1, <1>9, <2>1, <2>2, <2>3
  <1>10. (S * c) % S = 0
    <2>1. S * c \in Nat /\ S * c = S * c + 0 /\ 0 \in 0 .. S - 1
      BY SMTT(60)
    <2> QED BY SMTT(60), <2>1, Remainder
  <1>11. S * q <= c
    <2>1. S * q \in Int
      BY SMTT(60), <1>1
    <2> QED BY SMTT(60), <1>1, <2>1
  <1> QED BY SMTT(60), <1>1, <1>4, <1>5, <1>6, <1>7, <1>8, <1>9, <1>10, <1>11 DEF q, r, p, u

\* iteration_count % iteration_count is zero: every executor has the same part.
LEMMA ShareFacts ==
  ASSUME loop_count \in Nat, loop_count >= 2
  PROVE  /\ Share \in Nat /\ loop_count \div NumExecutors \in Nat
         /\ \A e \in Executors : NumLoops(e) = Share
  <1>1. loop_count % loop_count = 0
    <2>1. loop_count = loop_count * 1 + 0 /\ 0 \in 0 .. loop_count - 1 /\ loop_count \in Nat \ {0}
      BY SMTT(60)
    <2> QED BY SMTT(60), <2>1, Remainder
  <1>2. loop_count \div NumExecutors \in Nat
    BY Zenon, Quotient, Sizes
  <1>3. ASSUME NEW L \in Nat
        PROVE  NumStages * L \in Nat /\ L * NumStages = NumStages * L
    BY SMTT(60), <1>3, Sizes
  <1>4. \A e \in Executors : ~(e < 0)
    BY SMTT(60), Sizes
  <1> QED BY ZenonT(60), <1>1, <1>2, <1>3, <1>4 DEF Share, NumLoops

\* A task of an executor's share is one of the call's iterations.
LEMMA ShareInCall ==
  ASSUME loop_count \in Nat, loop_count >= 2, iteration_ \in Nat,
         NEW e \in Executors, NEW c \in Nat, c < Share
  PROVE  TaskOf(e, c).iteration < iteration_ + loop_count
  <1> DEFINE L == loop_count \div NumExecutors
             k == c \div NumStages
  <1>1. L \in Nat /\ NumExecutors * L <= loop_count
    BY ZenonT(60), Quotient, Sizes
  <1>2. k \in Nat /\ k < L
    BY Zenon, <1>1, Quotient, Sizes DEF Share
  <1> HIDE DEF L, k
  <1>3. NumExecutors * (L - 1 - k) >= 0
    BY SMTT(60), <1>1, <1>2, Sizes
  <1>4. NumExecutors * k + NumExecutors + NumExecutors * (L - 1 - k) = NumExecutors * L
    BY SMTT(60), <1>1, <1>2, Sizes
  <1>5. NumExecutors * k \in Int /\ NumExecutors * L \in Int /\ NumExecutors * (L - 1 - k) \in Int
    BY SMTT(60), <1>1, <1>2, Sizes
  <1>6. NumExecutors * k + NumExecutors <= loop_count
    BY SMTT(60), <1>1, <1>3, <1>4, <1>5, Sizes
  <1>7. iteration_ + e + NumExecutors * k < iteration_ + loop_count
    BY SMTT(60), <1>5, <1>6, Sizes
  <1> QED BY ZenonT(60), <1>7 DEF TaskOf, k

\* What an executor does at a loop's end depends on its share only.
LEMMA AtLoopShare ==
  ASSUME loop_count \in Nat, loop_count >= 2, NEW e \in Executors, NEW i \in Nat, i <= Share
  PROVE  /\ AtLoop(e, i) = "pop" => i < Share
         /\ AtLoop(e, i) = "done" => i = Share
  BY SMTT(60), ShareFacts DEF AtLoop

\* What the steps of a stage executor have in common.
LEMMA AtWork ==
  ASSUME NEW e \in Executors, StageStep(e)
  PROVE  /\ pc[e] \in Working \/ (pc[e] = "pop" /\ task_queue_[e] # <<>>)
         /\ UNCHANGED caller
         /\ faults' = faults \/ faults' = faults + 1
         /\ lapped' = lapped \/ lapped' = (lapped \/ (main = "push" /\ NextExecutor(e) = 0))
         /\ lost' = lost \/ lost' = [lost EXCEPT ![e] = TRUE]
  <1> USE DEF Working, history, Fault
  <1>1. CASE Pop(e)
    BY Zenon, <1>1 DEF Pop, contexts
  <1>2. CASE Reset(e) \/ Open(e)
    BY Zenon, <1>2 DEF Reset, Open
  <1>3. CASE PartialExecuteAsync(e)
    BY Zenon, <1>3 DEF PartialExecuteAsync, RegisterFails, ScheduleFails
  <1>4. CASE FailSync(e)
    BY Zenon, <1>4 DEF FailSync, SyncFails
  <1>5. CASE Finish(e)
    BY Zenon, <1>5 DEF Finish
  <1> QED BY Zenon, <1>1, <1>2, <1>3, <1>4, <1>5 DEF StageStep

LEMMA OthersRest ==
  ASSUME Types, loop_idx \in [Executors -> Nat], NEW e \in Executors, StageStep(e),
         NEW f \in Executors, f # e
  PROVE  /\ pc'[f] = pc[f] /\ loop_idx'[f] = loop_idx[f] /\ task'[f] = task[f]
         /\ ctx'[f] = ctx[f] /\ cb'[f] = cb[f] /\ lost'[f] = lost[f]
  <1>1. /\ \E v : pc' = [pc EXCEPT ![e] = v]
        /\ loop_idx' = loop_idx \/ \E v : loop_idx' = [loop_idx EXCEPT ![e] = v]
        /\ task' = task \/ \E v : task' = [task EXCEPT ![e] = v]
        /\ ctx' = ctx \/ \E v : ctx' = [ctx EXCEPT ![e] = v]
        /\ cb' = cb \/ \E v : cb' = [cb EXCEPT ![e] = v]
    <2>1. CASE Pop(e)
      BY Zenon, <2>1 DEF Pop, contexts
    <2>2. CASE Reset(e) \/ Open(e)
      BY Zenon, <2>2 DEF Reset, Open
    <2>3. CASE PartialExecuteAsync(e) \/ FailSync(e)
      BY Zenon, <2>3
         DEF PartialExecuteAsync, RegisterFails, ScheduleFails, FailSync, Destroy
    <2>4. CASE Finish(e)
      BY Zenon, <2>4 DEF Finish, Destroy
    <2> QED BY Zenon, <2>1, <2>2, <2>3, <2>4 DEF StageStep
  <1>2. lost' = lost \/ lost' = [lost EXCEPT ![e] = TRUE]
    BY Zenon, AtWork
  <1> QED BY Zenon, <1>1, <1>2 DEF Types

LEMMA OnItsWay ==
  ASSUME Types, NEW e \in Executors, StageStep(e), ~Finish(e)
  PROVE  /\ UNCHANGED <<loop_idx, done, lapped>>
         /\ pc'[e] \in {"unexpected", "reset", "stuck", "open", "run", "sync", "failed"}
  <1>1. UNCHANGED <<loop_idx, done, lapped>>
    BY Zenon DEF StageStep, Pop, Reset, Open, PartialExecuteAsync, FailSync, history
  <1>2. \E v \in {"unexpected", "reset", "stuck", "open", "run", "sync", "failed"} :
          pc' = [pc EXCEPT ![e] = v]
    <2>1. CASE Pop(e)
      BY Zenon, <2>1 DEF Pop
    <2>2. CASE Reset(e) \/ Open(e)
      BY Zenon, <2>2 DEF Reset, Open
    <2>3. CASE PartialExecuteAsync(e) \/ FailSync(e)
      BY Zenon, <2>3 DEF PartialExecuteAsync, RegisterFails, ScheduleFails, FailSync
    <2> QED BY Zenon, <2>1, <2>2, <2>3 DEF StageStep
  <1> QED BY Zenon, <1>1, <1>2 DEF Types

LEMMA CallbackRest ==
  ASSUME NEW e \in Executors, CallbackStep(e)
  PROVE  /\ UNCHANGED <<caller, loop_idx, task, task_queue_, ctx, history>>
         /\ faults' = faults \/ faults' = faults + 1
         /\ lost' = lost \/ lost' = [lost EXCEPT ![e] = TRUE]
  BY Zenon DEF CallbackStep, CallbackEof, CallbackFails, Fault

LEMMA PartsStep ==
  ASSUME PipelineInv, Parts, Next
  PROVE  Parts'
  <1>t. /\ Types /\ Control /\ Parts
        /\ loop_idx \in [Executors -> Nat] /\ has_error \in BOOLEAN /\ lapped \in BOOLEAN /\ faults \in Nat
        /\ pc \in [Executors -> Finished \cup Working \cup {"pop"}]
        /\ task \in [Executors -> StageTask \cup {NoTask}]
    BY Zenon DEF PipelineInv, Parts, Types
  <1>1. ASSUME NEW k \in LoopCounts, Execute(k)
        PROVE  Parts'
    <2>1. /\ main = "idle" /\ index' \in Nat /\ k \in Nat
          /\ main' # "idle" => main' = "start" /\ index' = 0 /\ k >= 2 /\ has_error' = FALSE
          /\ main' = "idle" => has_error' = has_error
          /\ loop_count' = k /\ UNCHANGED <<loop_idx, lapped, faults, pc, task>>
      BY SMTT(60), <1>t, <1>1, PipelineAssumption DEF Execute, Types
    <2>2. \A e \in Executors : ~(e < 0)
      BY SMTT(60), Sizes
    <2> QED BY Zenon, <1>t, <2>1, <2>2 DEF Parts
  <1>2. CASE StartExecutor
    <2>1. /\ main = "start" /\ index \in Executors /\ loop_count \in Nat /\ loop_count >= 2
          /\ UNCHANGED <<loop_count, has_error, iteration_, lapped>>
          /\ loop_idx' = [loop_idx EXCEPT ![index] = 0]
          /\ task' = [task EXCEPT ![index] = NoTask]
      BY Zenon, <1>2, <1>t DEF StartExecutor, Types, Parts, history
    <2>2. PICK v \in {"pop", "done", "failed"} :
            /\ pc' = [pc EXCEPT ![index] = v]
            /\ v # "failed" => v = AtLoop(index, 0)
      BY ZenonT(60), <1>2, AtLoopFacts DEF StartExecutor
    <2>3. faults' \in Nat
      BY SMTT(60), <1>2, <1>t DEF StartExecutor, Fault
    <2>4. /\ loop_idx' \in [Executors -> Nat] /\ loop_idx'[index] = 0 /\ task'[index] = NoTask
          /\ pc'[index] = v
          /\ \A e \in Executors : e # index =>
               loop_idx'[e] = loop_idx[e] /\ task'[e] = task[e] /\ pc'[e] = pc[e]
      BY Zenon, <1>t, <2>1, <2>2
    <2>5. Share \in Nat
      BY ZenonT(60), <2>1, ShareFacts
    <2>6. (v = "pop" => 0 < Share) /\ (v = "done" => 0 = Share)
      <3>1. /\ AtLoop(index, 0) = "pop" => 0 < Share
            /\ AtLoop(index, 0) = "done" => 0 = Share
        BY SMTT(60), <2>1, <2>5, AtLoopShare
      <3> QED BY Zenon, <2>2, <3>1
    <2>7. Share' = Share
      BY Zenon, <2>1 DEF Share
    <2>8. /\ main' \in {"start", "push"}
          /\ main' = "start" => index' = index + 1
          /\ main' = "push" => index = NumExecutors - 1 /\ iteration_end' = iteration_ + loop_count
      BY SMTT(60), <1>2, <2>1, Sizes, Neighbours DEF StartExecutor, Executors
    <2>9. ASSUME NEW e \in Executors, main' = "push" \/ e < index'
          PROVE  /\ pc'[e] # "idle" /\ loop_idx'[e] = 0
                 /\ pc'[e] \in Working \cup {"pop"} => loop_idx'[e] < Share
                 /\ pc'[e] = "done" => loop_idx'[e] = Share /\ task'[e] = NoTask
      <3>1. CASE e = index
        BY ZenonT(60), <2>2, <2>4, <2>6, <3>1 DEF Working
      <3>2. CASE e # index
        <4>1. e < index
          BY SMTT(60), <2>1, <2>8, <2>9, <3>2, Sizes
        <4> QED BY ZenonT(60), <1>t, <2>1, <2>4, <3>2, <4>1 DEF Parts
      <3> QED BY Zenon, <3>1, <3>2
    <2> QED BY ZenonT(60), <1>t, <2>1, <2>3, <2>4, <2>7, <2>8, <2>9 DEF Parts
  <1>3. CASE PushTask
    <2>1. /\ main = "push" /\ main' \in {"push", "wait"} /\ (main' = "wait" => index' = 0)
          /\ UNCHANGED <<loop_count, has_error, iteration_, iteration_end>>
          /\ UNCHANGED <<pc, loop_idx, task, faults, lapped, Share>>
      BY Zenon, <1>3 DEF PushTask, history, Share
    <2>2. \A e \in Executors : ~(e < 0)
      BY SMTT(60), Sizes
    <2> QED BY ZenonT(60), <1>t, <2>1, <2>2 DEF Parts
  <1>4. CASE Wait
    <2>1. /\ main = "wait" /\ index \in Executors /\ index \in Nat
          /\ UNCHANGED <<loop_count, iteration_, iteration_end>>
          /\ UNCHANGED <<pc, loop_idx, task, lapped, Share>>
      BY Zenon, <1>t, <1>4, Sizes DEF Wait, history, Share, Types
    <2>2. /\ has_error' \in BOOLEAN /\ faults' \in Nat
          /\ ~has_error' => ~has_error /\ pc[index] = "done"
      <3>1. has_error' = (has_error \/ pc[index] # "done") \/ has_error' = TRUE
        BY Zenon, <1>4 DEF Wait
      <3>2. faults' \in Nat
        BY SMTT(60), <1>4, <1>t DEF Wait, SyncFails, Fault
      <3> QED BY ZenonT(60), <1>t, <3>1, <3>2
    <2>3. \/ main' = "wait" /\ index' = index + 1
          \/ main' = "return" /\ index = NumExecutors - 1
      BY SMTT(60), <1>4, <2>1, Sizes DEF Wait
    <2>4. \A e \in Executors : e < index + 1 => e < index \/ e = index
      BY SMTT(60), <2>1, Sizes
    <2>5. \A e \in Executors : e < NumExecutors - 1 \/ e = NumExecutors - 1
      BY SMTT(60), Sizes
    <2> QED BY ZenonT(60), <1>t, <2>1, <2>2, <2>3, <2>4, <2>5 DEF Parts
  <1>5. CASE Return
    <2>1. /\ main' = "idle" /\ UNCHANGED <<loop_idx, has_error, lapped>> /\ faults' \in Nat
      BY SMTT(60), <1>5, <1>t DEF Return, history, Fault
    <2> QED BY Zenon, <1>t, <2>1 DEF Parts
  <1>6. ASSUME NEW e \in Executors, StageStep(e)
        PROVE  Parts'
    <2>1. /\ main \in {"push", "wait"} /\ ~(main = "wait" /\ e < index)
          /\ pc[e] \in Working \cup {"pop"} /\ loop_idx[e] < Share
      BY ZenonT(60), <1>t, <1>6, AtWork, WorkingCall DEF Parts
    <2>2. /\ UNCHANGED <<main, index, loop_count, has_error, iteration_, iteration_end, Share>>
          /\ lapped' \in BOOLEAN /\ faults' \in Nat
      <3>1. UNCHANGED <<main, index, loop_count, has_error, iteration_, iteration_end>>
        BY Zenon, <1>6, AtWork DEF caller
      <3>2. faults' = faults \/ faults' = faults + 1
        BY Zenon, <1>6, AtWork
      <3>3. lapped' = lapped \/ lapped' = (lapped \/ (main = "push" /\ NextExecutor(e) = 0))
        BY Zenon, <1>6, AtWork
      <3>4. lapped' \in BOOLEAN
        BY Zenon, <1>t, <3>3
      <3> QED BY SMTT(60), <1>t, <3>1, <3>2, <3>4 DEF Share
    <2>3. \A f \in Executors : f # e =>
            pc'[f] = pc[f] /\ loop_idx'[f] = loop_idx[f] /\ task'[f] = task[f]
      BY ZenonT(60), <1>6, <1>t, OthersRest
    <2>4. /\ loop_idx' \in [Executors -> Nat] /\ pc'[e] # "idle"
          /\ pc'[e] \in Working \cup {"pop"} => loop_idx'[e] < Share
          /\ pc'[e] = "done" => loop_idx'[e] = Share /\ task'[e] = NoTask
      <3>1. CASE Finish(e)
        <4>1. /\ loop_idx' = [loop_idx EXCEPT ![e] = @ + 1] /\ task' = [task EXCEPT ![e] = NoTask]
              /\ pc' = [pc EXCEPT ![e] = AtLoop(e, loop_idx[e] + 1)]
          BY ZenonT(60), <3>1 DEF Finish
        <4>2. /\ loop_idx' \in [Executors -> Nat] /\ loop_idx'[e] = loop_idx[e] + 1
              /\ task'[e] = NoTask /\ pc'[e] = AtLoop(e, loop_idx[e] + 1)
          BY SMTT(60), <1>t, <4>1 DEF Types
        <4>3. /\ loop_count \in Nat /\ loop_count >= 2 /\ loop_idx[e] + 1 \in Nat
              /\ loop_idx[e] + 1 <= Share
          BY SMTT(60), <1>t, <2>1, ShareFacts DEF Types, Parts
        <4>4. /\ AtLoop(e, loop_idx[e] + 1) = "pop" => loop_idx[e] + 1 < Share
              /\ AtLoop(e, loop_idx[e] + 1) = "done" => loop_idx[e] + 1 = Share
          BY ZenonT(60), <4>3, AtLoopShare
        <4>5. AtLoop(e, loop_idx[e] + 1) \in {"pop", "done"}
          BY Zenon, AtLoopFacts
        <4> QED BY ZenonT(60), <4>2, <4>4, <4>5 DEF Working
      <3>2. CASE ~Finish(e)
        <4>1. /\ UNCHANGED loop_idx
              /\ pc'[e] \in {"unexpected", "reset", "stuck", "open", "run", "sync", "failed"}
          BY ZenonT(60), <1>6, <1>t, <3>2, OnItsWay
        <4> QED BY ZenonT(60), <1>t, <2>1, <4>1
      <3> QED BY ZenonT(60), <3>1, <3>2
    <2>5. \A f \in Executors : main = "wait" /\ f < index => f # e
      BY Zenon, <2>1
    <2> QED BY ZenonT(60), <1>t, <2>1, <2>2, <2>3, <2>4, <2>5 DEF Parts
  <1>7. ASSUME NEW e \in Executors, CallbackStep(e)
        PROVE  Parts'
    <2>1. /\ UNCHANGED <<main, index, loop_count, has_error, iteration_, iteration_end, Share>>
          /\ UNCHANGED <<loop_idx, task, lapped>>
      BY Zenon, <1>7, CallbackRest DEF caller, history, Share
    <2>2. faults' \in Nat
      BY SMTT(60), <1>7, <1>t, CallbackRest
    <2>3. \A f \in Executors : pc'[f] = pc[f] \/ (pc[f] = "stuck" /\ pc'[f] = "open")
      BY Zenon, <1>7, <1>t, CallbackControl
    <2> QED BY ZenonT(60), <1>t, <2>1, <2>2, <2>3 DEF Parts, Working
  <1> QED BY ZenonT(60), <1>1, <1>2, <1>3, <1>4, <1>5, <1>6, <1>7 DEF Next, CallerStep

LEMMA NextExecutorCases ==
  ASSUME NEW e \in Executors
  PROVE  /\ e < NumExecutors - 1 => NextExecutor(e) = e + 1 /\ e + 1 \in Executors
         /\ e = NumExecutors - 1 => NextExecutor(e) = 0
         /\ e < NumExecutors - 1 \/ e = NumExecutors - 1
         /\ NumExecutors - 1 \in Executors /\ NumExecutors - 1 > 0
  <1> USE Sizes
  <1>1. ASSUME e < NumExecutors - 1
        PROVE  NextExecutor(e) = e + 1
    <2>1. e + 1 \in Nat /\ NumExecutors \in Nat \ {0} /\ e + 1 < NumExecutors
      BY SMTT(60), <1>1
    <2>2. (e + 1) % NumExecutors = e + 1
      BY Zenon, <2>1, Quotient
    <2> QED BY Zenon, <2>2 DEF NextExecutor
  <1>2. ASSUME e = NumExecutors - 1
        PROVE  NextExecutor(e) = 0
    <2>1. 1 \in Nat /\ NumExecutors \in Nat \ {0}
      BY Zenon
    <2>2. (NumExecutors * 1) % NumExecutors = 0
      BY Zenon, <2>1, Quotient
    <2>3. NumExecutors * 1 = e + 1
      BY SMTT(60), <1>2
    <2> QED BY Zenon, <2>2, <2>3 DEF NextExecutor
  <1> QED BY SMTT(60), <1>1, <1>2, Neighbours DEF Executors

\* The task an executor hands on is the next task the other one waits for.
LEMMA HandedInTurn ==
  ASSUME iteration_ \in Nat, NEW e \in Executors, NEW c \in Nat,
         NEW t \in StageTask, t = TaskOf(e, c)
  PROVE  /\ e < NumExecutors - 1 => [t EXCEPT !.iteration = @ + 1] = TaskOf(e + 1, c)
         /\ e = NumExecutors - 1 => [t EXCEPT !.iteration = @ + 1] = TaskOf(0, c + NumStages)
  <1> DEFINE k == c \div NumStages
  <1>1. /\ k \in Nat /\ (c + NumStages) % NumStages = c % NumStages
        /\ (c + NumStages) \div NumStages = k + 1
    BY ZenonT(60), Quotient, Sizes
  <1>2. [t EXCEPT !.iteration = @ + 1] = [stage |-> t.stage, iteration |-> t.iteration + 1]
    BY SMTT(60) DEF StageTask
  <1>3. t.stage = c % NumStages /\ t.iteration = iteration_ + e + NumExecutors * k
    BY Zenon DEF TaskOf
  <1> HIDE DEF k
  <1>4. NumExecutors * k \in Nat /\ NumExecutors * (k + 1) = NumExecutors * k + NumExecutors
    BY SMTT(60), <1>1, Sizes
  <1>5. t.iteration + 1 = iteration_ + (e + 1) + NumExecutors * k
    BY SMTT(60), <1>3, <1>4, Sizes
  <1>6. e = NumExecutors - 1 => t.iteration + 1 = iteration_ + 0 + NumExecutors * (k + 1)
    BY SMTT(60), <1>3, <1>4, Sizes
  <1> QED BY ZenonT(60), <1>1, <1>2, <1>3, <1>5, <1>6 DEF TaskOf, k

LEMMA TurnStep ==
  ASSUME PipelineInv, Parts, Turn, Next
  PROVE  Turn'
  <1>t. /\ Types /\ Control /\ Parts /\ loop_idx \in [Executors -> Nat]
        /\ iteration_ \in Nat /\ index \in Nat
        /\ pc \in [Executors -> Finished \cup Working \cup {"pop"}]
        /\ task \in [Executors -> StageTask \cup {NoTask}]
        /\ task_queue_ \in [Executors -> Seq(StageTask)]
    BY Zenon DEF PipelineInv, Parts, Types
  <1>l. \A e \in Executors : Len(task_queue_[e]) \in Nat /\ DOMAIN task_queue_[e] = 1 .. Len(task_queue_[e])
    BY SMTT(60), <1>t
  <1>h. \A e : Hand(e) \in {0, 1} /\ (task[e] = NoTask => Hand(e) = 0) /\ (task[e] # NoTask => Hand(e) = 1)
    BY Zenon DEF Hand
  <1>h1. \A e : /\ Hand(e)' \in {0, 1} /\ (task'[e] = NoTask => Hand(e)' = 0)
                /\ task'[e] # NoTask => Hand(e)' = 1
    BY Zenon DEF Hand
  <1>n. /\ NumExecutors - 1 \in Executors /\ 0 \in Executors /\ NumExecutors - 1 # 0
        /\ \A e \in Executors : e > 0 => e - 1 \in Executors
        /\ \A e \in Executors : e \in Nat
    BY SMTT(60), PipelineAssumption DEF Executors
  <1> SUFFICES ASSUME main' \in {"push", "wait"}, ~lapped' PROVE InTurn'
    BY ZenonT(60) DEF Turn
  <1>1. CASE StartExecutor
    <2>0. /\ main = "start" /\ main' = "push" /\ index' = 0 /\ ~(index < NumExecutors - 1)
          /\ index \in Executors
      BY Zenon, <1>1, <1>t DEF StartExecutor, Types
    <2>1. /\ main = "start" /\ main' = "push" /\ index' = 0 /\ index = NumExecutors - 1
          /\ loop_idx' = [loop_idx EXCEPT ![index] = 0]
          /\ task' = [task EXCEPT ![index] = NoTask]
          /\ task_queue_' = [task_queue_ EXCEPT ![index] = <<>>]
      BY SMTT(60), <1>1, <2>0, Sizes DEF StartExecutor
    <2>2. \A e \in Executors : e # index => e < index
      BY SMTT(60), <2>1, Sizes
    <2>3. \A e \in Executors : loop_idx'[e] = 0 /\ task'[e] = NoTask /\ task_queue_'[e] = <<>>
      BY ZenonT(60), <1>t, <2>1, <2>2 DEF Parts, Control
    <2>4. \A e \in Executors : Received(e)' = 0
      BY SMTT(60), <2>3, <1>h1 DEF Received
    <2> QED BY SMTT(60), <1>n, <2>1, <2>3, <2>4 DEF InTurn
  <1>2. CASE PushTask
    <2> DEFINE t == [stage |-> index, iteration |-> iteration_]
    <2>1. /\ main = "push" /\ index \in Stages /\ t \in StageTask
          /\ task_queue_' = [task_queue_ EXCEPT ![0] = Append(@, t)]
          /\ UNCHANGED <<loop_idx, task, iteration_, lapped>>
          /\ \/ main' = "push" /\ index' = index + 1
             \/ main' = "wait" /\ index = NumStages - 1
      BY SMTT(60), <1>2, <1>t, Sizes DEF PushTask, Types, ExecuteAsync, StageTask, history
    <2>2. InTurn /\ loop_idx[NumExecutors - 1] = 0 /\ Received(0) = index
      BY SMTT(60), <2>1, <1>t, <1>n DEF Turn, InTurn
    <2>3. t = TaskOf(0, index)
      <3>1. index \in Nat /\ index < NumStages /\ NumStages \in Nat \ {0}
        BY SMTT(60), <2>1, Sizes
      <3>2. index % NumStages = index /\ index \div NumStages = 0
        BY ZenonT(60), <3>1, Quotient
      <3>3. iteration_ + 0 + NumExecutors * 0 = iteration_
        BY SMTT(60), <1>t, Sizes
      <3> QED BY Zenon, <3>2, <3>3 DEF TaskOf
    <2> HIDE DEF t
    <2>4. /\ \A e \in Executors : e # 0 => task_queue_'[e] = task_queue_[e]
          /\ Len(task_queue_'[0]) = Len(task_queue_[0]) + 1
          /\ DOMAIN task_queue_'[0] = 1 .. Len(task_queue_[0]) + 1
          /\ \A q \in 1 .. Len(task_queue_[0]) : task_queue_'[0][q] = task_queue_[0][q]
          /\ task_queue_'[0][Len(task_queue_[0]) + 1] = t
      BY SMTT(60), <1>t, <1>n, <2>1, AppendFacts
    <2>5. \A e, c : TaskOf(e, c)' = TaskOf(e, c)
      BY Zenon, <2>1 DEF TaskOf
    <2>6. \A e \in Executors : Hand(e)' = Hand(e)
      BY ZenonT(60), <2>1 DEF Hand
    <2>7. Received(0)' = index + 1 /\ \A e \in Executors : e # 0 => Received(e)' = Received(e)
      <3>1. Received(0)' = loop_idx[0] + Hand(0) + (Len(task_queue_[0]) + 1)
        BY ZenonT(60), <1>n, <2>1, <2>4, <2>6 DEF Received
      <3>2. Received(0) = loop_idx[0] + Hand(0) + Len(task_queue_[0])
        BY Zenon DEF Received
      <3>3. loop_idx[0] \in Nat /\ Hand(0) \in Nat /\ Len(task_queue_[0]) \in Nat
        <4>1. Hand(0) \in {0, 1}
          BY ZenonT(60), <1>h
        <4> QED BY SMTT(60), <1>t, <1>l, <1>n, <4>1
      <3>4. Received(0)' = index + 1
        BY SMTT(60), <2>2, <3>1, <3>2, <3>3
      <3>5. \A e \in Executors : e # 0 => Received(e)' = Received(e)
        BY ZenonT(60), <2>1, <2>4, <2>6 DEF Received
      <3> QED BY ZenonT(60), <3>4, <3>5
    <2>8. ASSUME NEW q \in DOMAIN task_queue_'[0]
          PROVE  task_queue_'[0][q] = TaskOf(0, loop_idx[0] + Hand(0) + q - 1)
      <3>1. CASE q \in 1 .. Len(task_queue_[0])
        BY SMTT(60), <1>l, <1>n, <2>2, <2>4, <3>1 DEF InTurn
      <3>2. CASE q = Len(task_queue_[0]) + 1
        <4>1. loop_idx[0] + Hand(0) + q - 1 = index
          BY SMTT(60), <1>t, <1>l, <1>h, <1>n, <2>2, <3>2 DEF Received
        <4> QED BY Zenon, <2>3, <2>4, <3>2, <4>1
      <3> QED BY SMTT(60), <1>l, <1>n, <2>4, <2>8, <3>1, <3>2
    <2>9. ASSUME NEW e \in Executors
          PROVE  /\ task'[e] # NoTask => task'[e] = TaskOf(e, loop_idx'[e])
                 /\ \A q \in DOMAIN task_queue_'[e] :
                      task_queue_'[e][q] = TaskOf(e, loop_idx'[e] + Hand(e)' + q - 1)
                 /\ e > 0 => Received(e)' = loop_idx'[e - 1]
      <3>1. CASE e = 0
        BY SMTT(60), <2>1, <2>2, <2>5, <2>6, <2>8, <3>1 DEF InTurn
      <3>2. CASE e # 0
        BY SMTT(60), <2>1, <2>2, <2>4, <2>5, <2>6, <2>7, <3>2 DEF InTurn
      <3> QED BY ZenonT(60), <3>1, <3>2
    <2>10. /\ Received(0)' = (IF main' = "push" THEN index' ELSE NumStages) + loop_idx'[NumExecutors - 1]
           /\ loop_idx'[NumExecutors - 1] = 0
      BY SMTT(60), <2>1, <2>2, <2>7, Sizes
    <2> QED BY ZenonT(60), <2>5, <2>9, <2>10 DEF InTurn
  <1>3. CASE Wait
    <2>1. /\ main = "wait" /\ main' = "wait" /\ UNCHANGED <<loop_idx, task, task_queue_, iteration_, lapped>>
      BY ZenonT(60), <1>3 DEF Wait, history
    <2> QED BY ZenonT(60), <2>1 DEF Turn, InTurn, Received, Hand, TaskOf
  <1>4. ASSUME NEW e \in Executors, Pop(e)
        PROVE  InTurn'
    <2>1. /\ UNCHANGED <<main, index, loop_idx, iteration_, lapped>>
          /\ task' = [task EXCEPT ![e] = Head(task_queue_[e])]
          /\ task_queue_' = [task_queue_ EXCEPT ![e] = Tail(@)]
          /\ task_queue_[e] # <<>> /\ task[e] = NoTask
      BY ZenonT(60), <1>4, <1>t DEF Pop, caller, history, Control
    <2>2. InTurn
      BY ZenonT(60), <2>1 DEF Turn
    <2>3. /\ \A f \in Executors : f # e => task_queue_'[f] = task_queue_[f] /\ task'[f] = task[f]
          /\ task'[e] = task_queue_[e][1] /\ task_queue_[e][1] \in StageTask
          /\ 1 \in DOMAIN task_queue_[e]
          /\ Len(task_queue_'[e]) = Len(task_queue_[e]) - 1
          /\ \A q \in DOMAIN task_queue_'[e] :
               q \in Nat /\ q + 1 \in DOMAIN task_queue_[e] /\ task_queue_'[e][q] = task_queue_[e][q + 1]
      BY SMTT(60), <1>t, <2>1, TailFacts
    <2>4. /\ Hand(e) = 0 /\ Hand(e)' = 1 /\ \A f \in Executors : f # e => Hand(f)' = Hand(f)
      BY ZenonT(60), <2>1, <2>3, NoTaskFacts DEF Hand
    <2>5. \A f \in Executors : Received(f)' = Received(f)
      BY SMTT(60), <1>t, <1>l, <1>h, <2>1, <2>3, <2>4 DEF Received
    <2>6. \A f, c : TaskOf(f, c)' = TaskOf(f, c)
      BY ZenonT(60), <2>1 DEF TaskOf
    <2>7. task'[e] = TaskOf(e, loop_idx[e])
      <3>1. task_queue_[e][1] = TaskOf(e, loop_idx[e] + Hand(e) + 1 - 1)
        BY ZenonT(60), <2>2, <2>3 DEF InTurn
      <3>2. loop_idx[e] + Hand(e) + 1 - 1 = loop_idx[e]
        BY SMTT(60), <1>t, <2>4
      <3> QED BY ZenonT(60), <2>3, <3>1, <3>2
    <2>8. ASSUME NEW q \in DOMAIN task_queue_'[e]
          PROVE  task_queue_'[e][q] = TaskOf(e, loop_idx[e] + Hand(e)' + q - 1)
      <3>1. task_queue_[e][q + 1] = TaskOf(e, loop_idx[e] + Hand(e) + (q + 1) - 1)
        BY ZenonT(60), <2>2, <2>3, <2>8 DEF InTurn
      <3>2. loop_idx[e] + Hand(e) + (q + 1) - 1 = loop_idx[e] + Hand(e)' + q - 1
        BY SMTT(60), <1>t, <2>3, <2>4, <2>8
      <3> QED BY ZenonT(60), <2>3, <2>8, <3>1, <3>2
    <2>9. ASSUME NEW g \in Executors
          PROVE  /\ task'[g] # NoTask => task'[g] = TaskOf(g, loop_idx[g])
                 /\ \A q \in DOMAIN task_queue_'[g] :
                      task_queue_'[g][q] = TaskOf(g, loop_idx[g] + Hand(g)' + q - 1)
                 /\ g > 0 => Received(g)' = loop_idx[g - 1]
      <3>1. g > 0 => Received(g)' = loop_idx[g - 1]
        BY ZenonT(60), <2>2, <2>5 DEF InTurn
      <3>2. CASE g = e
        BY ZenonT(60), <2>7, <2>8, <3>1, <3>2
      <3>3. CASE g # e
        BY SMTT(60), <2>2, <2>3, <2>4, <3>1, <3>3 DEF InTurn
      <3> QED BY ZenonT(60), <3>2, <3>3
    <2>10. /\ Received(0)' = (IF main' = "push" THEN index' ELSE NumStages) + loop_idx[NumExecutors - 1]
           /\ main' = "push" => loop_idx[NumExecutors - 1] = 0
      BY ZenonT(60), <1>n, <2>1, <2>2, <2>5 DEF InTurn
    <2> QED BY SMTT(60), <2>1, <2>6, <2>9, <2>10 DEF InTurn
  <1>5. ASSUME NEW e \in Executors,
               Reset(e) \/ Open(e) \/ PartialExecuteAsync(e) \/ FailSync(e) \/ CallbackStep(e)
        PROVE  InTurn'
    <2>1. UNCHANGED <<main, index, loop_idx, task, task_queue_, iteration_, lapped>>
      BY ZenonT(60), <1>5, CallbackRest
         DEF Reset, Open, PartialExecuteAsync, FailSync, caller, history
    <2> QED BY ZenonT(60), <2>1 DEF Turn, InTurn, Received, Hand, TaskOf
  <1>6. ASSUME NEW e \in Executors, Finish(e)
        PROVE  InTurn'
    <2> DEFINE f == NextExecutor(e)
               t == task[e]
               u == [t EXCEPT !.iteration = @ + 1]
               c == loop_idx[e]
    <2>1. /\ UNCHANGED <<main, index, iteration_>>
          /\ ~lapped /\ ~(main = "push" /\ f = 0)
          /\ task_queue_' = [task_queue_ EXCEPT ![f] = Append(@, u)]
          /\ loop_idx' = [loop_idx EXCEPT ![e] = @ + 1]
          /\ task' = [task EXCEPT ![e] = NoTask]
          /\ t \in StageTask /\ c \in Nat
      BY ZenonT(60), <1>6, <1>t DEF Finish, caller, ExecuteAsync, Control, Working
    <2>2. InTurn /\ t = TaskOf(e, c) /\ t # NoTask
      BY ZenonT(60), <2>1, NoTaskFacts DEF Turn, InTurn
    <2>3. f \in Executors /\ f # e /\ u \in StageTask
      <3>1. u \in StageTask
        BY SMTT(60), <2>1 DEF StageTask
      <3> QED BY SMTT(60), <3>1, <1>n, NextExecutorCases
    <2>4. u = TaskOf(f, Received(f))
      <3>1. CASE e < NumExecutors - 1
        <4>1. f = e + 1
          BY ZenonT(60), <3>1, NextExecutorCases
        <4>2. u = TaskOf(e + 1, c)
          BY ZenonT(60), <1>t, <2>1, <2>2, <3>1, HandedInTurn
        <4>3. f > 0 /\ f - 1 = e
          BY SMTT(60), <1>n, <4>1
        <4>4. Received(f) = loop_idx[f - 1]
          BY ZenonT(60), <2>2, <2>3, <4>3 DEF InTurn
        <4> QED BY ZenonT(60), <4>1, <4>2, <4>3, <4>4
      <3>2. CASE e = NumExecutors - 1
        <4>1. f = 0 /\ u = TaskOf(0, c + NumStages)
          BY SMTT(60), <1>t, <1>n, <2>1, <2>2, <3>2, NextExecutorCases, HandedInTurn
        <4>2. Received(0) = NumStages + c /\ NumStages + c = c + NumStages
          BY SMTT(60), <2>1, <2>2, <3>2, <4>1, Sizes DEF InTurn
        <4> QED BY ZenonT(60), <4>1, <4>2
      <3> QED BY ZenonT(60), <3>1, <3>2, NextExecutorCases
    <2> HIDE DEF f, u, t, c
    <2>5. /\ \A g \in Executors : g # f => task_queue_'[g] = task_queue_[g]
          /\ Len(task_queue_'[f]) = Len(task_queue_[f]) + 1
          /\ DOMAIN task_queue_'[f] = 1 .. Len(task_queue_[f]) + 1
          /\ \A q \in 1 .. Len(task_queue_[f]) : task_queue_'[f][q] = task_queue_[f][q]
          /\ task_queue_'[f][Len(task_queue_[f]) + 1] = u
      BY SMTT(60), <1>t, <2>1, <2>3, AppendFacts
    <2>6. /\ \A g \in Executors : g # e => loop_idx'[g] = loop_idx[g] /\ task'[g] = task[g]
          /\ loop_idx'[e] = c + 1 /\ loop_idx[e] = c /\ task'[e] = NoTask
      BY ZenonT(60), <1>t, <2>1 DEF c
    <2>7. /\ \A g \in Executors : g # e => Hand(g)' = Hand(g)
          /\ Hand(e)' = 0 /\ Hand(e) = 1
      BY SMTT(60), <2>2, <2>6 DEF Hand, t
    <2>8. /\ Received(f)' = Received(f) + 1
          /\ \A g \in Executors : g # f => Received(g)' = Received(g)
      <3>1. ASSUME NEW g \in Executors
            PROVE  /\ loop_idx'[g] + Hand(g)' = loop_idx[g] + Hand(g)
                   /\ loop_idx[g] \in Nat /\ Hand(g) \in Nat /\ Len(task_queue_[g]) \in Nat
        BY SMTT(60), <1>t, <1>l, <1>h, <2>1, <2>6, <2>7
      <3>2. ASSUME NEW g \in Executors, g # f
            PROVE  Received(g)' = Received(g)
        BY ZenonT(60), <2>5, <3>1, <3>2 DEF Received
      <3>3. Received(f)' = loop_idx[f] + Hand(f) + (Len(task_queue_[f]) + 1)
        BY ZenonT(60), <2>3, <2>5, <3>1 DEF Received
      <3>4. Received(f)' = Received(f) + 1
        <4>1. Received(f) = loop_idx[f] + Hand(f) + Len(task_queue_[f])
          BY ZenonT(60) DEF Received
        <4>2. loop_idx[f] \in Nat /\ Hand(f) \in Nat /\ Len(task_queue_[f]) \in Nat
          BY ZenonT(60), <2>3, <3>1
        <4> QED BY SMTT(60), <3>3, <4>1, <4>2
      <3> QED BY ZenonT(60), <3>2, <3>4
    <2>9. \A g, d : TaskOf(g, d)' = TaskOf(g, d)
      BY ZenonT(60), <2>1 DEF TaskOf
    <2>10. ASSUME NEW g \in Executors, NEW q \in DOMAIN task_queue_'[g]
           PROVE  task_queue_'[g][q] = TaskOf(g, loop_idx'[g] + Hand(g)' + q - 1)
      <3>1. loop_idx'[g] + Hand(g)' = loop_idx[g] + Hand(g)
        BY SMTT(60), <1>t, <1>h, <2>1, <2>6, <2>7
      <3>2. CASE q \in DOMAIN task_queue_[g]
        BY SMTT(60), <1>l, <2>2, <2>3, <2>5, <3>1, <3>2 DEF InTurn
      <3>3. CASE q \notin DOMAIN task_queue_[g]
        <4>1. g = f /\ q = Len(task_queue_[f]) + 1
          BY SMTT(60), <1>l, <2>3, <2>5, <2>10, <3>3
        <4>2. loop_idx[f] + Hand(f) + q - 1 = Received(f)
          BY SMTT(60), <1>t, <1>l, <1>h, <2>3, <4>1 DEF Received
        <4> QED BY ZenonT(60), <2>4, <2>5, <3>1, <4>1, <4>2
      <3> QED BY ZenonT(60), <3>2, <3>3
    <2>11. ASSUME NEW g \in Executors, g > 0
           PROVE  Received(g)' = loop_idx'[g - 1]
      <3>1. Received(g) = loop_idx[g - 1]
        BY ZenonT(60), <2>2, <2>11 DEF InTurn
      <3>2. g = f <=> g - 1 = e
        BY SMTT(60), <1>n, <2>11, NextExecutorCases DEF f
      <3> QED BY ZenonT(60), <1>n, <2>6, <2>8, <2>11, <3>1, <3>2
    <2>12. /\ Received(0)' = (IF main = "push" THEN index ELSE NumStages) + loop_idx'[NumExecutors - 1]
           /\ main = "push" => loop_idx'[NumExecutors - 1] = 0
      <3>1. f = 0 <=> e = NumExecutors - 1
        BY SMTT(60), <1>n, NextExecutorCases DEF f
      <3>2. /\ Received(0) = (IF main = "push" THEN index ELSE NumStages) + loop_idx[NumExecutors - 1]
            /\ main = "push" => loop_idx[NumExecutors - 1] = 0
        BY ZenonT(60), <2>2 DEF InTurn
      <3>3. CASE f = 0
        BY SMTT(60), <1>n, <2>1, <2>6, <2>8, <3>1, <3>2, <3>3, Sizes
      <3>4. CASE f # 0
        BY ZenonT(60), <1>n, <2>6, <2>8, <3>1, <3>2, <3>4
      <3> QED BY ZenonT(60), <3>3, <3>4
    <2>13. \A g \in Executors : task'[g] # NoTask => task'[g] = TaskOf(g, loop_idx'[g])
      BY ZenonT(60), <2>2, <2>6 DEF InTurn
    <2> QED BY ZenonT(60), <2>1, <2>9, <2>10, <2>11, <2>12, <2>13 DEF InTurn
  <1>7. ~(\E k \in LoopCounts : Execute(k)) /\ ~Return
    BY Zenon DEF Execute, Return
  <1> QED BY ZenonT(60), <1>1, <1>2, <1>3, <1>4, <1>5, <1>6, <1>7 DEF Next, CallerStep, StageStep

\* Without a failure nothing is lost.
LEMMA Unfailing ==
  ASSUME NEW e \in Executors, StageStep(e), faults \in Nat, faults' = 0,
         root[e] = "good", pc[e] \in {"run", "sync"} => cb[e] = "run"
  PROVE  lost' = lost /\ root' = root
  <1>1. faults' # faults + 1
    BY SMTT(60)
  <1>2. CASE Pop(e)
    BY Zenon, <1>2 DEF Pop, contexts
  <1>3. CASE Reset(e) \/ Open(e)
    BY Zenon, <1>3 DEF Reset, Open
  <1>4. CASE PartialExecuteAsync(e)
    BY Zenon, <1>1, <1>4 DEF PartialExecuteAsync, RegisterFails, ScheduleFails, Fault
  <1>5. CASE FailSync(e)
    BY Zenon, <1>1, <1>5 DEF FailSync, SyncFails, Fault
  <1>6. CASE Finish(e)
    BY Zenon, <1>6 DEF Finish
  <1> QED BY Zenon, <1>2, <1>3, <1>4, <1>5, <1>6 DEF StageStep

\* In turn, no executor meets a task that is not of this call, nor a context
\* whose callback thread still runs.
LEMMA CleanStep ==
  ASSUME PipelineInv, Parts, Turn, Clean, Next
  PROVE  Clean'
  <1>t. /\ Types /\ Control /\ Parts /\ Clean /\ loop_idx \in [Executors -> Nat]
        /\ iteration_ \in Nat /\ index \in Nat /\ loop_count \in Nat /\ faults \in Nat
        /\ pc \in [Executors -> Finished \cup Working \cup {"pop"}]
        /\ task \in [Executors -> StageTask \cup {NoTask}]
        /\ task_queue_ \in [Executors -> Seq(StageTask)]
        /\ cb \in [Executors -> {"none", "run", "ended", "old"}] /\ lost \in [Executors -> BOOLEAN]
    BY Zenon DEF PipelineInv, Parts, Types
  <1>1. ASSUME NEW k \in LoopCounts, Execute(k)
        PROVE  Clean'
    <2>1. main = "idle" /\ UNCHANGED <<pc, cb, lost, root, loop_idx, faults, lapped>>
      BY ZenonT(60), <1>1 DEF Execute, contexts
    <2> QED BY Zenon, <1>t, <2>1 DEF Clean
  <1>2. CASE StartExecutor
    <2>1. /\ main = "start" /\ index \in Executors /\ UNCHANGED <<cb, lost, root, lapped>>
          /\ faults' = 0 => faults = 0
      BY SMTT(60), <1>2, <1>t DEF StartExecutor, contexts, history, Fault, Types
    <2>2. /\ \A e \in Executors : e # index => pc'[e] = pc[e]
          /\ pc'[index] \in {"pop", "done", "failed"}
          /\ pc'[index] = "failed" => faults' # 0
      BY SMTT(60), <1>2, <1>t, <2>1, AtLoopFacts DEF StartExecutor, Fault
    <2> QED BY ZenonT(60), <1>t, <2>1, <2>2 DEF Clean
  <1>3. CASE PushTask
    <2>1. main' \in {"push", "wait"} /\ UNCHANGED <<pc, cb, lost, root, loop_idx, faults, lapped>>
      BY Zenon, <1>3 DEF PushTask, contexts, history
    <2> QED BY Zenon, <1>t, <2>1 DEF Clean
  <1>4. CASE Wait
    <2>1. /\ main = "wait" /\ index \in Executors /\ UNCHANGED <<pc, cb, lost, loop_idx, lapped>>
          /\ pc[index] \in {"done", "failed", "unexpected"}
          /\ faults' = 0 => faults = 0 /\ root' = root
          /\ main' \in {"wait", "return"} /\ (main' = "return" => index = NumExecutors - 1)
      BY SMTT(60), <1>4, <1>t, Sizes DEF Wait, SyncFails, contexts, history, Fault, Types
    <2>2. ASSUME main' = "return", ~lapped, faults = 0, NEW e \in Executors
          PROVE  cb[e] # "run"
      <3>1. e < index \/ e = index
        BY SMTT(60), <2>1, <2>2, Sizes
      <3>2. pc[e] \in Finished /\ pc[e] \notin {"idle", "failed", "unexpected"}
        BY ZenonT(60), <1>t, <2>1, <2>2, <3>1 DEF Control, Parts, Clean, Finished
      <3>3. loop_idx[e] = Share
        BY Zenon, <1>t, <2>1, <3>2 DEF Parts, Finished
      <3>4. Share % NumStages = 0
        <4>1. loop_count \div NumExecutors \in Nat /\ NumStages \in Nat \ {0}
          BY ZenonT(60), <1>t, Quotient, Sizes
        <4>2. (NumStages * (loop_count \div NumExecutors)) % NumStages = 0
          BY ZenonT(60), <4>1, Quotient
        <4> QED BY ZenonT(60), <4>2 DEF Share
      <3> QED BY Zenon, <1>t, <2>2, <3>2, <3>3, <3>4 DEF Clean, Finished
    <2> QED BY Zenon, <1>t, <2>1, <2>2 DEF Clean
  <1>5. CASE Return
    <2>1. /\ main = "return" /\ UNCHANGED <<pc, cb, lost, root, loop_idx, lapped>>
          /\ faults' = 0 => faults = 0
      BY SMTT(60), <1>5, <1>t DEF Return, contexts, history, Fault
    <2> QED BY ZenonT(60), <1>t, <2>1 DEF Clean
  <1>6. ASSUME NEW e \in Executors, StageStep(e)
        PROVE  Clean'
    <2>1. /\ main \in {"push", "wait"} /\ main' = main /\ loop_idx[e] < Share
          /\ lapped \in BOOLEAN /\ loop_count >= 2
      BY ZenonT(60), <1>t, <1>6, AtWork, WorkingCall DEF Parts, caller
    <2>2. \A f \in Executors : f # e => pc'[f] = pc[f] /\ cb'[f] = cb[f] /\ loop_idx'[f] = loop_idx[f]
      BY ZenonT(60), <1>6, <1>t, OthersRest
    <2>3. (~lapped' => ~lapped) /\ (faults' = 0 => faults = 0)
      <3>1. lapped' = lapped \/ lapped' = (lapped \/ (main = "push" /\ NextExecutor(e) = 0))
        BY Zenon, <1>6, AtWork
      <3>2. ~lapped' => ~lapped
        BY ZenonT(60), <3>1
      <3>3. faults' = faults \/ faults' = faults + 1
        BY Zenon, <1>6, AtWork
      <3>4. faults' = 0 => faults = 0
        BY SMTT(60), <1>t, <3>3
      <3> QED BY ZenonT(60), <3>2, <3>4
    <2>4. ~lapped => InTurn
      BY Zenon, <2>1 DEF Turn
    <2>11. faults' = 0 => /\ ~lost[e] /\ root[e] = "good"
                          /\ pc[e] \in {"run", "sync"} => cb[e] = "run"
      BY Zenon, <1>t, <2>3, OwnContext DEF Clean
    <2>12. faults' = 0 => lost' = lost /\ root' = root
      BY SMTT(60), <1>6, <1>t, <2>11, Unfailing
    <2> SUFFICES ASSUME ~lapped
                 PROVE  /\ pc'[e] # "unexpected"
                        /\ faults' = 0 =>
                             /\ pc'[e] \notin {"failed", "stuck"}
                             /\ cb'[e] = "run" =>
                                  loop_idx'[e] % NumStages # 0 \/ pc'[e] \in {"open", "run", "sync"}
      BY ZenonT(60), <1>t, <2>1, <2>2, <2>3, <2>12 DEF Clean
    <2>5. InTurn
      BY Zenon, <2>4
    <2>6. CASE Pop(e)
      <3>1. /\ pc[e] = "pop" /\ task_queue_[e] # <<>>
            /\ pc'[e] = IF task_queue_[e][1].iteration >= iteration_end THEN "unexpected"
                        ELSE IF task_queue_[e][1].stage = 0 THEN "reset" ELSE "run"
            /\ UNCHANGED <<cb, loop_idx, faults>> /\ task[e] = NoTask
        BY SMTT(60), <2>6, <1>t DEF Pop, contexts, Control
      <3>2. 1 \in DOMAIN task_queue_[e]
        BY SMTT(60), <1>t, <3>1, TailFacts
      <3>3. Hand(e) = 0
        BY ZenonT(60), <3>1 DEF Hand
      <3>4. task_queue_[e][1] = TaskOf(e, loop_idx[e] + Hand(e) + 1 - 1)
        BY Zenon, <2>5, <3>2 DEF InTurn
      <3>5. loop_idx[e] + Hand(e) + 1 - 1 = loop_idx[e]
        BY SMTT(60), <1>t, <3>3
      <3>6. TaskOf(e, loop_idx[e]).iteration < iteration_ + loop_count
        BY ZenonT(60), <1>t, <2>1, ShareInCall
      <3>7. iteration_end = iteration_ + loop_count
        BY ZenonT(60), <1>t, <2>1 DEF Parts
      <3>8. TaskOf(e, loop_idx[e]).iteration \in Nat
        <4>1. task_queue_[e][1] \in StageTask
          BY SMTT(60), <1>t, <3>2
        <4>2. task_queue_[e][1].iteration \in Nat
          BY ZenonT(60), <4>1 DEF StageTask
        <4> QED BY ZenonT(60), <4>2, <3>4, <3>5
      <3>9. pc'[e] \in {"reset", "run"}
        BY SMTT(60), <1>t, <3>1, <3>4, <3>5, <3>6, <3>7, <3>8
      <3> QED BY ZenonT(60), <1>t, <3>1, <3>9 DEF Clean
    <2>7. CASE Reset(e)
      <3>1. pc[e] = "reset" /\ task[e].stage = 0 /\ task[e] \in StageTask
        BY ZenonT(60), <2>7, <1>t DEF Reset, Control, Working
      <3>2. loop_idx[e] % NumStages = 0
        <4>1. task[e] = TaskOf(e, loop_idx[e])
          BY ZenonT(60), <2>5, <3>1, NoTaskFacts DEF InTurn
        <4>2. task[e].stage = loop_idx[e] % NumStages
          BY SMTT(60), <4>1 DEF TaskOf
        <4> QED BY ZenonT(60), <3>1, <4>2
      <3>3. faults = 0 => cb[e] # "run"
        BY ZenonT(60), <1>t, <3>1, <3>2 DEF Clean
      <3>4. faults' = 0 => pc'[e] = "open"
        <4>1. \/ pc' = [pc EXCEPT ![e] = IF cb[e] = "run" THEN "stuck" ELSE "open"]
              \/ faults' = faults + 1
          BY Zenon, <2>7 DEF Reset, Fault
        <4>2. faults + 1 # 0
          BY SMTT(60), <1>t
        <4> QED BY Zenon, <1>t, <2>3, <3>3, <4>1, <4>2
      <3>5. pc'[e] # "unexpected"
        BY ZenonT(60), <2>7, <1>t DEF Reset
      <3> QED BY Zenon, <3>4, <3>5
    <2>13. CASE Open(e)
      <3>1. pc'[e] = "run" \/ (pc'[e] = "failed" /\ faults' = faults + 1)
        BY Zenon, <2>13, <1>t DEF Open, Fault
      <3>2. faults + 1 # 0
        BY SMTT(60), <1>t
      <3> QED BY ZenonT(60), <3>1, <3>2
    <2>8. CASE PartialExecuteAsync(e)
      <3>1. \/ pc'[e] = "sync"
            \/ pc'[e] = "failed" /\ (faults' = faults + 1 \/ cb[e] # "run" \/ root[e] # "good")
        BY Zenon, <2>8, <1>t DEF PartialExecuteAsync, RegisterFails, ScheduleFails, Fault
      <3>2. faults + 1 # 0 /\ pc[e] = "run"
        BY SMTT(60), <1>t, <2>8 DEF PartialExecuteAsync
      <3> QED BY ZenonT(60), <2>11, <3>1, <3>2
    <2>9. CASE FailSync(e)
      <3>1. pc'[e] = "failed" /\ faults' = faults + 1
        BY Zenon, <2>9, <1>t DEF FailSync, SyncFails, Fault
      <3>2. faults + 1 # 0
        BY SMTT(60), <1>t
      <3> QED BY ZenonT(60), <3>1, <3>2
    <2>10. CASE Finish(e)
      <3>1. /\ pc'[e] \in {"pop", "done"} /\ loop_idx'[e] = loop_idx[e] + 1
            /\ task[e] \in StageTask
            /\ task[e].stage < NumStages - 1 \/ cb'[e] = "none"
        BY Zenon, <2>10, <1>t, AtLoopFacts DEF Finish, Destroy, Control, Working
      <3>2. task[e].stage = loop_idx[e] % NumStages
        <4>1. task[e] = TaskOf(e, loop_idx[e])
          BY ZenonT(60), <2>5, <3>1, NoTaskFacts DEF InTurn
        <4>2. task[e].stage = loop_idx[e] % NumStages
          BY SMTT(60), <4>1 DEF TaskOf
        <4> QED BY ZenonT(60), <3>1, <4>2
      <3>3. loop_idx[e] % NumStages < NumStages - 1 => (loop_idx[e] + 1) % NumStages # 0
        <4>1. loop_idx[e] \in Nat /\ NumStages \in Nat \ {0}
          BY ZenonT(60), <1>t, Sizes
        <4> QED BY ZenonT(60), <4>1, Quotient
      <3>4. cb'[e] = "run" => task[e].stage < NumStages - 1
        BY Zenon, <3>1
      <3> QED BY ZenonT(60), <3>1, <3>2, <3>3, <3>4
    <2> QED BY ZenonT(60), <1>6, <2>6, <2>7, <2>8, <2>9, <2>10, <2>13 DEF StageStep
  <1>7. ASSUME NEW e \in Executors, CallbackStep(e)
        PROVE  Clean'
    <2>1. faults' # 0
      <3>1. CASE CallbackFails(e)
        BY SMTT(60), <1>t, <3>1 DEF CallbackFails, Fault
      <3>2. CASE CallbackEof(e)
        <4>1. eofs[e] # 0 /\ faults' = faults
          BY SMTT(60), <1>t, <3>2 DEF CallbackEof
        <4>2. lost[e]
          BY Zenon, <4>1 DEF PipelineInv, Callbacks
        <4> QED BY Zenon, <1>t, <4>1, <4>2 DEF Clean
      <3> QED BY Zenon, <1>7, <3>1, <3>2 DEF CallbackStep
    <2>2. lapped' = lapped
      BY Zenon, <1>7, CallbackRest DEF history
    <2>3. \A f \in Executors : pc'[f] = pc[f] \/ (pc[f] = "stuck" /\ pc'[f] = "open")
      BY Zenon, <1>7, <1>t, CallbackControl
    <2> QED BY Zenon, <1>t, <2>1, <2>2, <2>3 DEF Clean
  <1> QED BY ZenonT(60), <1>1, <1>2, <1>3, <1>4, <1>5, <1>6, <1>7 DEF Next, CallerStep

-----------------------------------------------------------------------------
(* Neither a stuck executor nor a ring of waiting ones.                    *)

LEMMA Least ==
  ASSUME NEW S \in SUBSET Nat, S # {}
  PROVE  \E i \in S : \A j \in S : i <= j
  <1>1. \E i \in S : \A j \in S : ~(<<j, i>> \in OpToRel(<, Nat))
    BY Zenon, NatLessThanWellFounded, WFMin
  <1>2. \A i, j \in Nat : j < i => <<j, i>> \in OpToRel(<, Nat)
    BY Zenon DEF OpToRel
  <1>3. \A i, j \in Nat : i <= j \/ j < i
    BY SMTT(60)
  <1> QED BY ZenonT(60), <1>1, <1>2, <1>3

\* Executors that rest without a task have not all taken their share: the
\* first of them would have to wait for one that has finished its own.
LEMMA NotHung ==
  ASSUME OrderInv, Hung, faults = 0, ~lapped
  PROVE  FALSE
  <1>t. /\ Types /\ Control /\ Parts /\ loop_idx \in [Executors -> Nat]
        /\ task_queue_ \in [Executors -> Seq(StageTask)]
        /\ main = "wait" /\ InTurn
    BY ZenonT(60) DEF OrderInv, PipelineInv, Parts, Types, Turn, Hung
  <1>1. ASSUME NEW e \in Executors
        PROVE  /\ Hand(e) = 0 /\ loop_idx[e] \in Nat /\ Len(task_queue_[e]) \in Nat
               /\ \/ pc[e] = "done" /\ loop_idx[e] = Share
                  \/ pc[e] = "pop" /\ loop_idx[e] < Share /\ Len(task_queue_[e]) = 0
    <2>1. pc[e] \in {"done", "failed", "unexpected", "stuck"} \/ (pc[e] = "pop" /\ task_queue_[e] = <<>>)
      BY ZenonT(60) DEF Hung
    <2>2. pc[e] \notin {"failed", "unexpected", "stuck"}
      BY Zenon DEF OrderInv, Clean
    <2>3. loop_idx[e] \in Nat /\ Len(task_queue_[e]) \in Nat
      BY SMTT(60), <1>t
    <2>4. CASE pc[e] = "done"
      BY ZenonT(60), <1>t, <2>3, <2>4 DEF Parts, Hand
    <2>5. CASE pc[e] = "pop" /\ task_queue_[e] = <<>>
      BY Zenon, <1>t, <2>3, <2>5 DEF Parts, Control, Hand
    <2> QED BY ZenonT(60), <2>1, <2>2, <2>4, <2>5
  <1>2. ASSUME NEW e \in Executors, e > 0
        PROVE  /\ e - 1 \in Executors /\ loop_idx[e] <= loop_idx[e - 1]
               /\ pc[e] = "pop" => loop_idx[e] = loop_idx[e - 1]
    <2>1. e - 1 \in Executors
      BY SMTT(60), <1>2, Sizes DEF Executors
    <2>2. loop_idx[e] + Hand(e) + Len(task_queue_[e]) = loop_idx[e - 1]
      BY Zenon, <1>t, <1>2 DEF InTurn, Received
    <2> QED BY SMTT(60), <1>1, <2>1, <2>2
  <1>3. 0 \in Executors /\ NumExecutors - 1 \in Executors /\ NumStages \in Nat \ {0}
    BY SMTT(60), Sizes DEF Executors
  <1>4. pc[0] = "pop" => loop_idx[0] = NumStages + loop_idx[NumExecutors - 1]
    <2>1. loop_idx[0] + Hand(0) + Len(task_queue_[0]) = NumStages + loop_idx[NumExecutors - 1]
      BY ZenonT(60), <1>t DEF InTurn, Received
    <2> QED BY SMTT(60), <1>1, <1>3, <2>1
  <1>5. pc[0] = "pop"
    <2> DEFINE P == {e \in Executors : pc[e] = "pop"}
    <2>1. P # {} /\ P \in SUBSET Nat
      <3>1. PICK e \in Executors : pc[e] \in {"pop", "stuck"}
        BY ZenonT(60) DEF Hung
      <3>2. pc[e] = "pop"
        BY ZenonT(60), <1>1, <3>1
      <3> QED BY Zenon, <3>2, Sizes
    <2>2. PICK m \in P : \A j \in P : m <= j
      BY Zenon, <2>1, Least
    <2>3. ASSUME m > 0 PROVE FALSE
      <3>1. m \in Executors /\ m \in Nat /\ pc[m] = "pop"
        BY ZenonT(60), <2>1, <2>2
      <3>2. m - 1 \in Executors /\ loop_idx[m] = loop_idx[m - 1]
        BY Zenon, <1>2, <2>3, <3>1
      <3>3. m - 1 \notin P
        BY SMTT(60), <2>2, <3>1
      <3>4. loop_idx[m - 1] = Share /\ loop_idx[m] < Share
        BY ZenonT(60), <1>1, <3>1, <3>2, <3>3
      <3> QED BY SMTT(60), <1>1, <3>1, <3>2, <3>4
    <2>4. m = 0
      BY SMTT(60), <2>1, <2>2, <2>3
    <2> QED BY Zenon, <2>2, <2>4
  <1>6. /\ loop_idx[0] # loop_idx[NumExecutors - 1] /\ loop_idx[0] < Share
    BY SMTT(60), <1>1, <1>3, <1>4, <1>5
  <1> DEFINE D == {e \in Executors : loop_idx[e] # loop_idx[0]}
  <1>7. D # {} /\ D \in SUBSET Nat
    BY Zenon, <1>3, <1>6, Sizes
  <1>8. PICK d \in D : \A j \in D : d <= j
    BY ZenonT(60), <1>7, Least
  <1>9. d \in Executors /\ d \in Nat /\ loop_idx[d] # loop_idx[0] /\ d # 0
    BY ZenonT(60), <1>7, <1>8
  <1>10. /\ d - 1 \in Executors /\ loop_idx[d] <= loop_idx[d - 1]
         /\ pc[d] = "pop" => loop_idx[d] = loop_idx[d - 1]
    BY SMTT(60), <1>2, <1>9
  <1>11. d - 1 \notin D
    BY SMTT(60), <1>8, <1>9
  <1>12. loop_idx[d - 1] = loop_idx[0]
    BY Zenon, <1>10, <1>11
  <1>13. pc[d] = "done" /\ loop_idx[d] = Share /\ loop_idx[d] \in Nat /\ loop_idx[0] \in Nat
    BY ZenonT(60), <1>1, <1>3, <1>9, <1>10, <1>12
  <1> QED BY SMTT(60), <1>6, <1>10, <1>12, <1>13

LEMMA OrderImplies == OrderInv => OrderlyUnlessLapped
  <1> SUFFICES ASSUME OrderInv PROVE OrderlyUnlessLapped
    BY Zenon
  <1>1. faults \in Nat
    BY Zenon DEF OrderInv, Parts
  <1>2. Hung => faults > 0 \/ lapped
    BY SMTT(60), <1>1, NotHung
  <1>3. NoneUnexpected \/ lapped
    BY Zenon DEF OrderInv, Clean, NoneUnexpected
  <1> QED BY ZenonT(60), <1>2, <1>3 DEF OrderlyUnlessLapped

LEMMA OrderInit == Init => OrderInv
  <1> SUFFICES ASSUME Init PROVE OrderInv
    BY Zenon
  <1>1. PipelineInv
    BY Zenon, InitInv
  <1>2. Parts
    BY Zenon DEF Init, Parts
  <1>3. Turn
    BY Zenon DEF Init, Turn
  <1>4. Clean
    BY Zenon DEF Init, Clean
  <1> QED BY ZenonT(60), <1>1, <1>2, <1>3, <1>4 DEF OrderInv

LEMMA OrderNext == OrderInv /\ Next => OrderInv'
  BY Zenon, PipelineNext, PartsStep, TurnStep, CleanStep DEF OrderInv

\* Steps outside the pipeline change nothing of it but the count of failures.
LEMMA OrderFrame ==
  ASSUME OrderInv, faults' \in Nat, faults' >= faults,
         UNCHANGED <<caller, pc, loop_idx, task, task_queue_, contexts, history>>
  PROVE  OrderInv'
  <1>u. /\ UNCHANGED <<main, index, loop_count, has_error, iteration_, iteration_end>>
        /\ UNCHANGED <<pc, loop_idx, task, task_queue_, ctx, cb, eofs, root, lost, done, lapped>>
        /\ faults \in Nat
    BY Zenon DEF caller, contexts, history, OrderInv, Parts
  <1>1. PipelineInv'
    BY Zenon, <1>u, PipelineFrame DEF OrderInv
  <1>2. Parts'
    BY ZenonT(60), <1>u DEF OrderInv, Parts, Share
  <1>3. Turn'
    BY SMTT(60), <1>u DEF OrderInv, Turn, InTurn, Received, Hand, TaskOf
  <1>4. Clean'
    BY SMTT(60), <1>u DEF OrderInv, Clean
  <1> QED BY ZenonT(60), <1>1, <1>2, <1>3, <1>4 DEF OrderInv

-----------------------------------------------------------------------------
(* The outputs of a call.                                                  *)

\* A task has overtaken Execute, and an executor has lost a callback.
Astray == lapped /\ \E e \in Executors : lost[e]

\* Unless both has happened, an executor finishes its iterations one after
\* the other, each from the first stage to the last: stage s has finished the
\* j-th iteration of executor e exactly when e has finished NumStages * j + s
\* tasks and one more.
Finishes ==
  main \in {"push", "wait"} /\ ~Astray =>
    \A e \in Executors, s \in Stages, j \in Nat :
      iteration_ + e + NumExecutors * j < done[s] <=> NumStages * j + s < loop_idx[e]

\* The context of an executor is that of the task it finished last, or of the
\* one it works on.
Rested ==
  main \in {"push", "wait"} /\ ~Astray =>
    \A e \in Executors :
      /\ loop_idx[e] > 0 /\ pc[e] \in {"pop", "done"} =>
           ctx[e] = iteration_ + e + NumExecutors * ((loop_idx[e] - 1) \div NumStages)
      /\ pc[e] \in {"run", "sync"} => ctx[e] = task[e].iteration

Rounds == loop_count \div NumExecutors

Outcome ==
  main = "return" /\ ~has_error /\ ~Astray =>
    /\ \A s \in Stages : done[s] = iteration_ + NumExecutors * Rounds
    /\ loop_count >= NumExecutors =>
         \A e \in Executors : ctx[e] = iteration_ + e + NumExecutors * (Rounds - 1)

Delivered ==
  main = "idle" /\ result.status = "ok" /\ ~Astray =>
    /\ loop_count >= 2
    /\ \A s \in Stages : done[s] = iteration_end - (loop_count % NumExecutors)
    /\ loop_count >= NumExecutors => result.iteration = iteration_end - NumExecutors

OutputInv == OrderInv /\ Finishes /\ Rested /\ Outcome /\ Delivered

\* What was lost stays lost.
LEMMA AstrayStays ==
  ASSUME PipelineInv, Parts, Next, ~Astray'
  PROVE  ~Astray
  <1>t. Types /\ lapped \in BOOLEAN /\ lost \in [Executors -> BOOLEAN]
    BY Zenon DEF PipelineInv, Parts, Types
  <1>1. (lapped => lapped') /\ \A f \in Executors : lost[f] => lost'[f]
    <2>1. CASE CallerStep \/ \E k \in LoopCounts : Execute(k)
      <3>1. lost' = lost /\ lapped' = lapped
        <4>1. CASE StartExecutor
          BY Zenon, <4>1 DEF StartExecutor, contexts, history
        <4>2. CASE PushTask
          BY Zenon, <4>2 DEF PushTask, contexts, history
        <4>3. CASE Wait
          BY Zenon, <4>3 DEF Wait, history
        <4>4. CASE Return
          BY Zenon, <4>4 DEF Return, contexts, history
        <4>5. CASE \E k \in LoopCounts : Execute(k)
          BY Zenon, <4>5 DEF Execute, contexts
        <4> QED BY Zenon, <2>1, <4>1, <4>2, <4>3, <4>4, <4>5 DEF CallerStep
      <3> QED BY Zenon, <3>1
    <2>2. ASSUME NEW e \in Executors, StageStep(e)
          PROVE  (lapped => lapped') /\ \A f \in Executors : lost[f] => lost'[f]
      BY ZenonT(60), <1>t, <2>2, AtWork
    <2>3. ASSUME NEW e \in Executors, CallbackStep(e)
          PROVE  (lapped => lapped') /\ \A f \in Executors : lost[f] => lost'[f]
      BY ZenonT(60), <1>t, <2>3, CallbackRest DEF history
    <2> QED BY Zenon, <2>1, <2>2, <2>3 DEF Next
  <1> QED BY Zenon, <1>1 DEF Astray

\* Two places of the same order are the same place.
LEMMA SamePlace ==
  ASSUME NEW N \in Nat \ {0}, NEW q \in Int, NEW p \in Int,
         NEW r \in 0 .. N - 1, NEW u \in 0 .. N - 1, N * q + r = N * p + u
  PROVE  q = p /\ r = u
  <1>1. r = u
    BY ZenonT(60), RemainderUnique
  <1>2. N * (q - p) = 0
    BY SMTT(60), <1>1
  <1>3. q - p >= 1 => N * (q - p) >= N
    BY SMTT(60)
  <1>4. q - p <= -1 => N * (q - p) <= -N
    BY SMTT(60)
  <1> QED BY SMTT(60), <1>1, <1>2, <1>3, <1>4

LEMMA DivPlace ==
  ASSUME NEW S \in Nat \ {0}, NEW j \in Nat, NEW r \in 0 .. S - 1, NEW c \in Nat, c = S * j + r
  PROVE  c \div S = j /\ c % S = r
  <1> DEFINE q == c \div S
             u == c % S
  <1>1. q \in Int /\ u \in 0 .. S - 1 /\ c = S * q + u
    BY Zenon, Division
  <1> HIDE DEF q, u
  <1>2. j \in Int /\ S * q + u = S * j + r
    BY SMTT(60), <1>1
  <1>3. q = j /\ u = r
    BY ZenonT(60), <1>1, <1>2, SamePlace
  <1> QED BY Zenon, <1>3 DEF q, u

\* A place that is not the first of its row is in the row of the one before.
LEMMA DivBefore ==
  ASSUME NEW S \in Nat \ {0}, NEW c \in Nat, c % S # 0
  PROVE  c > 0 /\ (c - 1) \div S = c \div S
  <1> DEFINE q == c \div S
             r == c % S
  <1>1. q \in Nat /\ r \in 0 .. S - 1 /\ c = S * q + r
    BY Zenon, Division, Quotient
  <1>2. r # 0
    BY Zenon
  <1> HIDE DEF q, r
  <1>3. S * q \in Nat
    BY SMTT(60), <1>1
  <1> DEFINE m == c - 1
             v == r - 1
  <1>4. m \in Nat /\ v \in 0 .. S - 1 /\ m = S * q + v /\ c > 0
    BY SMTT(60), <1>1, <1>2, <1>3
  <1> HIDE DEF m, v
  <1>6. q \in Nat
    BY Zenon, <1>1
  <1>5. m \div S = q
    BY ZenonT(60), <1>4, <1>6, DivPlace
  <1> QED BY Zenon, <1>4, <1>5 DEF q, m

\* The iteration of a task in hand, as the j-th of its executor.
LEMMA OwnRound ==
  ASSUME PipelineInv, main \in {"push", "wait"}, NEW e \in Executors, task[e] \in StageTask
  PROVE  /\ task[e].stage \in Stages /\ done[task[e].stage] = task[e].iteration
         /\ \E j \in Nat : task[e].iteration = iteration_ + e + NumExecutors * j
  <1>1. /\ Types /\ Located /\ Progress /\ iteration_ \in Nat /\ done \in [Stages -> Nat]
        /\ NumExecutors \in Nat \ {0}
    BY ZenonT(60), Sizes DEF PipelineInv, Ring, Types
  <1> DEFINE t == task[e]
             m == t.iteration - iteration_
  <1>2. t.stage \in Stages /\ t.iteration \in Nat /\ t # NoTask
    BY Zenon, NoTaskFacts DEF StageTask
  <1>3. done[t.stage] = t.iteration /\ e = m % NumExecutors
    BY ZenonT(60), <1>1, <1>2 DEF Located, Owner
  <1>4. m \in Nat
    BY SMTT(60), <1>1, <1>2, <1>3 DEF Progress
  <1>5. m \div NumExecutors \in Nat
    BY ZenonT(60), <1>1, <1>4, Quotient
  <1>6. m = NumExecutors * (m \div NumExecutors) + e
    BY ZenonT(60), <1>1, <1>3, <1>4, Division
  <1>7. t.iteration = iteration_ + e + NumExecutors * (m \div NumExecutors)
    BY SMTT(60), <1>1, <1>2, <1>5, <1>6, Sizes
  <1> QED BY ZenonT(60), <1>2, <1>3, <1>5, <1>7

\* The task an executor finishes is the next one of its order.
LEMMA NextOfOrder ==
  ASSUME PipelineInv, Parts, Turn, Finishes, ~Astray, main \in {"push", "wait"},
         NEW e \in Executors, pc[e] = "sync", task[e] \in StageTask,
         NEW j \in Nat, task[e].iteration = iteration_ + e + NumExecutors * j
  PROVE  loop_idx[e] = NumStages * j + task[e].stage
  <1> DEFINE t == task[e]
             s == t.stage
             i == t.iteration
  <1>1. /\ s \in Stages /\ done[s] = i /\ i \in Nat /\ t # NoTask
        /\ s \in Nat /\ loop_idx[e] \in Nat /\ e \in Nat
        /\ NumStages \in Nat \ {0} /\ NumExecutors \in Nat \ {0}
        /\ iteration_ \in Nat /\ done \in [Stages -> Nat]
    BY ZenonT(60), OwnRound, NoTaskFacts, Sizes DEF StageTask, PipelineInv, Parts, Types
  <1>7. CASE lost[e]
    <2> DEFINE c == loop_idx[e]
               q == c \div NumStages
    <2>1. t = TaskOf(e, loop_idx[e])
      BY ZenonT(60), <1>1, <1>7 DEF Astray, Parts, Turn, InTurn
    <2>2. s = loop_idx[e] % NumStages /\ i = iteration_ + e + NumExecutors * q
      <3>1. s = TaskOf(e, loop_idx[e]).stage /\ i = TaskOf(e, loop_idx[e]).iteration
        BY Zenon, <2>1
      <3>2. TaskOf(e, c).stage = c % NumStages /\ TaskOf(e, c).iteration = iteration_ + e + NumExecutors * q
        BY Zenon DEF TaskOf
      <3> QED BY Zenon, <3>1, <3>2
    <2>3. q \in Nat /\ loop_idx[e] = NumStages * q + (loop_idx[e] % NumStages)
      <3>1. c \in Nat
        BY Zenon, <1>1
      <3> HIDE DEF c
      <3>2. q \in Nat /\ c = NumStages * q + (c % NumStages)
        BY Zenon, <1>1, <3>1, Quotient, Division
      <3> QED BY Zenon, <3>2 DEF c
    <2> HIDE DEF q, s, i, t
    <2>4. NumExecutors * q \in Nat /\ NumExecutors * j \in Nat
      BY SMTT(60), <1>1, <2>3
    <2>5. i = iteration_ + e + NumExecutors * j
      BY Zenon DEF i, t
    <2>6. NumExecutors * q + e = NumExecutors * j + e
      BY SMTT(60), <1>1, <2>2, <2>4, <2>5
    <2>7. e \in 0 .. NumExecutors - 1 /\ q \in Int /\ j \in Int
      BY SMTT(60), <2>3 DEF Executors
    <2>8. q = j
      BY ZenonT(60), <1>1, <2>6, <2>7, SamePlace
    <2> QED BY Zenon, <2>2, <2>3, <2>8 DEF s, t
  <1> SUFFICES ASSUME ~lost[e] PROVE loop_idx[e] = NumStages * j + task[e].stage
    BY Zenon, <1>7
  <1>2. ~(NumStages * j + s < loop_idx[e])
    <2>1. ~(iteration_ + e + NumExecutors * j < done[s])
      BY SMTT(60), <1>1
    <2> QED BY Zenon, <1>1, <2>1 DEF Finishes
  <1>3. NumStages * j \in Nat /\ NumExecutors * j \in Nat
    BY SMTT(60), <1>1
  <1>4. CASE s > 0
    <2>1. s - 1 \in Stages
      BY SMTT(60), <1>1, <1>4 DEF Stages
    <2>2. done[s] < done[s - 1]
      BY ZenonT(60), <1>1, <1>4 DEF PipelineInv, Ring, Behind
    <2>3. NumStages * j + (s - 1) < loop_idx[e]
      BY ZenonT(60), <1>1, <2>1, <2>2 DEF Finishes
    <2> QED BY SMTT(60), <1>1, <1>2, <1>3, <2>3
  <1>5. CASE s = 0 /\ j = 0
    BY SMTT(60), <1>1, <1>2, <1>5
  <1>6. CASE s = 0 /\ j > 0
    <2>1. j - 1 \in Nat /\ NumStages - 1 \in Stages /\ 0 \in Stages
      BY SMTT(60), <1>1, <1>6 DEF Stages
    <2> DEFINE p == iteration_ + e + NumExecutors * (j - 1)
    <2>2. /\ NumExecutors * (j - 1) = NumExecutors * j - NumExecutors
          /\ NumStages * (j - 1) = NumStages * j - NumStages
      BY SMTT(60), <1>1
    <2>3. p \in Nat /\ p = i - NumExecutors /\ p - iteration_ = NumExecutors * (j - 1) + e
      BY SMTT(60), <1>1, <1>3, <2>1, <2>2
    <2>4. Owner(p) = e
      <3> DEFINE m == p - iteration_
      <3>1. j - 1 \in Int /\ NumExecutors * (j - 1) \in Nat /\ e \in 0 .. NumExecutors - 1
        BY SMTT(60), <1>1, <2>1, <2>2, <1>3 DEF Executors
      <3>3. m = NumExecutors * (j - 1) + e
        BY ZenonT(60), <2>3
      <3> HIDE DEF m
      <3>4. m \in Nat
        BY SMTT(60), <1>1, <3>1, <3>3
      <3>2. m % NumExecutors = e
        <4> DEFINE q == j - 1
        <4>1. q \in Int /\ m = NumExecutors * q + e
          BY ZenonT(60), <3>1, <3>3
        <4> HIDE DEF q
        <4>2. NumExecutors \in Nat \ {0} /\ e \in 0 .. NumExecutors - 1
          BY ZenonT(60), <1>1, <3>1
        <4> QED BY ZenonT(60), <4>1, <4>2, <3>4, Remainder
      <3> QED BY ZenonT(60), <3>2 DEF Owner, m
    <2>5. ctx[e] = i
      BY ZenonT(60), <1>1, <1>6 DEF PipelineInv, Contexts, Owns
    <2> HIDE DEF p
    <2>6. p < done[NumStages - 1]
      <3> SUFFICES ASSUME ~(p < done[NumStages - 1]) PROVE FALSE
        BY Zenon
      <3>1. p \in done[NumStages - 1] .. done[0] - 1
        BY SMTT(60), <1>1, <1>6, <2>1, <2>3
      <3>2. ctx[e] = p
        <4>1. pc[e] \notin {"failed", "unexpected"}
          BY Zenon
        <4> QED BY ZenonT(60), <2>4, <3>1, <4>1 DEF PipelineInv, Contexts, Owns
      <3> QED BY SMTT(60), <1>1, <2>3, <2>5, <3>2
    <2>7. NumStages * (j - 1) + (NumStages - 1) < loop_idx[e]
      BY Zenon, <2>1, <2>6 DEF Finishes, p
    <2> QED BY SMTT(60), <1>1, <1>2, <1>3, <1>6, <2>2, <2>7
  <1> QED BY SMTT(60), <1>1, <1>4, <1>5, <1>6

LEMMA FinishesStep ==
  ASSUME PipelineInv, Parts, Turn, Finishes, Next
  PROVE  Finishes'
  <1>a. ~Astray' => ~Astray
    BY Zenon, AstrayStays
  <1>t. /\ Types /\ Control /\ loop_idx \in [Executors -> Nat] /\ iteration_ \in Nat
        /\ done \in [Stages -> Nat]
        /\ NumStages \in Nat \ {0} /\ NumExecutors \in Nat \ {0}
        /\ \A f \in Executors : f \in Nat /\ f \in 0 .. NumExecutors - 1
        /\ \A s \in Stages : s \in Nat /\ s \in 0 .. NumStages - 1
    BY ZenonT(60), Sizes DEF PipelineInv, Parts, Types, Executors, Stages
  <1>1. CASE StartExecutor
    <2> SUFFICES ASSUME main' = "push", NEW e \in Executors, NEW s \in Stages, NEW j \in Nat
                 PROVE  iteration_' + e + NumExecutors * j < done'[s] <=> NumStages * j + s < loop_idx'[e]
      BY ZenonT(60), <1>1 DEF StartExecutor, Finishes
    <2>1. /\ main = "start" /\ index = NumExecutors - 1 /\ UNCHANGED <<iteration_, done>>
          /\ loop_idx' = [loop_idx EXCEPT ![index] = 0]
      BY SMTT(60), <1>1, <1>t, Sizes DEF StartExecutor, history, Types
    <2>2. e < index \/ e = index
      BY SMTT(60), <1>t, <2>1
    <2>3. loop_idx'[e] = 0
      BY ZenonT(60), <1>t, <2>1, <2>2 DEF Parts
    <2>4. done'[s] = iteration_
      BY Zenon, <2>1 DEF PipelineInv, Progress
    <2>5. NumExecutors * j \in Nat /\ NumStages * j \in Nat
      BY SMTT(60), <1>t
    <2> QED BY SMTT(60), <1>t, <2>1, <2>3, <2>4, <2>5
  <1>2. CASE PushTask \/ Wait
    <2>1. main \in {"push", "wait"} /\ UNCHANGED <<iteration_, done, loop_idx>>
      BY Zenon, <1>2 DEF PushTask, Wait, history
    <2> QED BY Zenon, <1>a, <2>1 DEF Finishes
  <1>3. CASE Return \/ \E k \in LoopCounts : Execute(k)
    BY ZenonT(60), <1>3 DEF Return, Execute, Finishes
  <1>4. ASSUME NEW e \in Executors, StageStep(e), ~Finish(e)
        PROVE  Finishes'
    <2>1. UNCHANGED <<main, iteration_, done, loop_idx>>
      BY ZenonT(60), <1>t, <1>4, AtWork, OnItsWay DEF caller
    <2> QED BY Zenon, <1>a, <2>1 DEF Finishes
  <1>5. ASSUME NEW e \in Executors, Finish(e)
        PROVE  Finishes'
    <2> SUFFICES ASSUME ~Astray' PROVE Finishes'
      BY Zenon DEF Finishes
    <2> DEFINE s == task[e].stage
               i == task[e].iteration
    <2>1. /\ pc[e] = "sync" /\ task[e] \in StageTask /\ main \in {"push", "wait"}
          /\ UNCHANGED <<main, iteration_>>
          /\ loop_idx' = [loop_idx EXCEPT ![e] = @ + 1]
          /\ done' = [done EXCEPT ![s] = @ + 1]
      BY ZenonT(60), <1>5, <1>t, WorkingCall DEF Finish, Control, Working, caller
    <2>2. PICK j \in Nat : i = iteration_ + e + NumExecutors * j
      BY ZenonT(60), <2>1, OwnRound
    <2>3. s \in Stages /\ done[s] = i /\ i \in Nat
      BY ZenonT(60), <2>1, OwnRound DEF StageTask
    <2>4. loop_idx[e] = NumStages * j + s
      BY ZenonT(60), <1>a, <2>1, <2>2, NextOfOrder
    <2> HIDE DEF s, i
    <2> SUFFICES ASSUME NEW f \in Executors, NEW u \in Stages, NEW k \in Nat
                 PROVE  iteration_ + f + NumExecutors * k < done'[u] <=> NumStages * k + u < loop_idx'[f]
      BY ZenonT(60), <2>1 DEF Finishes
    <2> DEFINE a == NumExecutors * k
               b == NumStages * k
               x == NumExecutors * j
               y == NumStages * j
    <2>5. a \in Nat /\ b \in Nat /\ x \in Nat /\ y \in Nat
      BY SMTT(60), <1>t
    <2>6. iteration_ + f + a < done[u] <=> b + u < loop_idx[f]
      BY ZenonT(60), <1>a, <2>1 DEF Finishes
    <2>7. /\ f # e => loop_idx'[f] = loop_idx[f]
          /\ f = e => loop_idx'[f] = loop_idx[f] + 1
          /\ u # s => done'[u] = done[u]
          /\ u = s => done'[u] = done[u] + 1
          /\ loop_idx[f] \in Nat /\ done[u] \in Nat
      BY ZenonT(60), <1>t, <2>1, <2>3
    <2>8. a + f = x + e => k = j /\ f = e
      BY SMTT(60), <1>t, SamePlace
    <2>9. b + u = y + s => k = j /\ u = s
      BY SMTT(60), <1>t, <2>3, SamePlace
    <2>10. k = j => a = x /\ b = y
      BY Zenon
    <2> HIDE DEF a, b, x, y
    <2>11. i = iteration_ + e + x /\ loop_idx[e] = y + s
      BY Zenon, <2>2, <2>4 DEF x, y
    <2>12. f \in Nat /\ u \in Nat /\ e \in Nat /\ s \in Nat
      BY Zenon, <1>t, <2>3
    <2>13. CASE u = s /\ f = e
      <3>1. CASE k = j
        BY SMTT(60), <1>t, <2>3, <2>5, <2>7, <2>10, <2>11, <2>12, <2>13, <3>1 DEF a, b
      <3>2. CASE k # j
        <4>1. iteration_ + f + a # done[u] /\ b + u # loop_idx[f]
          BY SMTT(60), <1>t, <2>3, <2>5, <2>8, <2>9, <2>11, <2>12, <2>13, <3>2
        <4> QED BY SMTT(60), <1>t, <2>5, <2>6, <2>7, <2>12, <2>13, <4>1 DEF a, b
      <3> QED BY ZenonT(60), <3>1, <3>2
    <2>14. CASE u = s /\ f # e
      <3>1. iteration_ + f + a # done[u]
        BY SMTT(60), <1>t, <2>3, <2>5, <2>8, <2>11, <2>12, <2>14
      <3> QED BY SMTT(60), <1>t, <2>5, <2>6, <2>7, <2>12, <2>14, <3>1 DEF a, b
    <2>15. CASE u # s /\ f = e
      <3>1. b + u # loop_idx[f]
        BY Zenon, <2>9, <2>11, <2>15
      <3> QED BY SMTT(60), <1>t, <2>5, <2>6, <2>7, <2>12, <2>15, <3>1 DEF a, b
    <2>16. CASE u # s /\ f # e
      BY ZenonT(60), <2>6, <2>7, <2>16 DEF a, b
    <2> QED BY ZenonT(60), <2>13, <2>14, <2>15, <2>16
  <1>6. ASSUME NEW e \in Executors, CallbackStep(e)
        PROVE  Finishes'
    <2>1. UNCHANGED <<main, iteration_, done, loop_idx>>
      BY Zenon, <1>6, CallbackRest DEF caller, history
    <2> QED BY Zenon, <1>a, <2>1 DEF Finishes
  <1> QED BY ZenonT(60), <1>1, <1>2, <1>3, <1>4, <1>5, <1>6 DEF Next, CallerStep

OwnRun == \A e \in Executors : pc[e] \in {"run", "sync"} /\ ~lost[e] => ctx[e] = task[e].iteration

LEMMA OwnRunNow == PipelineInv => OwnRun
  BY Zenon, OwnContext DEF OwnRun

LEMMA OwnRunNext == PipelineInv' => OwnRun'
  BY OwnRunNow, PTL

LEMMA RestedStep ==
  ASSUME PipelineInv, PipelineInv', Parts, Turn, Turn', Finishes, Rested, Next
  PROVE  Rested'
  <1>a. ~Astray' => ~Astray
    BY Zenon, AstrayStays
  <1>t. /\ Types /\ Control /\ loop_idx \in [Executors -> Nat] /\ iteration_ \in Nat
        /\ pc \in [Executors -> Finished \cup Working \cup {"pop"}]
        /\ task \in [Executors -> StageTask \cup {NoTask}] /\ ctx \in [Executors -> Nat]
        /\ NumStages \in Nat \ {0} /\ NumExecutors \in Nat \ {0}
    BY ZenonT(60), Sizes DEF PipelineInv, Parts, Types
  <1> DEFINE Kept(e) == UNCHANGED <<pc[e], loop_idx[e], ctx[e], task[e]>>
  <1>1. CASE StartExecutor
    <2> SUFFICES ASSUME main' = "push", NEW e \in Executors
                 PROVE  loop_idx'[e] = 0 /\ pc'[e] \notin {"run", "sync"}
      <3>1. ~(0 > 0)
        BY SMTT(60)
      <3> QED BY Zenon, <1>1, <3>1 DEF StartExecutor, Rested
    <2>1. /\ main = "start" /\ index = NumExecutors - 1
          /\ loop_idx' = [loop_idx EXCEPT ![index] = 0]
      BY SMTT(60), <1>1, <1>t, Sizes DEF StartExecutor, Types
    <2>2. e < index \/ e = index
      BY SMTT(60), <2>1, Sizes
    <2>3. \E v \in {"pop", "done", "failed"} : pc' = [pc EXCEPT ![index] = v]
      BY ZenonT(60), <1>1, AtLoopFacts DEF StartExecutor
    <2>4. pc[e] \notin {"run", "sync"}
      BY Zenon, <1>t, <2>1, WorkingCall DEF Working
    <2> QED BY ZenonT(60), <1>t, <2>1, <2>2, <2>3, <2>4 DEF Parts
  <1>2. CASE PushTask \/ Wait
    <2>1. main \in {"push", "wait"} /\ UNCHANGED <<iteration_, loop_idx, pc, ctx, task>>
      BY Zenon, <1>2 DEF PushTask, Wait, contexts
    <2> QED BY Zenon, <1>a, <2>1 DEF Rested
  <1>3. CASE Return \/ \E k \in LoopCounts : Execute(k)
    BY Zenon, <1>3 DEF Return, Execute, Rested
  <1>4. ASSUME NEW e \in Executors, StageStep(e)
        PROVE  Rested'
    <2>1. UNCHANGED <<main, iteration_>> /\ main \in {"push", "wait"}
      BY ZenonT(60), <1>t, <1>4, AtWork, WorkingCall DEF caller
    <2>2. \A f \in Executors : f # e => Kept(f)
      BY ZenonT(60), <1>4, <1>t, OthersRest
    <2> SUFFICES ASSUME ~Astray'
                 PROVE  /\ loop_idx'[e] > 0 /\ pc'[e] \in {"pop", "done"} =>
                             ctx'[e] = iteration_ + e + NumExecutors * ((loop_idx'[e] - 1) \div NumStages)
                        /\ pc'[e] \in {"run", "sync"} => ctx'[e] = task'[e].iteration
      BY ZenonT(60), <1>a, <2>1, <2>2 DEF Rested
    <2>3. CASE Finish(e)
      <3> DEFINE s == task[e].stage
                 i == task[e].iteration
      <3>1. /\ pc[e] = "sync" /\ task[e] \in StageTask /\ UNCHANGED ctx
            /\ loop_idx'[e] = loop_idx[e] + 1
            /\ pc'[e] \in {"pop", "done"}
        BY ZenonT(60), <2>3, <1>t, AtLoopFacts DEF Finish, Control, Working
      <3>2. PICK j \in Nat : i = iteration_ + e + NumExecutors * j
        BY ZenonT(60), <2>1, <3>1, OwnRound
      <3>3. s \in 0 .. NumStages - 1
        BY ZenonT(60), <2>1, <3>1, OwnRound DEF Stages
      <3>4. loop_idx[e] = NumStages * j + s
        BY ZenonT(60), <1>a, <2>1, <3>1, <3>2, NextOfOrder
      <3>5. ctx[e] = i
        BY ZenonT(60), <1>a, <2>1, <3>1 DEF Rested
      <3>6. loop_idx[e] \div NumStages = j
        BY ZenonT(60), <1>t, <3>3, <3>4, DivPlace
      <3>7. loop_idx'[e] - 1 = loop_idx[e]
        BY SMTT(60), <1>t, <3>1
      <3> QED BY Zenon, <3>1, <3>2, <3>5, <3>6, <3>7
    <2>4. CASE ~Finish(e)
      <3>1. pc'[e] \notin {"pop", "done"} /\ loop_idx' = loop_idx
        BY Zenon, <1>t, <1>4, <2>4, OnItsWay
      <3> SUFFICES ASSUME pc'[e] \in {"run", "sync"} PROVE ctx'[e] = task'[e].iteration
        BY Zenon, <3>1
      <3>2. CASE ~lost'[e]
        BY Zenon, <3>2, OwnRunNext DEF OwnRun
      <3>3. CASE lost'[e] /\ Pop(e)
        <4> DEFINE c == loop_idx[e]
        <4>1. InTurn'
          BY Zenon, <2>1, <3>3 DEF Astray, Turn
        <4>2. /\ task'[e] = Head(task_queue_[e]) /\ task'[e].stage # 0
              /\ pc[e] = "pop" /\ ctx' = ctx /\ task_queue_[e] # <<>>
          BY ZenonT(60), <1>t, <3>3 DEF Pop, contexts
        <4>3. task'[e] # NoTask
          <5>1. task_queue_[e] \in Seq(StageTask)
            BY Zenon, <1>t DEF Types
          <5>2. Head(task_queue_[e]) \in StageTask
            BY SMTT(60), <4>2, <5>1
          <5> QED BY Zenon, <4>2, <5>2, NoTaskFacts
        <4>4. /\ task'[e].stage = c % NumStages
              /\ task'[e].iteration = iteration_ + e + NumExecutors * (c \div NumStages)
          <5> DEFINE t == task'[e]
                     r == c % NumStages
                     i == iteration_ + e + NumExecutors * (c \div NumStages)
          <5>1. t = [stage |-> r, iteration |-> i]
            BY Zenon, <2>1, <3>1, <4>1, <4>3 DEF InTurn, TaskOf
          <5> HIDE DEF t, r, i
          <5>2. t.stage = r /\ t.iteration = i
            BY Zenon, <5>1
          <5> QED BY Zenon, <5>2 DEF t, r, i
        <4>5. c \in Nat /\ c % NumStages # 0
          BY Zenon, <1>t, <4>2, <4>4
        <4>6. c > 0 /\ (c - 1) \div NumStages = c \div NumStages
          BY Zenon, <1>t, <4>5, DivBefore
        <4>7. ctx[e] = iteration_ + e + NumExecutors * ((c - 1) \div NumStages)
          BY Zenon, <1>a, <2>1, <4>2, <4>6 DEF Rested
        <4> HIDE DEF c
        <4>8. ctx[e] = iteration_ + e + NumExecutors * (c \div NumStages)
          BY Zenon, <4>6, <4>7
        <4>9. ctx'[e] = ctx[e]
          BY Zenon, <4>2
        <4> QED BY Zenon, <4>4, <4>8, <4>9
      <3>4. CASE Reset(e)
        BY ZenonT(60), <1>t, <3>4 DEF Reset
      <3>5. CASE Open(e)
        BY ZenonT(60), <1>t, <3>5 DEF Open
      <3>6. CASE PartialExecuteAsync(e)
        BY ZenonT(60), <1>a, <1>t, <2>1, <3>6 DEF PartialExecuteAsync, Rested
      <3>7. CASE FailSync(e)
        BY ZenonT(60), <1>t, <3>7 DEF FailSync
      <3> QED BY ZenonT(60), <1>4, <2>4, <3>2, <3>3, <3>4, <3>5, <3>6, <3>7 DEF StageStep
    <2> QED BY Zenon, <2>3, <2>4
  <1>5. ASSUME NEW e \in Executors, CallbackStep(e)
        PROVE  Rested'
    <2>1. UNCHANGED <<main, iteration_, loop_idx, ctx, task>>
      BY Zenon, <1>5, CallbackRest DEF caller
    <2>2. \A f \in Executors : pc'[f] = pc[f] \/ pc'[f] = "open"
      BY Zenon, <1>5, <1>t, CallbackControl
    <2> QED BY ZenonT(60), <1>a, <2>1, <2>2 DEF Rested
  <1> QED BY Zenon, <1>1, <1>2, <1>3, <1>4, <1>5 DEF Next, CallerStep

LEMMA CallDivision ==
  ASSUME loop_count \in Nat
  PROVE  /\ Rounds \in Nat /\ loop_count % NumExecutors \in Executors
         /\ NumExecutors * Rounds \in Nat /\ NumStages * Rounds \in Nat
         /\ loop_count = NumExecutors * Rounds + (loop_count % NumExecutors)
         /\ loop_count >= NumExecutors => Rounds > 0 /\ NumStages * Rounds > 0
  <1>1. NumExecutors \in Nat \ {0} /\ NumStages \in Nat \ {0}
    BY Zenon, Sizes
  <1> DEFINE r == loop_count % NumExecutors
  <1>2. Rounds \in Nat
    BY Zenon, <1>1, Quotient DEF Rounds
  <1>3. r \in Executors /\ loop_count = NumExecutors * Rounds + r
    BY ZenonT(60), <1>1, Division DEF Rounds, Executors
  <1> HIDE DEF r
  <1>4. NumExecutors * Rounds \in Nat /\ NumStages * Rounds \in Nat
    BY SMTT(60), <1>1, <1>2
  <1>5. Rounds = 0 => NumExecutors * Rounds = 0
    BY SMTT(60), <1>1
  <1>6. loop_count >= NumExecutors => Rounds > 0
    BY SMTT(60), <1>1, <1>2, <1>3, <1>5 DEF Executors
  <1>7. Rounds > 0 => NumStages * Rounds > 0
    BY SMTT(60), <1>1, <1>2
  <1> QED BY ZenonT(60), <1>2, <1>3, <1>4, <1>6, <1>7 DEF r

LEMMA OutcomeStep ==
  ASSUME PipelineInv, Parts, Parts', Finishes, Rested, Outcome, Next
  PROVE  Outcome'
  <1>a. ~Astray' => ~Astray
    BY Zenon, AstrayStays
  <1>t. /\ Types /\ Control /\ loop_idx \in [Executors -> Nat] /\ iteration_ \in Nat
        /\ done \in [Stages -> Nat] /\ ctx \in [Executors -> Nat] /\ loop_count \in Nat
        /\ NumStages \in Nat \ {0} /\ NumExecutors \in Nat \ {0}
        /\ 0 \in Executors /\ NumExecutors - 1 \in Executors /\ 0 \in Stages
        /\ \A s \in Stages : s \in Nat /\ s < NumStages
    <2>1. /\ NumStages \in Nat \ {0} /\ NumExecutors \in Nat \ {0}
          /\ 0 \in Executors /\ NumExecutors - 1 \in Executors /\ 0 \in Stages
          /\ \A s \in Stages : s \in Nat /\ s < NumStages
      BY SMTT(60), Sizes DEF Stages, Executors
    <2> QED BY ZenonT(60), <2>1 DEF PipelineInv, Parts, Types
  <1>1. CASE Wait
    <2> SUFFICES ASSUME main' = "return", ~has_error', ~Astray'
                 PROVE  /\ \A s \in Stages : done'[s] = iteration_' + NumExecutors * Rounds'
                        /\ loop_count' >= NumExecutors =>
                             \A e \in Executors :
                               ctx'[e] = iteration_' + e + NumExecutors * (Rounds' - 1)
      BY Zenon DEF Outcome
    <2>1. /\ main = "wait" /\ UNCHANGED <<iteration_, done, loop_idx, pc, ctx, loop_count>>
          /\ Rounds' = Rounds
      BY ZenonT(60), <1>1 DEF Wait, history, contexts, Rounds
    <2>2. \A e \in Executors : pc[e] = "done" /\ loop_idx[e] = NumStages * Rounds
      BY ZenonT(60), <2>1 DEF Parts, Share, Rounds
    <2> DEFINE a == NumExecutors * Rounds
               b == NumStages * Rounds
    <2>3. a \in Nat /\ b \in Nat /\ Rounds \in Nat
      BY Zenon, <1>t, CallDivision
    <2>4. ASSUME NEW u \in Stages PROVE done[u] = iteration_ + a
      <3>1. iteration_ + 0 + a < done[u] <=> b + u < loop_idx[0]
        BY ZenonT(60), <1>a, <1>t, <2>1, <2>3 DEF Finishes
      <3>2. done[u] <= iteration_ + a
        BY SMTT(60), <1>t, <2>2, <2>3, <3>1
      <3>3. CASE Rounds = 0
        <4>1. a = 0
          BY SMTT(60), <1>t, <3>3
        <4>2. iteration_ <= done[u]
          BY Zenon, <2>1 DEF PipelineInv, Progress
        <4> QED BY SMTT(60), <1>t, <3>2, <4>1, <4>2
      <3>4. CASE Rounds > 0
        <4>1. Rounds - 1 \in Nat
          BY SMTT(60), <2>3, <3>4
        <4>2. iteration_ + (NumExecutors - 1) + NumExecutors * (Rounds - 1) < done[u]
                <=> NumStages * (Rounds - 1) + u < loop_idx[NumExecutors - 1]
          BY Zenon, <1>a, <1>t, <2>1, <4>1 DEF Finishes
        <4>3. NumExecutors * (Rounds - 1) = a - NumExecutors /\ NumStages * (Rounds - 1) = b - NumStages
          BY SMTT(60), <1>t, <2>3
        <4>4. loop_idx[NumExecutors - 1] = b
          BY ZenonT(60), <1>t, <2>2
        <4> HIDE DEF a, b
        <4> QED BY SMTT(60), <1>t, <2>3, <3>2, <4>2, <4>3, <4>4
      <3> QED BY SMTT(60), <2>3, <3>3, <3>4
    <2>5. ASSUME loop_count >= NumExecutors, NEW e \in Executors
          PROVE  ctx[e] = iteration_ + e + NumExecutors * (Rounds - 1)
      <3> DEFINE c == loop_idx[e] - 1
                 j == Rounds - 1
                 v == NumStages - 1
      <3>1. loop_idx[e] > 0 /\ Rounds > 0 /\ loop_idx[e] \in Nat
        BY ZenonT(60), <1>t, <2>2, <2>5, CallDivision
      <3>2. ctx[e] = iteration_ + e + NumExecutors * (c \div NumStages)
        BY ZenonT(60), <1>a, <2>1, <2>2, <3>1 DEF Rested
      <3>3. c \in Nat /\ j \in Nat /\ v \in 0 .. NumStages - 1
        BY SMTT(60), <1>t, <2>3, <3>1
      <3>4. NumStages * j = b - NumStages
        BY SMTT(60), <1>t, <2>3
      <3>5. loop_idx[e] = b
        BY Zenon, <2>2
      <3> HIDE DEF b
      <3>6. c = NumStages * j + v
        BY SMTT(60), <1>t, <2>3, <3>4, <3>5
      <3> HIDE DEF c, j, v
      <3>7. c \div NumStages = j
        BY Zenon, <1>t, <3>3, <3>6, DivPlace
      <3> QED BY Zenon, <3>2, <3>7 DEF j
    <2> QED BY ZenonT(60), <2>1, <2>4, <2>5
  <1>2. CASE ~Wait
    <2>1. ASSUME NEW e \in Executors, StageStep(e) PROVE main' # "return"
      BY ZenonT(60), <1>t, <2>1, AtWork, WorkingCall DEF caller
    <2>3. ASSUME NEW e \in Executors, CallbackStep(e) PROVE Outcome'
      <3>1. UNCHANGED <<main, has_error, iteration_, loop_count, ctx, done>> /\ Rounds' = Rounds
        BY ZenonT(60), <2>3, CallbackRest DEF caller, history, Rounds
      <3> QED BY ZenonT(60), <1>a, <3>1 DEF Outcome
    <2>2. StartExecutor \/ PushTask \/ Return \/ (\E k \in LoopCounts : Execute(k)) => main' # "return"
      BY Zenon DEF StartExecutor, PushTask, Return, Execute
    <2> QED BY ZenonT(60), <1>2, <2>1, <2>2, <2>3 DEF Outcome, Next, CallerStep
  <1> QED BY ZenonT(60), <1>1, <1>2

LEMMA DeliveredStep ==
  ASSUME PipelineInv, Parts, Outcome, Delivered, Next
  PROVE  Delivered'
  <1>a. ~Astray' => ~Astray
    BY Zenon, AstrayStays
  <1>t. /\ Types /\ Control /\ iteration_ \in Nat /\ done \in [Stages -> Nat]
        /\ ctx \in [Executors -> Nat] /\ loop_count \in Nat
    BY ZenonT(60) DEF PipelineInv, Types
  <1>1. CASE Return
    <2> SUFFICES ASSUME result'.status = "ok", ~Astray'
                 PROVE  /\ loop_count' >= 2
                        /\ \A s \in Stages : done'[s] = iteration_end' - (loop_count' % NumExecutors)
                        /\ loop_count' >= NumExecutors =>
                             result'.iteration = iteration_end' - NumExecutors
      BY ZenonT(60) DEF Delivered
    <2>1. /\ main = "return" /\ ~has_error
          /\ result'.iteration = ctx[loop_count % NumExecutors]
          /\ UNCHANGED <<loop_count, iteration_end, done>>
      BY SMTT(60), <1>1 DEF Return, history, LastIterExecutor
    <2>2. iteration_end = iteration_ + loop_count /\ loop_count >= 2
      BY Zenon, <2>1 DEF Parts
    <2>3. /\ \A s \in Stages : done[s] = iteration_ + NumExecutors * Rounds
          /\ loop_count >= NumExecutors =>
               \A e \in Executors : ctx[e] = iteration_ + e + NumExecutors * (Rounds - 1)
      BY Zenon, <1>a, <2>1 DEF Outcome
    <2>4. /\ loop_count % NumExecutors \in Executors /\ NumExecutors * Rounds \in Nat
          /\ loop_count = NumExecutors * Rounds + (loop_count % NumExecutors)
          /\ loop_count % NumExecutors \in Nat /\ Rounds \in Nat /\ NumExecutors \in Nat
      BY ZenonT(60), <1>t, CallDivision, Sizes
    <2>5. NumExecutors * (Rounds - 1) = NumExecutors * Rounds - NumExecutors
      BY SMTT(60), <2>4
    <2>6. iteration_ + NumExecutors * Rounds = iteration_end - (loop_count % NumExecutors)
      BY SMTT(60), <1>t, <2>2, <2>4
    <2>7. iteration_ + (loop_count % NumExecutors) + NumExecutors * (Rounds - 1) = iteration_end - NumExecutors
      BY SMTT(60), <1>t, <2>2, <2>4, <2>5
    <2> QED BY Zenon, <2>1, <2>2, <2>3, <2>4, <2>6, <2>7
  <1>2. CASE \E k \in LoopCounts : Execute(k)
    BY SMTT(60), <1>2 DEF Execute, Delivered
  <1>3. CASE StartExecutor \/ PushTask \/ Wait
    BY ZenonT(60), <1>3 DEF StartExecutor, PushTask, Wait, Delivered
  <1>4. ASSUME NEW e \in Executors, StageStep(e)
        PROVE  Delivered'
    <2>1. main' = main /\ main # "idle"
      BY ZenonT(60), <1>t, <1>4, AtWork, WorkingCall DEF caller
    <2> QED BY Zenon, <2>1 DEF Delivered
  <1>5. ASSUME NEW e \in Executors, CallbackStep(e)
        PROVE  Delivered'
    <2>1. UNCHANGED <<main, result, loop_count, iteration_end, done>>
      BY Zenon, <1>5, CallbackRest DEF caller, history
    <2> QED BY ZenonT(60), <1>a, <2>1 DEF Delivered
  <1> QED BY ZenonT(60), <1>1, <1>2, <1>3, <1>4, <1>5 DEF Next, CallerStep

-----------------------------------------------------------------------------
(* The theorems.                                                           *)

LEMMA OutputInit == Init => OutputInv
  <1> SUFFICES ASSUME Init PROVE OutputInv
    BY Zenon
  <1>1. OrderInv
    BY Zenon, OrderInit
  <1> QED BY Zenon, <1>1 DEF OutputInv, Init, Finishes, Rested, Outcome, Delivered

LEMMA OutputNext == OutputInv /\ Next => OutputInv'
  <1> SUFFICES ASSUME OutputInv, Next PROVE OutputInv'
    BY Zenon
  <1>1. /\ OrderInv /\ OrderInv' /\ PipelineInv /\ PipelineInv'
        /\ Parts /\ Parts' /\ Turn /\ Turn'
    BY ZenonT(60), OrderNext DEF OutputInv, OrderInv
  <1>2. Finishes' /\ Rested' /\ Outcome' /\ Delivered'
    BY ZenonT(60), <1>1, FinishesStep, RestedStep, OutcomeStep, DeliveredStep DEF OutputInv
  <1> QED BY ZenonT(60), <1>1, <1>2 DEF OutputInv

LEMMA OutputFrame ==
  ASSUME OutputInv, faults' \in Nat, faults' >= faults,
         UNCHANGED <<caller, pc, loop_idx, task, task_queue_, contexts, history>>
  PROVE  OutputInv'
  <1>1. OrderInv'
    BY Zenon, OrderFrame DEF OutputInv
  <1>2. /\ UNCHANGED <<main, index, loop_count, has_error, iteration_, iteration_end, result>>
        /\ UNCHANGED <<pc, loop_idx, task, ctx, done>> /\ (~Astray' => ~Astray)
    BY Zenon DEF caller, contexts, history, Astray
  <1>3. Finishes' /\ Rested'
    BY Zenon, <1>2 DEF OutputInv, Finishes, Rested
  <1>4. Outcome' /\ Delivered'
    BY Zenon, <1>2 DEF OutputInv, Outcome, Delivered, Rounds
  <1> QED BY ZenonT(60), <1>1, <1>3, <1>4 DEF OutputInv

\* The iteration a call returns, with the two executors the code has: every
\* call has at least two iterations, so each executor has one.
LEMMA TwoExecutors ==
  ASSUME NumExecutors = 2, OutputInv
  PROVE  OutputsComplete \/ Astray
  BY Zenon DEF OutputInv, Delivered, OutputsComplete

LEMMA OutputImplies == OutputInv => ContextOwn
  <1> SUFFICES ASSUME OutputInv PROVE ContextOwn
    BY Zenon
  <1>1. PipelineInv /\ Types /\ Control /\ Rested
    BY Zenon DEF OutputInv, OrderInv, PipelineInv
  <1>2. ASSUME NEW e \in Executors, pc[e] \in {"run", "sync"}
        PROVE  (cb[e] = "run" \/ lost[e]) /\ (ctx[e] = task[e].iteration \/ (lost[e] /\ lapped))
    <2>1. main \in {"push", "wait"}
      BY Zenon, <1>1, <1>2, WorkingCall DEF Working
    <2>2. lost[e] \/ (cb[e] = "run" /\ ctx[e] = task[e].iteration)
      BY Zenon, <1>1, <1>2, OwnContext
    <2>3. ctx[e] = task[e].iteration \/ lapped
      BY Zenon, <1>1, <1>2, <2>1 DEF Rested, Astray
    <2> QED BY Zenon, <2>2, <2>3
  <1>3. \A e, f \in Executors : pc[e] \in {"run", "sync"} /\ pc[f] \in {"run", "sync"} /\ e # f
                                  => task[e].iteration # task[f].iteration
    BY Zenon, <1>1, OwnContext
  <1> QED BY Zenon, <1>2, <1>3 DEF ContextOwn

\* The invariant of both orders (StageExecutor::Start with
\* HybridModelPipelineExecutor::Execute).
THEOREM OutputInvariant == Spec => []OutputInv
  <1>1. OutputInv /\ UNCHANGED pvars => OutputInv'
    BY SMTT(60), OutputFrame DEF pvars, OutputInv, OrderInv, Parts
  <1> QED BY <1>1, OutputInit, OutputNext, PTL DEF Spec

\* The executors wait for each other forever, or one meets a task that is not
\* of this call, only after a failure or when a task has come round to
\* executor 0 before Execute had put all the first tasks on its queue.
THEOREM OrderlyPipeline == Spec => []OrderlyUnlessLapped
  <1>1. OutputInv => OrderlyUnlessLapped
    BY Zenon, OrderImplies DEF OutputInv
  <1> QED BY <1>1, OutputInvariant, PTL

\* A stage works in the context that the first stage of its iteration has
\* reset, with a live callback thread, and alone on its iteration
\* (StageExecutor::Start, ResetExecutionContext), whatever the stages,
\* executors, iterations and failures; the one exception is an executor that
\* has lost a callback, and for its context only if a task was overtaken too.
THEOREM ContextsAreOwn == Spec => []ContextOwn
  <1>1. OutputInv => ContextOwn
    BY Zenon, OutputImplies
  <1> QED BY <1>1, OutputInvariant, PTL

\* With two executors, as in the code (kNumExecutors), a successful Execute
\* has run each of its iterations but the odd one through every stage, and
\* returns the outputs of iteration_end - NumExecutors; it is not shown here
\* for the calls after a lost callback and an overtaken task together.
THEOREM OutputsAreComplete ==
  ASSUME NumExecutors = 2
  PROVE  Spec => [](OutputsComplete \/ Astray)
  <1>1. OutputInv => OutputsComplete \/ Astray
    BY Zenon, TwoExecutors
  <1> QED BY <1>1, OutputInvariant, PTL

=============================================================================
