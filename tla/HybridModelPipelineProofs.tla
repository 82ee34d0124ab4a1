---------------------- MODULE HybridModelPipelineProofs ----------------------
(***************************************************************************)
(* HybridModelPipelineExecutor implements StagePipeline, for any numbers   *)
(* of stages, executors and iterations, and whatever fails.                *)
(*                                                                         *)
(* At any time there is one task per stage that Execute has put on a       *)
(* queue; it stands for the iteration the stage takes next and is with the *)
(* executor of that iteration, in its hands or in its queue.  Two          *)
(* neighbouring stages meet only when they are due for the same iteration, *)
(* and then the earlier one is ahead: that is what Ring says, and why a    *)
(* stage never takes an iteration before the stage before it.              *)
(***************************************************************************)
EXTENDS HybridModelPipelineExecutor, TLAPS

Finished == {"idle", "done", "failed", "unexpected"}

Working == {"reset", "stuck", "open", "run", "sync"}

\* The ranges of the variables the refinement depends on.
Types ==
  /\ main \in {"idle", "start", "push", "wait", "return"}
  /\ index \in Nat
  /\ main \in {"start", "wait"} => index \in Executors
  /\ main = "push" => index \in Stages
  /\ loop_count \in Nat /\ iteration_ \in Nat /\ iteration_end \in Nat
  /\ pc \in [Executors -> Finished \cup Working \cup {"pop"}]
  /\ task \in [Executors -> StageTask \cup {NoTask}]
  /\ task_queue_ \in [Executors -> Seq(StageTask)]
  /\ done \in [Stages -> Nat]
  /\ ctx \in [Executors -> Nat]
  /\ cb \in [Executors -> {"none", "run", "ended", "old"}]
  /\ eofs \in [Executors -> Nat]
  /\ lost \in [Executors -> BOOLEAN]

\* What an executor holds at a program location, and that the executors rest
\* while Execute is not between StartExecutor and the end of its wait.
Control ==
  /\ \A e \in Executors :
       /\ pc[e] = "pop" => task[e] = NoTask
       /\ pc[e] \in Working => task[e] \in StageTask /\ task[e].iteration < iteration_end
       /\ pc[e] \in {"reset", "stuck", "open"} => task[e].stage = 0
       /\ main \in {"idle", "return"} => pc[e] \in Finished
       /\ main = "start" /\ index <= e => pc[e] \in Finished
       /\ main = "start" /\ e < index =>
            task[e] = NoTask /\ task_queue_[e] = <<>> /\ pc[e] \notin Working
       /\ main = "wait" /\ e < index => pc[e] \in Finished

\* How far the stages are, compared with the iterations of the call.
Progress ==
  /\ main = "start" => loop_count >= 2
  /\ \A s \in Stages :
       /\ main = "start" => done[s] = iteration_
       /\ main = "idle" => done[s] <= iteration_
       /\ main \in {"push", "wait", "return"} =>
            iteration_ <= done[s] /\ done[s] <= iteration_end

\* The executor that takes iteration i.
Owner(i) == (i - iteration_) % NumExecutors

\* The task of stage s has been put on the queue of executor 0.
Pushed(s) == main = "wait" \/ s < index

Queued(e, s) == \E q \in DOMAIN task_queue_[e] : task_queue_[e][q].stage = s

Holds(e, s) == task[e].stage = s \/ Queued(e, s)

\* A task stands for the iteration its stage takes next, and is with the
\* executor of that iteration.
Located ==
  \A e \in Executors :
    /\ task[e] # NoTask =>
         task[e].iteration = done[task[e].stage] /\ e = Owner(task[e].iteration)
    /\ \A q \in DOMAIN task_queue_[e] :
         LET t == task_queue_[e][q] IN t.iteration = done[t.stage] /\ e = Owner(t.iteration)

\* There is one task per stage.
Unique ==
  \A e \in Executors : \A q \in DOMAIN task_queue_[e] :
    /\ task_queue_[e][q].stage # task[e].stage
    /\ \A r \in DOMAIN task_queue_[e] :
         task_queue_[e][q].stage = task_queue_[e][r].stage => q = r

Present ==
  \A s \in Stages :
    /\ Pushed(s) => Holds(Owner(done[s]), s)
    /\ ~Pushed(s) => done[s] = iteration_ /\ \A e \in Executors : ~Holds(e, s)

\* A stage is behind the stage before it: it is due for an earlier iteration,
\* or for the same one and after it in the same queue.
Behind ==
  /\ \A s, u \in Stages : u < s => done[s] <= done[u]
  /\ \A e \in Executors :
       /\ task[e] # NoTask /\ task[e].stage > 0 =>
            done[task[e].stage] < done[task[e].stage - 1]
       /\ \A q \in DOMAIN task_queue_[e] :
            LET s == task_queue_[e][q].stage IN
            s > 0 => \/ done[s] < done[s - 1]
                     \/ task[e].stage = s - 1
                     \/ \E p \in 1 .. q - 1 : task_queue_[e][p].stage = s - 1

Ring == main \in {"push", "wait"} => Located /\ Unique /\ Present /\ Behind

\* An executor that has lost no callback has no callback thread that has
\* returned by itself, and no end mark for one to take.
Callbacks ==
  \A e \in Executors :
    \/ lost[e]
    \/ /\ cb[e] \in {"none", "run"} /\ eofs[e] = 0
       /\ pc[e] \in {"stuck", "open"} => cb[e] = "run"

\* The context of executor e is that of iteration i and is not about to be
\* reset, or the executor has lost a callback.
Owns(e, i) == lost[e] \/ (cb[e] = "run" /\ ctx[e] = i /\ pc[e] # "open")

\* Between the first stage and the last, an iteration has the context of its
\* executor for itself, as long as that executor has not failed.
Contexts ==
  main \in {"push", "wait"} =>
    /\ \A i \in done[NumStages - 1] .. done[0] - 1 :
         pc[Owner(i)] \notin {"failed", "unexpected"} => Owns(Owner(i), i)
    /\ \A e \in Executors :
         pc[e] \in {"run", "sync"} /\ task[e].stage = 0 => Owns(e, task[e].iteration)

PipelineInv == Types /\ Control /\ Progress /\ Ring /\ Callbacks /\ Contexts

-----------------------------------------------------------------------------
(* Arithmetic of the ring, and sequences.                                  *)

LEMMA Division ==
  ASSUME NEW n \in Nat, NEW N \in Nat \ {0}
  PROVE  n \div N \in Int /\ n % N \in 0 .. N - 1 /\ n = N * (n \div N) + (n % N)
  BY SMTT(60)
LEMMA RemainderUnique ==
  ASSUME NEW q \in Int, NEW p \in Int, NEW N \in Nat \ {0},
         NEW r \in 0 .. N - 1, NEW u \in 0 .. N - 1, N * q + r = N * p + u
  PROVE  r = u
  <1>1. N * (q - p) = u - r
    BY SMTT(60)
  <1>2. CASE q - p >= 1
    <2>1. N * (q - p) >= N
      BY SMTT(60), <1>2
    <2> QED BY SMTT(60), <2>1, <1>1
  <1>3. CASE q - p <= -1
    <2>1. N * (q - p) <= -N
      BY SMTT(60), <1>3
    <2> QED BY SMTT(60), <2>1, <1>1
  <1>4. CASE q = p
    <2>1. N * (q - p) = 0
      BY SMTT(60), <1>4
    <2> QED BY SMTT(60), <2>1, <1>1
  <1> QED BY SMTT(60), <1>2, <1>3, <1>4

LEMMA Remainder ==
  ASSUME NEW N \in Nat \ {0}, NEW q \in Int, NEW r \in 0 .. N - 1,
         NEW m \in Nat, m = N * q + r
  PROVE  m % N = r
  <1> DEFINE p == m \div N
             u == m % N
  <1>1. p \in Int /\ u \in 0 .. N - 1 /\ m = N * p + u
    BY Zenon, Division
  <1> HIDE DEF p, u
  <1>2. r = u
    BY Zenon, <1>1, RemainderUnique
  <1> QED BY Zenon, <1>2 DEF u

LEMMA RemainderNext ==
  ASSUME NEW n \in Nat, NEW N \in Nat \ {0}
  PROVE  (n + 1) % N = ((n % N) + 1) % N
  <1> DEFINE q == n \div N
             r == n % N
  <1>1. q \in Int /\ r \in 0 .. N - 1 /\ n = N * q + r
    BY Zenon, Division
  <1> HIDE DEF q, r
  <1>2. CASE r + 1 < N
    <2>1. n + 1 = N * q + (r + 1) /\ r + 1 \in 0 .. N - 1
      BY SMTT(60), <1>1, <1>2
    <2>2. (n + 1) % N = r + 1
      BY SMTT(60), <2>1, <1>1, Remainder
    <2>3. r + 1 = N * 0 + (r + 1)
      BY SMTT(60), <1>1
    <2>4. (r + 1) % N = r + 1
      BY SMTT(60), <2>1, <2>3, Remainder
    <2> QED BY Zenon, <2>2, <2>4 DEF r
  <1>3. CASE r + 1 = N
    <2>1. n + 1 = N * (q + 1) + 0 /\ 0 \in 0 .. N - 1
      BY SMTT(60), <1>1, <1>3
    <2>2. (n + 1) % N = 0
      BY SMTT(60), <2>1, <1>1, Remainder
    <2>3. r + 1 = N * 1 + 0
      BY SMTT(60), <1>1, <1>3
    <2>4. (r + 1) % N = 0
      BY SMTT(60), <2>1, <2>3, <1>1, Remainder
    <2> QED BY Zenon, <2>2, <2>4 DEF r
  <1> QED BY SMTT(60), <1>1, <1>2, <1>3

\* The task of an iteration is handed to the executor of the next.
LEMMA OwnerFacts ==
  ASSUME iteration_ \in Nat, NEW i \in Nat, iteration_ <= i
  PROVE  /\ Owner(i) \in Executors
         /\ Owner(i + 1) = NextExecutor(Owner(i))
         /\ Owner(iteration_) = 0
  <1> DEFINE n == i - iteration_
  <1>1. n \in Nat /\ i + 1 - iteration_ = n + 1 /\ iteration_ - iteration_ = 0
    BY SMTT(60)
  <1>2. NumExecutors \in Nat \ {0}
    BY Zenon, PipelineAssumption
  <1>3. n % NumExecutors \in Executors
    BY Zenon, <1>1, <1>2, Division DEF Executors
  <1>4. (n + 1) % NumExecutors = ((n % NumExecutors) + 1) % NumExecutors
    BY Zenon, <1>1, <1>2, RemainderNext
  <1>5. 0 % NumExecutors = 0
    <2>1. 0 = NumExecutors * 0 + 0 /\ 0 \in 0 .. NumExecutors - 1
      BY SMTT(60), <1>2
    <2> QED BY SMTT(60), <2>1, <1>2, Remainder
  <1> QED BY SMTT(60), <1>1, <1>3, <1>4, <1>5 DEF Owner, NextExecutor

LEMMA AppendFacts ==
  ASSUME NEW S, NEW q \in Seq(S), NEW x \in S
  PROVE  /\ Append(q, x) \in Seq(S)
         /\ Len(q) \in Nat /\ DOMAIN q = 1 .. Len(q)
         /\ DOMAIN Append(q, x) = 1 .. Len(q) + 1
         /\ Append(q, x)[Len(q) + 1] = x
         /\ \A i \in 1 .. Len(q) : Append(q, x)[i] = q[i] /\ q[i] \in S
  BY SMTT(60)
LEMMA TailFacts ==
  ASSUME NEW S, NEW q \in Seq(S), q # <<>>
  PROVE  /\ Tail(q) \in Seq(S)
         /\ Head(q) = q[1] /\ q[1] \in S
         /\ Len(q) \in Nat \ {0} /\ DOMAIN q = 1 .. Len(q)
         /\ DOMAIN Tail(q) = 1 .. Len(q) - 1
         /\ \A i \in 1 .. Len(q) - 1 : Tail(q)[i] = q[i + 1]
  BY SMTT(60)
LEMMA AtLoopFacts == \A e, i : AtLoop(e, i) \in {"pop", "done"}
  BY Zenon DEF AtLoop

-----------------------------------------------------------------------------
(* Init, and what every step keeps but for the tasks on their way.         *)

LEMMA Sizes ==
  /\ NumStages \in Nat \ {0} /\ NumExecutors \in Nat \ {0, 1}
  /\ 0 \in Stages /\ NumStages - 1 \in Stages /\ 0 \in Executors
  /\ \A s \in Stages : s \in Nat /\ s <= NumStages - 1
  /\ \A e \in Executors : e \in Nat /\ e <= NumExecutors - 1
  BY SMTT(60), PipelineAssumption DEF Stages, Executors

LEMMA Neighbours ==
  /\ \A s \in Stages : s > 0 => s - 1 \in Stages
  /\ \A s \in Stages : s < NumStages - 1 => s + 1 \in Stages
  /\ \A e \in Executors : e < NumExecutors - 1 => e + 1 \in Executors
  BY SMTT(60), PipelineAssumption DEF Stages, Executors

LEMMA NextExecutorType == \A e \in Executors : NextExecutor(e) \in Executors
  <1> SUFFICES ASSUME NEW e \in Executors PROVE NextExecutor(e) \in Executors
    BY Zenon
  <1>1. e + 1 \in Nat /\ NumExecutors \in Nat \ {0}
    BY SMTT(60), Sizes
  <1> QED BY Zenon, <1>1, Division DEF NextExecutor, Executors

LEMMA Increment ==
  ASSUME NEW S, NEW f \in [S -> Nat], NEW x \in S
  PROVE  /\ [f EXCEPT ![x] = @ + 1] \in [S -> Nat]
         /\ [f EXCEPT ![x] = @ + 1][x] = f[x] + 1
         /\ \A y \in S : y # x => [f EXCEPT ![x] = @ + 1][y] = f[y]
  BY SMTT(60)

LEMMA NoTaskFacts ==
  /\ NoTask.stage = NumStages /\ NoTask \notin StageTask
  /\ NumStages \notin Stages
  /\ \A t \in StageTask : t.stage \in Stages /\ t.iteration \in Nat
  BY SMTT(60), Sizes DEF NoTask, StageTask, Stages

LEMMA InitInv == Init => PipelineInv
  <1> SUFFICES ASSUME Init PROVE PipelineInv
    BY Zenon
  <1> USE DEF Init
  <1>1. Types
    BY SMTT(60), Sizes, NoTaskFacts DEF Types, Finished, Working
  <1>2. Control
    BY Zenon DEF Control, Finished, Working
  <1>3. Progress
    BY SMTT(60), Sizes DEF Progress
  <1>4. Ring /\ Callbacks /\ Contexts
    BY Zenon DEF Ring, Callbacks, Contexts
  <1> QED BY Zenon, <1>1, <1>2, <1>3, <1>4 DEF PipelineInv

LEMMA DestroyTypes ==
  ASSUME Types, NEW e \in Executors, Destroy(e)
  PROVE  /\ cb' \in [Executors -> {"none", "run", "ended", "old"}]
         /\ eofs' \in [Executors -> Nat]
  BY SMTT(60) DEF Destroy, Types

LEMMA TypesStep ==
  ASSUME Types, Control, Next
  PROVE  Types'
  <1> USE Sizes
  <1>1. ASSUME NEW k \in LoopCounts, Execute(k)
        PROVE  Types'
    BY Zenon, <1>1, PipelineAssumption DEF Types, Execute, contexts
  <1>2. CASE StartExecutor
    <2>1. index \in Executors
      BY Zenon, <1>2 DEF StartExecutor, Types
    <2>2. pc' \in [Executors -> Finished \cup Working \cup {"pop"}]
      <3>1. \E v \in {"pop", "done", "failed"} : pc' = [pc EXCEPT ![index] = v]
        BY Zenon, <1>2, AtLoopFacts DEF StartExecutor
      <3> QED BY Zenon, <2>1, <3>1 DEF Types, Finished
    <2>3. task_queue_' \in [Executors -> Seq(StageTask)]
      BY SMTT(60), <1>2, <2>1 DEF StartExecutor, Types
    <2>4. /\ index' \in Nat /\ iteration_end' \in Nat
          /\ main' \in {"start", "push"}
          /\ main' = "start" => index' \in Executors
          /\ main' = "push" => index' = 0
      BY SMTT(60), <1>2, <2>1, Neighbours DEF StartExecutor, Types
    <2>5. task' \in [Executors -> StageTask \cup {NoTask}]
      BY Zenon, <1>2, <2>1 DEF StartExecutor, Types
    <2> QED BY Zenon, <1>2, <2>2, <2>3, <2>4, <2>5 DEF StartExecutor, Types, contexts, history
  <1>3. CASE PushTask
    <2>1. [stage |-> index, iteration |-> iteration_] \in StageTask
      BY Zenon, <1>3 DEF PushTask, Types, StageTask
    <2>2. task_queue_' \in [Executors -> Seq(StageTask)]
      BY ZenonT(60), <1>3, <2>1, AppendFacts DEF PushTask, Types, ExecuteAsync
    <2> QED BY Zenon, <1>3, <2>2, Neighbours DEF PushTask, Types, contexts, history
  <1>4. CASE Wait
    BY Zenon, <1>4, Neighbours DEF Wait, Types, contexts, history
  <1>5. CASE Return
    BY Zenon, <1>5 DEF Return, Types, contexts, history
  <1>6. ASSUME NEW e \in Executors, Pop(e)
        PROVE  Types'
    <2>1. /\ task_queue_[e] \in Seq(StageTask)
          /\ task_queue_[e] # <<>>
      BY Zenon, <1>6 DEF Pop, Types
    <2>2. Head(task_queue_[e]) \in StageTask /\ Tail(task_queue_[e]) \in Seq(StageTask)
      BY ZenonT(60), <2>1, TailFacts
    <2> QED BY Zenon, <1>6, <2>2 DEF Pop, Types, contexts, history, caller, Finished, Working
  <1>7. ASSUME NEW e \in Executors, Reset(e) \/ Open(e)
        PROVE  Types'
    <2>1. task[e].iteration \in Nat
      BY Zenon, <1>7, NoTaskFacts DEF Reset, Open, Control, Working
    <2>2. CASE Reset(e)
      BY ZenonT(60), <2>2 DEF Reset, Types, history, caller, Finished, Working
    <2>3. CASE Open(e)
      BY ZenonT(60), <2>1, <2>3 DEF Open, Types, history, caller, Finished, Working
    <2> QED BY Zenon, <1>7, <2>2, <2>3
  <1>8. ASSUME NEW e \in Executors, PartialExecuteAsync(e) \/ FailSync(e)
        PROVE  Types'
    <2>1. /\ pc' \in [Executors -> Finished \cup Working \cup {"pop"}]
          /\ lost' \in [Executors -> BOOLEAN]
      BY Zenon, <1>8
         DEF PartialExecuteAsync, RegisterFails, ScheduleFails, FailSync, Types, Finished, Working
    <2>2. UNCHANGED <<cb, eofs>> \/ Destroy(e)
      BY Zenon, <1>8 DEF PartialExecuteAsync, RegisterFails, ScheduleFails, FailSync
    <2>3. UNCHANGED <<caller, loop_idx, task, task_queue_, ctx, history>>
      BY Zenon, <1>8 DEF PartialExecuteAsync, FailSync
    <2> QED BY Zenon, <2>1, <2>2, <2>3, DestroyTypes DEF Types, caller, history
  <1>9. ASSUME NEW e \in Executors, Finish(e)
        PROVE  Types'
    <2>1. task[e] \in StageTask
      BY Zenon, <1>9 DEF Finish, Control, Working
    <2>2. [task[e] EXCEPT !.iteration = @ + 1] \in StageTask
      BY SMTT(60), <2>1 DEF StageTask
    <2>3. task_queue_' \in [Executors -> Seq(StageTask)]
      BY ZenonT(60), <1>9, <2>2, AppendFacts DEF Finish, Types, ExecuteAsync
    <2>4. pc' \in [Executors -> Finished \cup Working \cup {"pop"}]
      BY Zenon, <1>9, AtLoopFacts DEF Finish, Types, Finished
    <2>5. /\ cb' \in [Executors -> {"none", "run", "ended", "old"}] /\ eofs' \in [Executors -> Nat]
          /\ lost' = lost
      <3>1. UNCHANGED <<cb, eofs>> \/ Destroy(e)
        BY Zenon, <1>9 DEF Finish
      <3> QED BY Zenon, <1>9, <3>1, DestroyTypes DEF Finish, Types
    <2>6. done' \in [Stages -> Nat]
      <3>1. done \in [Stages -> Nat] /\ task[e].stage \in Stages
        BY Zenon, <2>1, NoTaskFacts DEF Types
      <3>2. done' = [done EXCEPT ![task[e].stage] = @ + 1]
        BY Zenon, <1>9 DEF Finish
      <3> QED BY SMTT(60), <3>1, <3>2, Increment
    <2>7. task' \in [Executors -> StageTask \cup {NoTask}]
      BY Zenon, <1>9 DEF Finish, Types
    <2> QED BY Zenon, <1>9, <2>3, <2>4, <2>5, <2>6, <2>7 DEF Finish, Types, caller
  <1>10. ASSUME NEW e \in Executors, CallbackStep(e)
         PROVE  Types'
    <2>1. pc' \in [Executors -> Finished \cup Working \cup {"pop"}]
      BY ZenonT(60), <1>10
         DEF CallbackStep, CallbackEof, CallbackFails, ThreadEnds, Types, Finished, Working
    <2>2. cb' \in [Executors -> {"none", "run", "ended", "old"}]
      BY ZenonT(60), <1>10 DEF CallbackStep, CallbackEof, CallbackFails, ThreadEnds, Types
    <2>3. eofs' \in [Executors -> Nat]
      <3>1. eofs' = eofs \/ (eofs[e] > 0 /\ eofs' = [eofs EXCEPT ![e] = @ - 1])
        BY Zenon, <1>10 DEF CallbackStep, CallbackEof, CallbackFails
      <3>2. eofs[e] > 0 => eofs[e] - 1 \in Nat
        BY SMTT(60) DEF Types
      <3> QED BY Zenon, <3>1, <3>2 DEF Types
    <2>4. lost' \in [Executors -> BOOLEAN]
      BY Zenon, <1>10 DEF CallbackStep, CallbackEof, CallbackFails, Types
    <2>5. UNCHANGED <<caller, loop_idx, task, task_queue_, ctx, history>>
      BY Zenon, <1>10 DEF CallbackStep, CallbackEof, CallbackFails
    <2> QED BY Zenon, <2>1, <2>2, <2>3, <2>4, <2>5 DEF Types, caller, history
  <1> QED BY Zenon, <1>1, <1>2, <1>3, <1>4, <1>5, <1>6, <1>7, <1>8, <1>9, <1>10
          DEF Next, CallerStep, StageStep

\* An executor that has a task in hand works for a call that is under way.
LEMMA WorkingCall ==
  ASSUME Types, Control, NEW e \in Executors,
         pc[e] \in Working \/ (pc[e] = "pop" /\ task_queue_[e] # <<>>)
  PROVE  main \in {"push", "wait"} /\ ~(main = "wait" /\ e < index)
  <1>1. pc[e] \notin Finished
    BY Zenon DEF Working, Finished
  <1>2. main \notin {"idle", "return"} /\ ~(main = "wait" /\ e < index)
    BY Zenon, <1>1 DEF Control
  <1>3. ~(main = "start" /\ index <= e) /\ ~(main = "start" /\ e < index)
    BY Zenon, <1>1 DEF Control
  <1>4. index <= e \/ e < index
    BY SMTT(60), Sizes DEF Types
  <1> QED BY Zenon, <1>2, <1>3, <1>4 DEF Types

\* A callback thread that ends lets Init go on.
LEMMA CallbackControl ==
  ASSUME Types, NEW e \in Executors, CallbackStep(e), pc' # pc
  PROVE  /\ pc[e] = "stuck" /\ pc'[e] = "open"
         /\ \A f \in Executors : f # e => pc'[f] = pc[f]
  <1>1. pc[e] = "stuck" /\ pc' = [pc EXCEPT ![e] = "open"]
    BY Zenon DEF CallbackStep, CallbackEof, CallbackFails, ThreadEnds
  <1> QED BY Zenon, <1>1 DEF Types

LEMMA ControlStep ==
  ASSUME Types, Control, Next
  PROVE  Control'
  <1> USE Sizes DEF Finished, Working
  <1>1. ASSUME NEW k \in LoopCounts, Execute(k)
        PROVE  Control'
    BY SMTT(60), <1>1 DEF Control, Execute, Types
  <1>2. CASE StartExecutor
    <2>1. index \in Executors /\ main = "start"
      BY Zenon, <1>2 DEF StartExecutor, Types
    <2> SUFFICES ASSUME NEW e \in Executors
                 PROVE  /\ pc'[e] = "pop" => task'[e] = NoTask
                        /\ pc'[e] \notin Working
                        /\ main' = "start" /\ index' <= e => pc'[e] \in Finished
                        /\ main' = "start" /\ e < index' => task'[e] = NoTask /\ task_queue_'[e] = <<>>
      BY Zenon, <1>2 DEF Control, StartExecutor
    <2>2. CASE e = index
      <3>1. /\ task'[e] = NoTask /\ task_queue_'[e] = <<>>
            /\ pc'[e] \in {"pop", "done", "failed"}
        BY SMTT(60), <1>2, <2>1, <2>2, AtLoopFacts DEF StartExecutor, Types
      <3>2. main' = "start" => index' = e + 1
        BY Zenon, <1>2, <2>2 DEF StartExecutor
      <3> QED BY SMTT(60), <3>1, <3>2
    <2>3. CASE e # index
      <3>1. task'[e] = task[e] /\ task_queue_'[e] = task_queue_[e] /\ pc'[e] = pc[e]
        BY Zenon, <1>2, <2>3 DEF StartExecutor, Types
      <3>2. main' = "start" => index' = index + 1
        BY Zenon, <1>2 DEF StartExecutor
      <3>3. main' = "start" /\ index' <= e => index <= e
        BY SMTT(60), <2>1, <3>2
      <3>4. main' = "start" /\ e < index' => e < index
        BY SMTT(60), <2>1, <2>3, <3>2
      <3>5. e < index \/ index <= e
        BY SMTT(60), <2>1
      <3> QED BY Zenon, <2>1, <3>1, <3>3, <3>4, <3>5 DEF Control
    <2> QED BY Zenon, <2>2, <2>3
  <1>3. CASE PushTask
    <2>1. /\ main = "push" /\ main' \in {"push", "wait"} /\ (main' = "wait" => index' = 0)
          /\ UNCHANGED <<pc, task, iteration_end>>
      BY Zenon, <1>3 DEF PushTask
    <2> QED BY SMTT(60), <2>1 DEF Control
  <1>4. CASE Wait
    <2>1. /\ main = "wait" /\ main' \in {"wait", "return"} /\ UNCHANGED <<pc, task, iteration_end>>
          /\ index \in Executors /\ pc[index] \in Finished
          /\ main' = "wait" => index' = index + 1
          /\ main' = "return" => index = NumExecutors - 1
      BY SMTT(60), <1>4 DEF Wait, Types
    <2>2. ASSUME NEW e \in Executors, e <= index
          PROVE  pc[e] \in Finished
      BY SMTT(60), <2>1, <2>2 DEF Control
    <2>3. ASSUME NEW e \in Executors
          PROVE  main' = "return" \/ e < index' => pc[e] \in Finished
      BY SMTT(60), <2>1, <2>2
    <2> QED BY Zenon, <2>1, <2>3 DEF Control
  <1>5. CASE Return
    BY Zenon, <1>5 DEF Return, Control
  <1>6. ASSUME NEW e \in Executors, Pop(e)
        PROVE  Control'
    <2>1. /\ task_queue_[e] \in Seq(StageTask) /\ task_queue_[e] # <<>>
          /\ pc[e] = "pop" /\ main \notin {"idle", "return"}
      BY Zenon, <1>6 DEF Pop, Types, Control
    <2>2. Head(task_queue_[e]) \in StageTask
      BY SMTT(60), <2>1, TailFacts
    <2>3. /\ task'[e] = Head(task_queue_[e]) /\ task'[e].iteration \in Nat
          /\ pc'[e] \in {"unexpected", "reset", "run"}
          /\ pc'[e] # "unexpected" => task'[e].iteration < iteration_end
          /\ pc'[e] = "reset" => task'[e].stage = 0
      BY SMTT(60), <1>6, <2>2, NoTaskFacts DEF Pop, Types
    <2>4. \A f \in Executors : f # e =>
            task'[f] = task[f] /\ pc'[f] = pc[f] /\ task_queue_'[f] = task_queue_[f]
      BY Zenon, <1>6 DEF Pop, Types
    <2>5. UNCHANGED <<main, index, iteration_end>>
      BY Zenon, <1>6 DEF Pop, caller
    <2>6. ~(main = "start" /\ e < index) /\ ~(main = "start" /\ index <= e) /\ ~(main = "wait" /\ e < index)
      BY Zenon, <2>1 DEF Control
    <2> QED BY SMTT(60), <2>1, <2>2, <2>3, <2>4, <2>5, <2>6 DEF Control
  <1>7. ASSUME NEW e \in Executors, pc[e] \in Working,
               UNCHANGED <<main, index, iteration_end, task, task_queue_>>,
               \A f \in Executors : f # e => pc'[f] = pc[f],
               \/ pc[e] \in {"reset", "stuck"} /\ pc'[e] \in {"stuck", "open"}
               \/ pc'[e] \in {"run", "sync", "failed"}
        PROVE  Control'
    BY SMTT(60), <1>7 DEF Control
  <1>8. ASSUME NEW e \in Executors,
               Reset(e) \/ Open(e) \/ PartialExecuteAsync(e) \/ FailSync(e)
        PROVE  Control'
    <2>1. /\ UNCHANGED <<main, index, iteration_end, task, task_queue_>>
          /\ pc[e] \in Working
      BY Zenon, <1>8 DEF Reset, Open, PartialExecuteAsync, FailSync, caller
    <2>2. \/ pc[e] = "reset" /\ \E v \in {"stuck", "open"} : pc' = [pc EXCEPT ![e] = v]
          \/ \E v \in {"run", "sync", "failed"} : pc' = [pc EXCEPT ![e] = v]
      BY Zenon, <1>8
         DEF Reset, Open, PartialExecuteAsync, RegisterFails, ScheduleFails, FailSync
    <2>3. /\ \/ pc[e] \in {"reset", "stuck"} /\ pc'[e] \in {"stuck", "open"}
             \/ pc'[e] \in {"run", "sync", "failed"}
          /\ \A f \in Executors : f # e => pc'[f] = pc[f]
      BY ZenonT(60), <2>2 DEF Types
    <2> QED BY Zenon, <1>7, <2>1, <2>3
  <1>10. ASSUME NEW e \in Executors, CallbackStep(e)
         PROVE  Control'
    <2>1. UNCHANGED <<main, index, iteration_end, task, task_queue_>>
      BY Zenon, <1>10 DEF CallbackStep, CallbackEof, CallbackFails, caller
    <2>2. CASE pc' = pc
      BY Zenon, <2>1, <2>2 DEF Control
    <2>3. CASE pc' # pc
      <3>1. /\ pc[e] = "stuck" /\ pc'[e] = "open"
            /\ \A f \in Executors : f # e => pc'[f] = pc[f]
        BY Zenon, <1>10, <2>3, CallbackControl
      <3> QED BY Zenon, <1>7, <2>1, <3>1
    <2> QED BY Zenon, <2>2, <2>3
  <1>9. ASSUME NEW e \in Executors, Finish(e)
        PROVE  Control'
    <2>1. /\ pc[e] = "sync" /\ task'[e] = NoTask /\ pc'[e] \in {"pop", "done"}
          /\ UNCHANGED <<main, index, iteration_end>>
          /\ \A f \in Executors : f # e => task'[f] = task[f] /\ pc'[f] = pc[f]
      BY ZenonT(60), <1>9, AtLoopFacts DEF Finish, Types, caller
    <2>2. main \in {"push", "wait"} /\ ~(main = "wait" /\ e < index)
      BY Zenon, <2>1, WorkingCall
    <2> QED BY ZenonT(60), <2>1, <2>2 DEF Control
  <1> QED BY Zenon, <1>1, <1>2, <1>3, <1>4, <1>5, <1>6, <1>8, <1>9, <1>10
          DEF Next, CallerStep, StageStep

LEMMA ProgressStep ==
  ASSUME Types, Control, Progress, Ring, Next
  PROVE  Progress'
  <1> USE Sizes
  <1>1. ASSUME NEW k \in LoopCounts, Execute(k)
        PROVE  Progress'
    <2>1. k \in Nat
      BY Zenon, PipelineAssumption
    <2> QED BY SMTT(60), <1>1, <2>1 DEF Progress, Execute, Types
  <1>2. CASE StartExecutor
    BY SMTT(60), <1>2 DEF StartExecutor, Progress, Types, history
  <1>3. CASE PushTask \/ Wait \/ Return
    BY Zenon, <1>3 DEF PushTask, Wait, Return, Progress, Types, history
  <1>4. ASSUME NEW e \in Executors,
               \/ Pop(e) \/ Reset(e) \/ Open(e) \/ PartialExecuteAsync(e) \/ FailSync(e)
               \/ CallbackStep(e)
        PROVE  Progress'
    <2>1. UNCHANGED <<caller, history>>
      BY Zenon, <1>4 DEF Pop, Reset, Open, PartialExecuteAsync, FailSync,
                         CallbackStep, CallbackEof, CallbackFails
    <2>2. UNCHANGED <<main, loop_count, iteration_, iteration_end, done>>
      BY Zenon, <2>1 DEF caller, history
    <2> QED BY Zenon, <2>2 DEF Progress
  <1>5. ASSUME NEW e \in Executors, Finish(e)
        PROVE  Progress'
    <2>1. /\ task[e] \in StageTask /\ task[e].iteration < iteration_end
          /\ main \in {"push", "wait"}
      <3>1. pc[e] = "sync" /\ pc[e] \in Working
        BY Zenon, <1>5 DEF Finish, Working
      <3> QED BY Zenon, <3>1, WorkingCall DEF Control
    <2>2. task[e].stage \in Stages /\ task[e].iteration = done[task[e].stage]
      BY Zenon, <2>1, NoTaskFacts DEF Ring, Located
    <2>3. /\ UNCHANGED <<main, loop_count, iteration_, iteration_end>>
          /\ done' = [done EXCEPT ![task[e].stage] = @ + 1]
      BY Zenon, <1>5 DEF Finish, caller
    <2>4. /\ done'[task[e].stage] = done[task[e].stage] + 1
          /\ \A s \in Stages : done[s] \in Nat /\ (s # task[e].stage => done'[s] = done[s])
      BY ZenonT(60), <2>2, <2>3, Increment DEF Types
    <2>5. ASSUME NEW s \in Stages
          PROVE  iteration_ <= done'[s] /\ done'[s] <= iteration_end
      <3>1. /\ iteration_ <= done[s] /\ done[s] <= iteration_end /\ done[s] \in Nat
            /\ iteration_ \in Nat /\ iteration_end \in Nat
        BY Zenon, <2>1 DEF Progress, Types
      <3>2. CASE s = task[e].stage
        <4>1. done[s] < iteration_end /\ done'[s] = done[s] + 1
          BY Zenon, <2>1, <2>2, <2>4, <3>2
        <4> QED BY SMTT(60), <3>1, <4>1
      <3>3. CASE s # task[e].stage
        BY Zenon, <2>4, <3>1, <3>3
      <3> QED BY Zenon, <3>2, <3>3
    <2> QED BY Zenon, <2>1, <2>3, <2>5 DEF Progress
  <1> QED BY Zenon, <1>1, <1>2, <1>3, <1>4, <1>5 DEF Next, CallerStep, StageStep

-----------------------------------------------------------------------------
(* The tasks on their way.                                                 *)

\* Ring looks at the tasks, the queues and the stages only.
LEMMA RingFrame ==
  ASSUME Ring, main \in {"push", "wait"}, main' = main,
         main = "push" => index' = index,
         UNCHANGED <<task, task_queue_, done, iteration_>>
  PROVE  Ring'
  BY SMTT(60) DEF Ring, Located, Unique, Present, Behind, Owner, Pushed, Holds, Queued

LEMMA RingStart ==
  ASSUME Types, Control, Progress, StartExecutor, main' = "push"
  PROVE  Ring'
  <1> USE Sizes
  <1>1. /\ main = "start" /\ index \in Executors /\ index = NumExecutors - 1
        /\ index' = 0 /\ UNCHANGED <<done, iteration_>>
    BY SMTT(60) DEF StartExecutor, Types, history
  <1>2. ASSUME NEW e \in Executors
        PROVE  task'[e] = NoTask /\ task_queue_'[e] = <<>>
    <2>1. CASE e = index
      BY Zenon, <1>1, <2>1 DEF StartExecutor, Types
    <2>2. CASE e # index
      <3>1. e < index
        BY SMTT(60), <1>1, <2>2
      <3>2. task'[e] = task[e] /\ task_queue_'[e] = task_queue_[e]
        BY Zenon, <2>2 DEF StartExecutor, Types
      <3> QED BY Zenon, <1>1, <3>1, <3>2 DEF Control
    <2> QED BY Zenon, <2>1, <2>2
  <1>3. \A e \in Executors : DOMAIN task_queue_'[e] = {}
    BY SMTT(60), <1>2
  <1>4. Located' /\ Unique'
    BY Zenon, <1>2, <1>3 DEF Located, Unique
  <1>5. \A s \in Stages : done'[s] = iteration_' /\ ~Pushed(s)'
    BY SMTT(60), <1>1 DEF Progress, Pushed
  <1>6. \A s \in Stages, e \in Executors : ~Holds(e, s)'
    BY Zenon, <1>2, <1>3, NoTaskFacts DEF Holds, Queued
  <1>7. Behind'
    BY SMTT(60), <1>1, <1>2, <1>3, <1>5 DEF Behind, Types
  <1> QED BY Zenon, <1>4, <1>5, <1>6, <1>7 DEF Ring, Present

\* What ExecuteAsync does to the queues.
LEMMA Enqueued ==
  ASSUME Types, NEW g \in Executors, NEW t \in StageTask, ExecuteAsync(g, t)
  PROVE  /\ \A f \in Executors : \A q \in DOMAIN task_queue_[f] :
              /\ q \in Nat \ {0} /\ task_queue_[f][q] \in StageTask
              /\ q \in DOMAIN task_queue_'[f] /\ task_queue_'[f][q] = task_queue_[f][q]
         /\ \A f \in Executors : \A q \in DOMAIN task_queue_'[f] :
              q \in DOMAIN task_queue_[f] \/ (f = g /\ q = Len(task_queue_[g]) + 1)
         /\ Len(task_queue_[g]) \in Nat
         /\ Len(task_queue_[g]) + 1 \in DOMAIN task_queue_'[g]
         /\ task_queue_'[g][Len(task_queue_[g]) + 1] = t
         /\ \A q \in DOMAIN task_queue_[g] : q \in 1 .. Len(task_queue_[g])
         /\ Len(task_queue_[g]) + 1 \notin DOMAIN task_queue_[g]
  <1>1. task_queue_[g] \in Seq(StageTask)
    BY Zenon DEF Types
  <1>2. task_queue_'[g] = Append(task_queue_[g], t)
    BY Zenon DEF Types, ExecuteAsync
  <1>3. \A f \in Executors : f # g => task_queue_'[f] = task_queue_[f]
    BY Zenon DEF Types, ExecuteAsync
  <1>4. ASSUME NEW f \in Executors, NEW q \in DOMAIN task_queue_[f]
        PROVE  q \in Nat \ {0} /\ task_queue_[f][q] \in StageTask
    <2>1. task_queue_[f] \in Seq(StageTask)
      BY Zenon DEF Types
    <2> QED BY SMTT(60), <2>1
  <1>5. /\ Len(task_queue_[g]) \in Nat /\ DOMAIN task_queue_[g] = 1 .. Len(task_queue_[g])
        /\ DOMAIN task_queue_'[g] = 1 .. Len(task_queue_[g]) + 1
        /\ task_queue_'[g][Len(task_queue_[g]) + 1] = t
        /\ \A q \in 1 .. Len(task_queue_[g]) : task_queue_'[g][q] = task_queue_[g][q]
    BY SMTT(60), <1>1, <1>2, AppendFacts
  <1>6. \A f \in Executors : \A q \in DOMAIN task_queue_[f] :
          q \in DOMAIN task_queue_'[f] /\ task_queue_'[f][q] = task_queue_[f][q]
    BY SMTT(60), <1>3, <1>5
  <1>7. \A f \in Executors : \A q \in DOMAIN task_queue_'[f] :
          q \in DOMAIN task_queue_[f] \/ (f = g /\ q = Len(task_queue_[g]) + 1)
    BY SMTT(60), <1>3, <1>5
  <1> QED BY SMTT(60), <1>4, <1>5, <1>6, <1>7

LEMMA RingPush ==
  ASSUME Types, Progress, Ring, PushTask
  PROVE  Ring'
  <1> SUFFICES ASSUME NEW k, k = index
               PROVE  Ring'
    BY Zenon
  <1> DEFINE t == [stage |-> k, iteration |-> iteration_]
             n == Len(task_queue_[0]) + 1
  <1>1. /\ main = "push" /\ k = index /\ k \in Stages /\ iteration_ \in Nat
        /\ ExecuteAsync(0, t) /\ UNCHANGED <<task, done, iteration_>>
    BY Zenon DEF PushTask, Types, history
  <1>2. t \in StageTask /\ t.stage = k /\ t.iteration = iteration_
    BY Zenon, <1>1 DEF StageTask
  <1> HIDE DEF t
  <1>3. /\ \A f \in Executors : \A q \in DOMAIN task_queue_[f] :
             /\ q \in Nat \ {0} /\ task_queue_[f][q] \in StageTask
             /\ q \in DOMAIN task_queue_'[f] /\ task_queue_'[f][q] = task_queue_[f][q]
        /\ \A f \in Executors : \A q \in DOMAIN task_queue_'[f] :
             q \in DOMAIN task_queue_[f] \/ (f = 0 /\ q = n)
        /\ n \in Nat /\ n \in DOMAIN task_queue_'[0] /\ task_queue_'[0][n] = t
        /\ \A q \in DOMAIN task_queue_[0] : q \in 1 .. n - 1
        /\ n \notin DOMAIN task_queue_[0]
    BY SMTT(60), <1>1, <1>2, Sizes, Enqueued
  <1> HIDE DEF n
  <1>4. Located /\ Unique /\ Present /\ Behind
    BY Zenon, <1>1 DEF Ring
  <1>5. done[k] = iteration_ /\ \A f \in Executors : ~Holds(f, k)
    BY SMTT(60), <1>1, <1>4, Sizes DEF Present, Pushed
  <1>6. \A f \in Executors :
          task[f].stage # k /\ \A q \in DOMAIN task_queue_[f] : task_queue_[f][q].stage # k
    BY Zenon, <1>5 DEF Holds, Queued
  <1>7. \A i : Owner(i)' = Owner(i)
    BY Zenon, <1>1 DEF Owner
  <1>8. Owner(iteration_) = 0
    BY SMTT(60), <1>1, OwnerFacts
  <1>9. \A s \in Stages : Pushed(s)' <=> Pushed(s) \/ s = k
    BY SMTT(60), <1>1, Sizes DEF PushTask, Pushed
  <1>10. \A f \in Executors, s \in Stages : s # k => (Holds(f, s)' <=> Holds(f, s))
    BY SMTT(60), <1>1, <1>2, <1>3 DEF Holds, Queued
  <1>11. Holds(0, k)'
    BY Zenon, <1>1, <1>2, <1>3 DEF Holds, Queued
  <1>12. Located'
    BY SMTT(60), <1>1, <1>2, <1>3, <1>4, <1>5, <1>7, <1>8 DEF Located
  <1>13. Unique'
    BY SMTT(60), <1>1, <1>2, <1>3, <1>4, <1>6 DEF Unique
  <1>14. Present'
    <2>1. ASSUME NEW s \in Stages, Pushed(s)'
          PROVE  Holds(Owner(done[s]), s)'
      <3>1. CASE s = k
        BY Zenon, <1>1, <1>5, <1>7, <1>8, <1>11, <3>1 DEF Holds, Queued
      <3>2. CASE s # k
        <4>1. Holds(Owner(done[s]), s)
          BY Zenon, <1>4, <1>9, <2>1, <3>2 DEF Present
        <4>2. done[s] \in Nat /\ iteration_ <= done[s]
          BY Zenon, <1>1 DEF Types, Progress
        <4>3. Owner(done[s]) \in Executors
          BY Zenon, <1>1, <4>2, OwnerFacts
        <4>4. task[Owner(done[s])].stage = s \/ Queued(Owner(done[s]), s)'
          BY ZenonT(60), <1>3, <4>1, <4>3, <1>1, <1>7 DEF Holds, Queued
        <4> QED BY Zenon, <1>1, <1>7, <4>4 DEF Holds, Queued
      <3> QED BY Zenon, <3>1, <3>2
    <2>2. ASSUME NEW s \in Stages, ~Pushed(s)'
          PROVE  done[s] = iteration_ /\ \A f \in Executors : ~Holds(f, s)'
      BY Zenon, <1>4, <1>9, <1>10, <2>2 DEF Present
    <2> QED BY Zenon, <1>1, <1>7, <2>1, <2>2 DEF Present
  <1>15. ASSUME k > 0
         PROVE  \/ done[k] < done[k - 1]
                \/ task[0].stage = k - 1
                \/ \E p \in 1 .. n - 1 : task_queue_'[0][p].stage = k - 1
    <2>1. k - 1 \in Stages /\ Pushed(k - 1)
      BY SMTT(60), <1>1, <1>15, Sizes, Neighbours DEF Pushed
    <2>2. done[k - 1] \in Nat /\ iteration_ <= done[k - 1]
      BY Zenon, <1>1, <2>1 DEF Types, Progress
    <2>3. CASE done[k - 1] = iteration_
      <3>1. Holds(0, k - 1)
        BY Zenon, <1>4, <1>8, <2>1, <2>3 DEF Present
      <3> QED BY SMTT(60), <1>3, <3>1, Sizes DEF Holds, Queued
    <2> QED BY SMTT(60), <1>1, <1>5, <2>2, <2>3
  <1>16. Behind'
    <2>1. ASSUME NEW e \in Executors, NEW q \in DOMAIN task_queue_'[e], task_queue_'[e][q].stage > 0
          PROVE  LET s == task_queue_'[e][q].stage IN
                 \/ done[s] < done[s - 1]
                 \/ task[e].stage = s - 1
                 \/ \E p \in 1 .. q - 1 : task_queue_'[e][p].stage = s - 1
      <3>1. CASE q \in DOMAIN task_queue_[e]
        <4>1. task_queue_'[e][q] = task_queue_[e][q] /\ q \in Nat
          BY Zenon, <1>3, <3>1
        <4>2. \A p \in 1 .. q - 1 : p \in DOMAIN task_queue_[e]
          BY SMTT(60), <3>1 DEF Types
        <4> QED BY SMTT(60), <1>3, <1>4, <2>1, <3>1, <4>1, <4>2 DEF Behind
      <3>2. CASE e = 0 /\ q = n
        BY ZenonT(60), <1>2, <1>3, <1>15, <2>1, <3>2
      <3> QED BY Zenon, <1>3, <3>1, <3>2
    <2> QED BY ZenonT(60), <1>1, <1>4, <2>1 DEF Behind
  <1> QED BY Zenon, <1>12, <1>13, <1>14, <1>16 DEF Ring

LEMMA RingPop ==
  ASSUME Types, Control, Progress, Ring, NEW e \in Executors, Pop(e)
  PROVE  Ring'
  <1> DEFINE t == Head(task_queue_[e])
             n == Len(task_queue_[e])
  <1>1. /\ pc[e] = "pop" /\ task_queue_[e] # <<>> /\ task_queue_[e] \in Seq(StageTask)
        /\ UNCHANGED <<main, index, done, iteration_>>
    BY Zenon DEF Pop, Types, caller, history
  <1>2. main \in {"push", "wait"} /\ task[e] = NoTask
    BY Zenon, <1>1, WorkingCall DEF Control
  <1>3. Located /\ Unique /\ Present /\ Behind
    BY Zenon, <1>2 DEF Ring
  <1>4. /\ t = task_queue_[e][1] /\ t \in StageTask /\ t # NoTask /\ t.stage \in Stages
        /\ n \in Nat \ {0} /\ DOMAIN task_queue_[e] = 1 .. n
    BY ZenonT(60), <1>1, TailFacts, NoTaskFacts
  <1>5. /\ task'[e] = t /\ task_queue_'[e] = Tail(task_queue_[e])
        /\ \A f \in Executors : f # e => task'[f] = task[f] /\ task_queue_'[f] = task_queue_[f]
    BY Zenon DEF Pop, Types
  <1>6. /\ DOMAIN task_queue_'[e] = 1 .. n - 1
        /\ \A q \in 1 .. n - 1 : task_queue_'[e][q] = task_queue_[e][q + 1]
    BY SMTT(60), <1>1, <1>5, TailFacts
  <1> HIDE DEF t, n
  <1>7. \A i : Owner(i)' = Owner(i)
    BY Zenon, <1>1 DEF Owner
  <1>8. \A q \in 1 .. n : task_queue_[e][q] \in StageTask
    BY SMTT(60), <1>1, <1>4
  <1>9. Located'
    <2>1. ASSUME NEW f \in Executors, task'[f] # NoTask
          PROVE  task'[f].iteration = done[task'[f].stage] /\ f = Owner(task'[f].iteration)
      BY SMTT(60), <1>3, <1>4, <1>5, <2>1 DEF Located
    <2>2. ASSUME NEW f \in Executors, NEW q \in DOMAIN task_queue_'[f]
          PROVE  /\ task_queue_'[f][q].iteration = done[task_queue_'[f][q].stage]
                 /\ f = Owner(task_queue_'[f][q].iteration)
      <3>1. CASE f # e
        BY SMTT(60), <1>3, <1>5, <2>2, <3>1 DEF Located
      <3>2. CASE f = e
        <4>1. q + 1 \in DOMAIN task_queue_[e] /\ task_queue_'[e][q] = task_queue_[e][q + 1]
          BY SMTT(60), <1>4, <1>6, <2>2, <3>2
        <4> QED BY SMTT(60), <1>3, <3>2, <4>1 DEF Located
      <3> QED BY Zenon, <3>1, <3>2
    <2> QED BY Zenon, <1>1, <1>7, <2>1, <2>2 DEF Located
  <1>10. Unique'
    <2>1. ASSUME NEW f \in Executors, NEW q \in DOMAIN task_queue_'[f], f # e
          PROVE  /\ task_queue_'[f][q].stage # task'[f].stage
                 /\ \A r \in DOMAIN task_queue_'[f] :
                      task_queue_'[f][q].stage = task_queue_'[f][r].stage => q = r
      BY SMTT(60), <1>3, <1>5, <2>1 DEF Unique
    <2>2. ASSUME NEW q \in 1 .. n - 1
          PROVE  /\ task_queue_'[e][q].stage # task'[e].stage
                 /\ \A r \in 1 .. n - 1 :
                      task_queue_'[e][q].stage = task_queue_'[e][r].stage => q = r
      <3>1. q + 1 \in 1 .. n /\ 1 \in 1 .. n /\ q + 1 # 1
        BY SMTT(60), <1>4
      <3>2. task_queue_[e][q + 1].stage # task_queue_[e][1].stage
        BY Zenon, <1>3, <1>4, <3>1 DEF Unique
      <3>3. ASSUME NEW r \in 1 .. n - 1, task_queue_'[e][q].stage = task_queue_'[e][r].stage
            PROVE  q = r
        <4>1. r + 1 \in 1 .. n /\ task_queue_[e][q + 1].stage = task_queue_[e][r + 1].stage
          BY SMTT(60), <1>4, <1>6, <3>3
        <4>2. q + 1 = r + 1
          BY Zenon, <1>3, <1>4, <3>1, <4>1 DEF Unique
        <4> QED BY SMTT(60), <4>2
      <3> QED BY Zenon, <1>4, <1>5, <1>6, <3>2, <3>3
    <2> QED BY ZenonT(60), <1>6, <2>1, <2>2 DEF Unique
  <1>11. ASSUME NEW f \in Executors, NEW s \in Stages
         PROVE  Holds(f, s)' <=> Holds(f, s)
    <2>1. CASE f # e
      BY ZenonT(60), <1>5, <2>1 DEF Holds, Queued
    <2>2. CASE f = e
      <3>1. Holds(e, s) <=> \E q \in 1 .. n : task_queue_[e][q].stage = s
        BY ZenonT(60), <1>2, <1>4, NoTaskFacts DEF Holds, Queued
      <3>2. Holds(e, s)' <=> t.stage = s \/ \E q \in 1 .. n - 1 : task_queue_[e][q + 1].stage = s
        BY ZenonT(60), <1>5, <1>6 DEF Holds, Queued
      <3>3. ASSUME NEW q \in 1 .. n, task_queue_[e][q].stage = s
            PROVE  t.stage = s \/ \E r \in 1 .. n - 1 : task_queue_[e][r + 1].stage = s
        <4>1. CASE q = 1
          BY Zenon, <1>4, <3>3, <4>1
        <4>2. CASE q # 1
          <5>1. q - 1 \in 1 .. n - 1 /\ (q - 1) + 1 = q
            BY SMTT(60), <1>4, <4>2
          <5> QED BY Zenon, <3>3, <5>1
        <4> QED BY Zenon, <4>1, <4>2
      <3>4. 1 \in 1 .. n /\ \A q \in 1 .. n - 1 : q + 1 \in 1 .. n
        BY SMTT(60), <1>4
      <3> QED BY ZenonT(60), <1>4, <2>2, <3>1, <3>2, <3>3, <3>4
    <2> QED BY Zenon, <2>1, <2>2
  <1>12. Present'
    <2>1. \A s \in Stages : Pushed(s)' <=> Pushed(s)
      BY Zenon, <1>1 DEF Pushed
    <2>2. ASSUME NEW s \in Stages, Pushed(s)
          PROVE  Holds(Owner(done[s]), s)'
      <3>1. Holds(Owner(done[s]), s)
        BY Zenon, <1>3, <2>2 DEF Present
      <3>2. done[s] \in Nat /\ iteration_ \in Nat /\ iteration_ <= done[s]
        BY ZenonT(60), <1>2 DEF Types, Progress
      <3>3. Owner(done[s]) \in Executors
        BY Zenon, <3>2, OwnerFacts
      <3> QED BY ZenonT(60), <1>1, <1>7, <1>11, <3>1, <3>3
    <2> QED BY ZenonT(60), <1>1, <1>3, <1>11, <2>1, <2>2 DEF Present
  <1>13. Behind'
    <2>1. ASSUME NEW f \in Executors, f # e
          PROVE  /\ task'[f] # NoTask /\ task'[f].stage > 0 =>
                      done[task'[f].stage] < done[task'[f].stage - 1]
                 /\ \A q \in DOMAIN task_queue_'[f] :
                      LET s == task_queue_'[f][q].stage IN
                      s > 0 => \/ done[s] < done[s - 1]
                               \/ task'[f].stage = s - 1
                               \/ \E p \in 1 .. q - 1 : task_queue_'[f][p].stage = s - 1
      BY SMTT(60), <1>3, <1>5, <2>1 DEF Behind
    <2>2. \A s \in Stages : task[e].stage # s - 1
      BY SMTT(60), <1>2, NoTaskFacts, Sizes
    <2>3. t.stage > 0 => done[t.stage] < done[t.stage - 1]
      <3>1. 1 \in DOMAIN task_queue_[e] /\ 1 .. 1 - 1 = {}
        BY SMTT(60), <1>4
      <3> QED BY ZenonT(60), <1>3, <1>4, <2>2, <3>1 DEF Behind
    <2>4. ASSUME NEW q \in 1 .. n - 1, task_queue_'[e][q].stage > 0
          PROVE  LET s == task_queue_'[e][q].stage IN
                 \/ done[s] < done[s - 1]
                 \/ t.stage = s - 1
                 \/ \E p \in 1 .. q - 1 : task_queue_'[e][p].stage = s - 1
      <3> DEFINE u == task_queue_[e][q + 1].stage
      <3>1. q + 1 \in 1 .. n /\ u = task_queue_'[e][q].stage /\ (q + 1) - 1 = q
        <4>1. n \in Nat
          BY Zenon, <1>4
        <4>2. q + 1 \in 1 .. n /\ (q + 1) - 1 = q
          BY SMTT(60), <4>1
        <4>3. u = task_queue_'[e][q].stage
          BY Zenon, <1>6
        <4> QED BY Zenon, <4>2, <4>3
      <3>2. u \in Stages /\ u > 0
        BY Zenon, <1>8, <2>4, <3>1, NoTaskFacts
      <3>3. \/ done[u] < done[u - 1]
            \/ task[e].stage = u - 1
            \/ \E p \in 1 .. (q + 1) - 1 : task_queue_[e][p].stage = u - 1
        <4>1. q + 1 \in DOMAIN task_queue_[e]
          BY Zenon, <1>4, <3>1
        <4>2. \A x \in DOMAIN task_queue_[e] : task_queue_[e][x].stage > 0 =>
                \/ done[task_queue_[e][x].stage] < done[task_queue_[e][x].stage - 1]
                \/ task[e].stage = task_queue_[e][x].stage - 1
                \/ \E p \in 1 .. x - 1 : task_queue_[e][p].stage = task_queue_[e][x].stage - 1
          BY ZenonT(60), <1>3 DEF Behind
        <4> QED BY Zenon, <3>2, <4>1, <4>2
      <3> HIDE DEF u
      <3>4. ASSUME NEW p \in 1 .. q, task_queue_[e][p].stage = u - 1
            PROVE  t.stage = u - 1 \/ \E r \in 1 .. q - 1 : task_queue_'[e][r].stage = u - 1
        <4>1. CASE p = 1
          BY Zenon, <1>4, <3>4, <4>1
        <4>2. CASE p # 1
          <5>1. p - 1 \in 1 .. q - 1 /\ p - 1 \in 1 .. n - 1 /\ (p - 1) + 1 = p
            BY SMTT(60), <1>4, <4>2
          <5>2. task_queue_'[e][p - 1].stage = u - 1
            BY ZenonT(60), <1>6, <3>4, <5>1
          <5> QED BY Zenon, <5>1, <5>2
        <4> QED BY Zenon, <4>1, <4>2
      <3> QED BY Zenon, <2>2, <3>1, <3>2, <3>3, <3>4
    <2>5. /\ task'[e] # NoTask /\ task'[e].stage > 0 =>
               done[task'[e].stage] < done[task'[e].stage - 1]
          /\ \A q \in DOMAIN task_queue_'[e] :
               LET s == task_queue_'[e][q].stage IN
               s > 0 => \/ done[s] < done[s - 1]
                        \/ task'[e].stage = s - 1
                        \/ \E p \in 1 .. q - 1 : task_queue_'[e][p].stage = s - 1
      BY Zenon, <1>5, <1>6, <2>3, <2>4
    <2>6. \A s, u \in Stages : u < s => done'[s] <= done'[u]
      BY Zenon, <1>1, <1>3 DEF Behind
    <2> QED BY SMTT(60), <1>1, <2>1, <2>5, <2>6 DEF Behind
  <1> QED BY Zenon, <1>9, <1>10, <1>12, <1>13 DEF Ring

\* What is known of the task an executor is about to hand on, and of the
\* stages after that.
LEMMA Handed ==
  ASSUME Types, Control, Progress, Ring, NEW e \in Executors, Finish(e),
         NEW u, u = task[e].stage
  PROVE  /\ main \in {"push", "wait"} /\ Located /\ Unique /\ Present /\ Behind
         /\ UNCHANGED <<main, index, iteration_, iteration_end, ctx>>
         /\ u \in Stages /\ task[e] \in StageTask /\ task[e] # NoTask
         /\ task[e].iteration = done[u] /\ e = Owner(done[u])
         /\ NextExecutor(e) = Owner(done[u] + 1) /\ NextExecutor(e) \in Executors
         /\ done'[u] = done[u] + 1
         /\ \A s \in Stages : done[s] \in Nat /\ (s # u => done'[s] = done[s])
         /\ task'[e] = NoTask /\ \A f \in Executors : f # e => task'[f] = task[f]
         /\ u > 0 => u - 1 \in Stages /\ done[u] < done[u - 1]
         /\ \A f \in Executors : f # e => task[f].stage # u
         /\ \A f \in Executors : \A q \in DOMAIN task_queue_[f] : task_queue_[f][q].stage # u
  <1>1. pc[e] = "sync" /\ pc[e] \in Working
    BY Zenon DEF Finish, Working
  <1>2. main \in {"push", "wait"} /\ task[e] \in StageTask
    BY Zenon, <1>1, WorkingCall DEF Control
  <1>3. Located /\ Unique /\ Present /\ Behind
    BY Zenon, <1>2 DEF Ring
  <1>4. u \in Stages /\ task[e] # NoTask
    BY Zenon, <1>2, NoTaskFacts
  <1>5. task[e].iteration = done[u] /\ e = Owner(done[u])
    BY Zenon, <1>3, <1>4 DEF Located
  <1>6. done[u] \in Nat /\ iteration_ \in Nat /\ iteration_ <= done[u]
    BY Zenon, <1>2, <1>4 DEF Types, Progress
  <1>7. NextExecutor(e) = Owner(done[u] + 1) /\ NextExecutor(e) \in Executors
    BY Zenon, <1>5, <1>6, OwnerFacts, NextExecutorType
  <1>8. done' = [done EXCEPT ![u] = @ + 1]
    BY Zenon DEF Finish
  <1>9. /\ done'[u] = done[u] + 1
        /\ \A s \in Stages : done[s] \in Nat /\ (s # u => done'[s] = done[s])
    BY Zenon, <1>4, <1>8, Increment DEF Types
  <1>10. task'[e] = NoTask /\ \A f \in Executors : f # e => task'[f] = task[f]
    BY Zenon DEF Finish, Types
  <1>11. u > 0 => u - 1 \in Stages /\ done[u] < done[u - 1]
    BY Zenon, <1>3, <1>4, Neighbours DEF Behind
  <1>12. ASSUME NEW f \in Executors, f # e
         PROVE  task[f].stage # u
    <2>1. CASE task[f] = NoTask
      BY Zenon, <1>4, <2>1, NoTaskFacts
    <2>2. CASE task[f] # NoTask
      BY SMTT(60), <1>3, <1>5, <1>12, <2>2 DEF Located
    <2> QED BY Zenon, <2>1, <2>2
  <1>13. ASSUME NEW f \in Executors, NEW q \in DOMAIN task_queue_[f]
         PROVE  task_queue_[f][q].stage # u
    <2>1. SUFFICES ASSUME task_queue_[f][q].stage = u PROVE FALSE
      BY Zenon
    <2>2. f = e
      BY SMTT(60), <1>3, <1>5, <2>1 DEF Located
    <2> QED BY Zenon, <1>3, <2>1, <2>2 DEF Unique
  <1>14. UNCHANGED <<main, index, iteration_, iteration_end, ctx>>
    BY Zenon DEF Finish, caller
  <1> QED BY ZenonT(60), <1>2, <1>3, <1>4, <1>5, <1>7, <1>9, <1>10, <1>11, <1>12, <1>13, <1>14

LEMMA RingFinish ==
  ASSUME Types, Control, Progress, Ring, NEW e \in Executors, Finish(e)
  PROVE  Ring'
  <1> SUFFICES ASSUME NEW u, u = task[e].stage, NEW d, d = done[u],
                      NEW g, g = NextExecutor(e), NEW n, n = Len(task_queue_[g]) + 1,
                      NEW t, t = [task[e] EXCEPT !.iteration = @ + 1]
               PROVE  Ring'
    BY Zenon
  <1>1. main \in {"push", "wait"} /\ UNCHANGED <<main, index, iteration_>>
    BY Zenon, Handed
  <1>2. Located /\ Unique /\ Present /\ Behind
    BY Zenon, Handed
  <1>3. u \in Stages /\ u \in Nat /\ g \in Executors /\ d \in Nat
    BY Zenon, Handed, Sizes
  <1>4. e = Owner(d) /\ g = Owner(d + 1)
    BY ZenonT(60), Handed
  <1>5. done'[u] = d + 1 /\ \A s \in Stages : done[s] \in Nat /\ (s # u => done'[s] = done[s])
    BY SMTT(60), Handed
  <1>6. /\ task[e].stage = u /\ task'[e] = NoTask
        /\ \A f \in Executors : f # e => task'[f] = task[f] /\ task[f].stage # u
    BY SMTT(60), Handed
  <1>7. u > 0 => u - 1 \in Stages /\ d < done[u - 1]
    BY Zenon, Handed
  <1>8. \A f \in Executors : \A q \in DOMAIN task_queue_[f] : task_queue_[f][q].stage # u
    BY SMTT(60), Handed
  <1>9. task[e] \in StageTask /\ task[e].iteration = d
    BY Zenon, Handed
  <1>10. t \in StageTask /\ t.stage = u /\ t.iteration = d + 1
    BY SMTT(60), <1>3, <1>6, <1>9 DEF StageTask
  <1>11. ExecuteAsync(g, t)
    BY Zenon DEF Finish
  <1>12. \A f \in Executors : \A q \in DOMAIN task_queue_[f] :
           /\ q \in Nat \ {0} /\ task_queue_[f][q] \in StageTask
           /\ q \in DOMAIN task_queue_'[f] /\ task_queue_'[f][q] = task_queue_[f][q]
    BY Zenon, <1>3, <1>10, <1>11, Enqueued
  <1>13. \A f \in Executors : \A q \in DOMAIN task_queue_'[f] :
           q \in DOMAIN task_queue_[f] \/ (f = g /\ q = n)
    BY SMTT(60), <1>3, <1>10, <1>11, Enqueued
  <1>14. /\ n \in Nat /\ n \in DOMAIN task_queue_'[g] /\ task_queue_'[g][n] = t
         /\ n \notin DOMAIN task_queue_[g]
    BY SMTT(60), <1>3, <1>10, <1>11, Enqueued
  <1>15. \A q \in DOMAIN task_queue_[g] : q \in 1 .. n - 1
    <2>1. \A q \in DOMAIN task_queue_[g] : q \in 1 .. Len(task_queue_[g])
      BY SMTT(60), <1>3, <1>10, <1>11, Enqueued
    <2>2. task_queue_[g] \in Seq(StageTask)
      BY Zenon, <1>3 DEF Types
    <2>3. Len(task_queue_[g]) \in Nat
      BY SMTT(60), <2>2
    <2>4. n - 1 = Len(task_queue_[g])
      BY SMTT(60), <2>3
    <2> QED BY Zenon, <2>1, <2>4
  <1>16. \A i : Owner(i)' = Owner(i)
    BY Zenon, <1>1 DEF Owner
  <1>17. \A f \in Executors : \A q \in DOMAIN task_queue_[f] : task_queue_[f][q].stage \in Stages
    BY Zenon, <1>12, NoTaskFacts
  <1>18. \A f \in Executors : task[f] # NoTask => task[f].stage \in Stages
    BY Zenon, NoTaskFacts DEF Types
  <1>19. Located'
    <2>1. ASSUME NEW f \in Executors, task'[f] # NoTask
          PROVE  task'[f].iteration = done'[task'[f].stage] /\ f = Owner(task'[f].iteration)
      <3>1. f # e /\ task'[f] = task[f] /\ task[f].stage # u
        BY ZenonT(60), <1>6, <2>1
      <3>2. task[f].iteration = done[task[f].stage] /\ f = Owner(task[f].iteration)
        BY Zenon, <1>2, <2>1, <3>1 DEF Located
      <3>3. task[f].stage \in Stages
        BY ZenonT(60), <1>18, <2>1, <3>1
      <3> QED BY Zenon, <1>5, <3>1, <3>2, <3>3
    <2>2. ASSUME NEW f \in Executors, NEW q \in DOMAIN task_queue_'[f]
          PROVE  /\ task_queue_'[f][q].iteration = done'[task_queue_'[f][q].stage]
                 /\ f = Owner(task_queue_'[f][q].iteration)
      <3>1. CASE q \in DOMAIN task_queue_[f]
        <4>1. /\ task_queue_'[f][q] = task_queue_[f][q]
              /\ done'[task_queue_[f][q].stage] = done[task_queue_[f][q].stage]
          BY SMTT(60), <1>5, <1>8, <1>12, <1>17, <3>1
        <4>2. /\ task_queue_[f][q].iteration = done[task_queue_[f][q].stage]
              /\ f = Owner(task_queue_[f][q].iteration)
          BY ZenonT(60), <1>2, <3>1 DEF Located
        <4> QED BY ZenonT(60), <4>1, <4>2
      <3>2. CASE f = g /\ q = n
        BY ZenonT(60), <1>4, <1>5, <1>10, <1>14, <3>2
      <3> QED BY Zenon, <1>13, <3>1, <3>2
    <2> QED BY ZenonT(60), <1>16, <2>1, <2>2 DEF Located
  <1>20. Unique'
    <2>1. ASSUME NEW f \in Executors
          PROVE  /\ task'[f].stage # u
                 /\ \A q \in DOMAIN task_queue_[f] : task_queue_[f][q].stage # task'[f].stage
      <3>1. CASE f = e
        <4>1. task'[f].stage = NumStages
          BY Zenon, <1>6, <3>1, NoTaskFacts
        <4> QED BY Zenon, <1>3, <1>17, <4>1, NoTaskFacts
      <3>2. CASE f # e
        <4>1. task'[f] = task[f] /\ task[f].stage # u
          BY Zenon, <1>6, <3>2
        <4> QED BY Zenon, <1>2, <4>1 DEF Unique
      <3> QED BY Zenon, <3>1, <3>2
    <2>2. ASSUME NEW f \in Executors, NEW q \in DOMAIN task_queue_'[f]
          PROVE  task_queue_'[f][q].stage # task'[f].stage
      <3>1. CASE q \in DOMAIN task_queue_[f]
        <4>1. task_queue_'[f][q] = task_queue_[f][q]
          BY Zenon, <1>12, <3>1
        <4> QED BY ZenonT(60), <2>1, <3>1, <4>1
      <3>2. CASE f = g /\ q = n
        <4>1. task_queue_'[f][q].stage = u
          BY ZenonT(60), <1>10, <1>14, <3>2
        <4> QED BY ZenonT(60), <2>1, <4>1
      <3> QED BY ZenonT(60), <1>13, <2>2, <3>1, <3>2
    <2>3. ASSUME NEW f \in Executors, NEW q \in DOMAIN task_queue_'[f], NEW r \in DOMAIN task_queue_'[f],
                 task_queue_'[f][q].stage = task_queue_'[f][r].stage
          PROVE  q = r
      <3>1. CASE q \in DOMAIN task_queue_[f] /\ r \in DOMAIN task_queue_[f]
        <4>1. task_queue_[f][q].stage = task_queue_[f][r].stage
          BY ZenonT(60), <1>12, <2>3, <3>1
        <4> QED BY ZenonT(60), <1>2, <3>1, <4>1 DEF Unique
      <3>2. ASSUME NEW x \in DOMAIN task_queue_[f], f = g
            PROVE  task_queue_'[f][x].stage # task_queue_'[g][n].stage
        BY SMTT(60), <1>8, <1>10, <1>12, <1>14
      <3> QED BY Zenon, <1>13, <2>3, <3>1, <3>2
    <2> QED BY Zenon, <2>2, <2>3 DEF Unique
  <1>21. ASSUME NEW f \in Executors, NEW s \in Stages, s # u
         PROVE  Holds(f, s)' <=> Holds(f, s)
    <2>1. task'[f].stage = s <=> task[f].stage = s
      <3>1. CASE f = e
        BY ZenonT(60), <1>6, <1>21, <3>1, NoTaskFacts
      <3>2. CASE f # e
        BY Zenon, <1>6, <3>2
      <3> QED BY Zenon, <3>1, <3>2
    <2>2. Queued(f, s)' <=> Queued(f, s)
      <3>1. ASSUME NEW q \in DOMAIN task_queue_[f], task_queue_[f][q].stage = s
            PROVE  q \in DOMAIN task_queue_'[f] /\ task_queue_'[f][q].stage = s
        BY Zenon, <1>12, <3>1
      <3>2. ASSUME NEW q \in DOMAIN task_queue_'[f], task_queue_'[f][q].stage = s
            PROVE  q \in DOMAIN task_queue_[f] /\ task_queue_[f][q].stage = s
        <4>1. CASE q \in DOMAIN task_queue_[f]
          BY ZenonT(60), <1>12, <3>2, <4>1
        <4>2. CASE f = g /\ q = n
          BY ZenonT(60), <1>10, <1>14, <1>21, <3>2, <4>2
        <4> QED BY Zenon, <1>13, <3>2, <4>1, <4>2
      <3> QED BY ZenonT(60), <3>1, <3>2 DEF Queued
    <2> QED BY Zenon, <2>1, <2>2 DEF Holds
  <1>22. Holds(g, u)'
    BY Zenon, <1>10, <1>14 DEF Holds, Queued
  <1>23. \A s \in Stages : iteration_ <= done[s]
    BY ZenonT(60), <1>1 DEF Progress
  <1>24. Pushed(u) /\ \A s \in Stages : Pushed(s)' <=> Pushed(s)
    <2>1. Holds(e, u)
      BY Zenon, <1>6 DEF Holds
    <2> QED BY ZenonT(60), <1>1, <1>2, <1>3, <2>1 DEF Present, Pushed
  <1>25. Present'
    <2>1. ASSUME NEW s \in Stages, Pushed(s)
          PROVE  Holds(Owner(done[s]), s)'
      <3>1. CASE s = u
        <4>1. Owner(done[s])' = g
          BY ZenonT(60), <1>4, <1>5, <1>16, <3>1
        <4> QED BY Zenon, <1>22, <3>1, <4>1 DEF Holds, Queued
      <3>2. CASE s # u
        <4>1. Holds(Owner(done[s]), s)
          BY Zenon, <1>2, <2>1 DEF Present
        <4>2. Owner(done[s]) \in Executors
          BY ZenonT(60), <1>5, <1>23, OwnerFacts DEF Types
        <4>3. Owner(done[s])' = Owner(done[s])
          BY ZenonT(60), <1>5, <1>16, <3>2
        <4>4. \A o : o = Owner(done[s]) => Holds(o, s)'
          BY Zenon, <1>21, <3>2, <4>1, <4>2
        <4> QED BY Zenon, <4>3, <4>4 DEF Holds, Queued
      <3> QED BY Zenon, <3>1, <3>2
    <2>2. ASSUME NEW s \in Stages, ~Pushed(s)
          PROVE  done'[s] = iteration_ /\ \A f \in Executors : ~Holds(f, s)'
      <3>1. s # u
        BY Zenon, <1>24, <2>2
      <3>2. done[s] = iteration_ /\ \A f \in Executors : ~Holds(f, s)
        BY Zenon, <1>2, <2>2 DEF Present
      <3> QED BY ZenonT(60), <1>5, <1>21, <3>1, <3>2
    <2> QED BY ZenonT(60), <1>1, <1>24, <2>1, <2>2 DEF Present
  <1>26. \A s, v \in Stages : v < s => done[s] <= done[v]
    BY ZenonT(60), <1>2 DEF Behind
  <1>27. \A s \in Stages : done[s] <= done'[s] /\ done'[s] \in Nat
    <2> SUFFICES ASSUME NEW s \in Stages PROVE done[s] <= done'[s] /\ done'[s] \in Nat
      BY Zenon
    <2>1. CASE s = u
      BY SMTT(60), <1>3, <1>5, <2>1
    <2>2. CASE s # u
      BY SMTT(60), <1>5, <2>2
    <2> QED BY Zenon, <2>1, <2>2
  <1>28. \A s, v \in Stages : v < s => done'[s] <= done'[v]
    <2> SUFFICES ASSUME NEW s \in Stages, NEW v \in Stages, v < s
                 PROVE  done'[s] <= done'[v]
      BY Zenon
    <2>1. done[s] <= done[v] /\ done[s] \in Nat /\ done[v] \in Nat /\ s \in Nat /\ v \in Nat
      BY Zenon, <1>5, <1>26, Sizes
    <2>2. CASE s = u
      <3>1. u > 0
        BY SMTT(60), <2>1, <2>2
      <3>2. u - 1 \in Stages /\ d < done[u - 1] /\ done[u - 1] \in Nat
        BY Zenon, <1>5, <1>7, <3>1
      <3>3. v = u - 1 \/ v < u - 1
        BY SMTT(60), <1>3, <2>1, <2>2
      <3>4. done[u - 1] <= done[v]
        BY SMTT(60), <1>26, <2>1, <3>2, <3>3
      <3>5. v # u
        BY SMTT(60), <2>1, <2>2
      <3>6. done'[v] = done[v]
        BY ZenonT(60), <1>5, <3>5
      <3>7. d + 1 <= done[v]
        BY SMTT(60), <1>3, <2>1, <3>2, <3>4
      <3> QED BY Zenon, <1>5, <2>2, <3>6, <3>7
    <2>3. CASE s # u
      <3>1. done'[s] = done[s] /\ done[v] <= done'[v] /\ done'[v] \in Nat
        BY Zenon, <1>5, <1>27, <2>3
      <3> QED BY SMTT(60), <2>1, <3>1
    <2> QED BY Zenon, <2>2, <2>3
  <1>29. ASSUME NEW f \in Executors, task'[f] # NoTask, task'[f].stage > 0
         PROVE  done'[task'[f].stage] < done'[task'[f].stage - 1]
    <2> SUFFICES ASSUME NEW s, s = task'[f].stage PROVE done'[s] < done'[s - 1]
      BY Zenon
    <2>1. task'[f] = task[f] /\ s # u
      BY Zenon, <1>6, <1>29
    <2>2. s \in Stages /\ s > 0
      BY ZenonT(60), <1>18, <1>29, <2>1
    <2>3. s - 1 \in Stages
      BY Zenon, <2>2, Neighbours
    <2>4. done[s] < done[s - 1]
      BY ZenonT(60), <1>2, <1>29, <2>1 DEF Behind
    <2>5. done'[s] = done[s] /\ done[s] \in Nat /\ done[s - 1] \in Nat
      BY Zenon, <1>5, <2>1, <2>2, <2>3
    <2>6. done[s - 1] <= done'[s - 1] /\ done'[s - 1] \in Nat
      BY Zenon, <1>27, <2>3
    <2> QED BY SMTT(60), <2>4, <2>5, <2>6
  <1>30. ASSUME NEW f \in Executors, NEW q \in DOMAIN task_queue_'[f],
                NEW s, s = task_queue_'[f][q].stage, s > 0
         PROVE  \/ done'[s] < done'[s - 1]
                \/ task'[f].stage = s - 1
                \/ \E p \in 1 .. q - 1 : task_queue_'[f][p].stage = s - 1
    <2>1. CASE q \in DOMAIN task_queue_[f]
      <3>1. s = task_queue_[f][q].stage /\ s # u /\ s \in Stages
        BY SMTT(60), <1>8, <1>12, <1>17, <1>30, <2>1
      <3>2. s - 1 \in Stages /\ s \in Nat
        BY ZenonT(60), <1>30, <3>1, Neighbours, Sizes
      <3>3. done'[s] = done[s] /\ done[s] \in Nat /\ done[s - 1] \in Nat
        BY Zenon, <1>5, <3>1, <3>2
      <3>4. \/ done[s] < done[s - 1]
            \/ task[f].stage = s - 1
            \/ \E p \in 1 .. q - 1 : task_queue_[f][p].stage = s - 1
        BY ZenonT(60), <1>2, <1>30, <2>1, <3>1 DEF Behind
      <3>5. CASE done[s] < done[s - 1]
        <4>1. done[s - 1] <= done'[s - 1] /\ done'[s - 1] \in Nat
          BY ZenonT(60), <1>27, <3>2
        <4> QED BY SMTT(60), <3>3, <3>5, <4>1
      <3>6. CASE task[f].stage = s - 1
        <4>1. CASE f # e
          BY ZenonT(60), <1>6, <3>6, <4>1
        <4>2. CASE f = e
          <5>1. s - 1 = u /\ u < s
            BY SMTT(60), <1>3, <1>6, <3>2, <3>6, <4>2
          <5>2. done[s] <= d
            BY ZenonT(60), <1>3, <1>26, <3>1, <5>1
          <5>3. done[s] < d + 1
            BY SMTT(60), <1>3, <3>3, <5>2
          <5> QED BY ZenonT(60), <1>5, <3>3, <5>1, <5>3
        <4> QED BY Zenon, <4>1, <4>2
      <3>7. ASSUME NEW p \in 1 .. q - 1, task_queue_[f][p].stage = s - 1
            PROVE  task_queue_'[f][p].stage = s - 1
        <4>1. task_queue_[f] \in Seq(StageTask)
          BY ZenonT(60) DEF Types
        <4>2. p \in DOMAIN task_queue_[f]
          BY SMTT(60), <2>1, <4>1
        <4> QED BY Zenon, <1>12, <3>7, <4>2
      <3> QED BY ZenonT(60), <3>4, <3>5, <3>6, <3>7
    <2>2. CASE f = g /\ q = n
      <3>1. s = u /\ u > 0
        BY ZenonT(60), <1>10, <1>14, <1>30, <2>2
      <3>2. u - 1 \in Stages /\ d < done[u - 1] /\ done[u - 1] \in Nat /\ u - 1 # u
        BY SMTT(60), <1>3, <1>5, <1>7, <3>1
      <3>3. done'[u - 1] = done[u - 1]
        BY ZenonT(60), <1>5, <3>2
      <3>4. CASE done[u - 1] = d + 1
        <4>1. Pushed(u - 1)
          BY SMTT(60), <1>3, <1>24 DEF Pushed, Types
        <4>2. Holds(g, u - 1)
          <5>1. Holds(Owner(done[u - 1]), u - 1)
            BY Zenon, <1>2, <3>2, <4>1 DEF Present
          <5> QED BY ZenonT(60), <1>4, <3>4, <5>1
        <4>3. CASE task[g].stage = u - 1
          <5>1. g # e
            BY Zenon, <1>6, <3>2, <4>3
          <5> QED BY ZenonT(60), <1>3, <1>6, <2>2, <3>1, <4>3, <5>1
        <4>4. CASE Queued(g, u - 1)
          <5>1. PICK p \in DOMAIN task_queue_[g] : task_queue_[g][p].stage = u - 1
            BY ZenonT(60), <4>4 DEF Queued
          <5>2. p \in 1 .. n - 1 /\ task_queue_'[g][p].stage = u - 1
            BY ZenonT(60), <1>3, <1>12, <1>15, <5>1
          <5> QED BY ZenonT(60), <2>2, <3>1, <5>2
        <4> QED BY Zenon, <4>2, <4>3, <4>4 DEF Holds
      <3>5. CASE done[u - 1] # d + 1
        <4>1. d + 1 < done[u - 1]
          BY SMTT(60), <1>3, <3>2, <3>5
        <4> QED BY ZenonT(60), <1>5, <3>1, <3>3, <4>1
      <3> QED BY Zenon, <3>4, <3>5
    <2> QED BY ZenonT(60), <1>13, <2>1, <2>2
  <1>31. Behind'
    BY SMTT(60), <1>28, <1>29, <1>30 DEF Behind
  <1> QED BY Zenon, <1>19, <1>20, <1>25, <1>31 DEF Ring

LEMMA RingStep ==
  ASSUME Types, Control, Progress, Ring, Next
  PROVE  Ring'
  <1>1. ASSUME NEW k \in LoopCounts, Execute(k)
        PROVE  Ring'
    BY Zenon, <1>1 DEF Execute, Ring
  <1>2. CASE StartExecutor
    <2>1. main' = "push" \/ main' = "start"
      BY Zenon, <1>2 DEF StartExecutor
    <2> QED BY Zenon, <1>2, <2>1, RingStart DEF Ring
  <1>3. CASE PushTask
    BY Zenon, <1>3, RingPush
  <1>4. CASE Wait
    <2>1. /\ main = "wait" /\ main' \in {"wait", "return"}
          /\ UNCHANGED <<task, task_queue_, done, iteration_>>
      BY Zenon, <1>4 DEF Wait, history
    <2>2. CASE main' = "wait"
      BY Zenon, <2>1, <2>2, RingFrame
    <2>3. CASE main' = "return"
      BY Zenon, <2>3 DEF Ring
    <2> QED BY Zenon, <2>1, <2>2, <2>3
  <1>5. CASE Return
    BY Zenon, <1>5 DEF Return, Ring
  <1>6. ASSUME NEW e \in Executors, Pop(e)
        PROVE  Ring'
    BY Zenon, <1>6, RingPop
  <1>7. ASSUME NEW e \in Executors,
               Reset(e) \/ Open(e) \/ PartialExecuteAsync(e) \/ FailSync(e) \/ CallbackStep(e)
        PROVE  Ring'
    <2>1. UNCHANGED <<main, index, task, task_queue_, done, iteration_>>
      BY Zenon, <1>7 DEF Reset, Open, PartialExecuteAsync, FailSync,
                         CallbackStep, CallbackEof, CallbackFails, caller, history
    <2>2. CASE main \in {"push", "wait"}
      BY Zenon, <2>1, <2>2, RingFrame
    <2> QED BY Zenon, <2>1, <2>2 DEF Ring
  <1>8. ASSUME NEW e \in Executors, Finish(e)
        PROVE  Ring'
    BY Zenon, <1>8, RingFinish
  <1> QED BY Zenon, <1>1, <1>2, <1>3, <1>4, <1>5, <1>6, <1>7, <1>8
          DEF Next, CallerStep, StageStep

-----------------------------------------------------------------------------
(* The contexts of the iterations under way.                               *)

LEMMA CallbacksStep ==
  ASSUME Types, Callbacks, Next
  PROVE  Callbacks'
  <1> DEFINE Quiet(c, n) == c \in {"none", "run"} /\ n = 0
  <1>1. ASSUME UNCHANGED <<cb, eofs, lost>>,
               \A f \in Executors : pc'[f] \in {"stuck", "open"} => pc[f] \in {"stuck", "open"}
        PROVE  Callbacks'
    BY Zenon, <1>1 DEF Callbacks
  <1>2. ASSUME NEW e \in Executors,
               \A f \in Executors : f # e => /\ pc'[f] = pc[f] /\ cb'[f] = cb[f]
                                            /\ eofs'[f] = eofs[f] /\ lost'[f] = lost[f],
               \/ lost'[e]
               \/ Quiet(cb'[e], eofs'[e]) /\ (pc'[e] \in {"stuck", "open"} => cb'[e] = "run")
        PROVE  Callbacks'
    BY Zenon, <1>2 DEF Callbacks
  <1>3. ASSUME NEW k \in LoopCounts, Execute(k)
        PROVE  Callbacks'
    BY Zenon, <1>1, <1>3 DEF Execute, contexts
  <1>4. CASE CallerStep
    <2>1. UNCHANGED <<cb, eofs, lost>>
      BY Zenon, <1>4 DEF CallerStep, StartExecutor, PushTask, Wait, Return, contexts
    <2>2. ASSUME NEW f \in Executors, pc'[f] \in {"stuck", "open"}
          PROVE  pc[f] \in {"stuck", "open"}
      <3>1. CASE StartExecutor
        <4>1. \E v \in {"pop", "done", "failed"} : pc' = [pc EXCEPT ![index] = v]
          BY Zenon, <3>1, AtLoopFacts DEF StartExecutor
        <4> QED BY Zenon, <2>2, <4>1 DEF Types
      <3>2. CASE ~StartExecutor
        BY Zenon, <1>4, <2>2, <3>2 DEF CallerStep, PushTask, Wait, Return
      <3> QED BY Zenon, <3>1, <3>2
    <2> QED BY Zenon, <1>1, <2>1, <2>2
  <1>5. ASSUME NEW e \in Executors, Pop(e) \/ Open(e)
        PROVE  Callbacks'
    <2>1. UNCHANGED <<cb, eofs, lost>>
      BY Zenon, <1>5 DEF Pop, Open, contexts
    <2>2. /\ pc'[e] \in {"unexpected", "reset", "run", "failed"}
          /\ \A f \in Executors : f # e => pc'[f] = pc[f]
      BY Zenon, <1>5 DEF Pop, Open, Types
    <2> QED BY Zenon, <1>1, <2>1, <2>2
  <1>6. ASSUME NEW e \in Executors, Reset(e)
        PROVE  Callbacks'
    <2>1. /\ (pc'[e] = "failed" /\ cb'[e] = cb[e]) \/ cb'[e] = "run"
          /\ UNCHANGED <<eofs, lost>>
          /\ \A f \in Executors : f # e => pc'[f] = pc[f] /\ cb'[f] = cb[f]
      BY Zenon, <1>6 DEF Reset, Types
    <2> QED BY Zenon, <1>2, <2>1 DEF Callbacks
  <1>7. ASSUME NEW e \in Executors, UNCHANGED <<cb, eofs>> \/ Destroy(e),
               \A f \in Executors : f # e => pc'[f] = pc[f] /\ lost'[f] = lost[f],
               lost[e] => lost'[e], pc'[e] \notin {"stuck", "open"}
        PROVE  Callbacks'
    <2>1. /\ \A f \in Executors : f # e => cb'[f] = cb[f] /\ eofs'[f] = eofs[f]
          /\ \/ cb'[e] = cb[e] /\ eofs'[e] = eofs[e]
             \/ cb'[e] = "none" /\ (cb[e] # "ended" => eofs'[e] = eofs[e])
      BY Zenon, <1>7 DEF Destroy, Types
    <2>2. lost'[e] \/ Quiet(cb'[e], eofs'[e])
      BY Zenon, <1>7, <2>1 DEF Callbacks
    <2> QED BY Zenon, <1>2, <1>7, <2>1, <2>2
  <1>8. ASSUME NEW e \in Executors, PartialExecuteAsync(e) \/ Finish(e) \/ FailSync(e)
        PROVE  Callbacks'
    <2>1. UNCHANGED <<cb, eofs>> \/ Destroy(e)
      BY Zenon, <1>8 DEF PartialExecuteAsync, RegisterFails, ScheduleFails, Finish, FailSync
    <2>2. lost' = lost \/ lost' = [lost EXCEPT ![e] = TRUE]
      BY Zenon, <1>8 DEF PartialExecuteAsync, RegisterFails, ScheduleFails, Finish, FailSync
    <2>3. \E v \in {"sync", "failed", "pop", "done"} : pc' = [pc EXCEPT ![e] = v]
      <3>1. CASE Finish(e)
        BY Zenon, <3>1, AtLoopFacts DEF Finish
      <3>2. CASE ~Finish(e)
        BY Zenon, <1>8, <3>2 DEF PartialExecuteAsync, RegisterFails, ScheduleFails, FailSync
      <3> QED BY Zenon, <3>1, <3>2
    <2>4. /\ \A f \in Executors : f # e => pc'[f] = pc[f] /\ lost'[f] = lost[f]
          /\ lost[e] => lost'[e]
          /\ pc'[e] \notin {"stuck", "open"}
      BY Zenon, <2>2, <2>3 DEF Types
    <2> QED BY Zenon, <1>7, <2>1, <2>4
  <1>9. ASSUME NEW e \in Executors, CallbackEof(e)
        PROVE  Callbacks'
    <2>1. lost[e] /\ lost' = lost
      <3>1. eofs[e] # 0 /\ lost' = lost
        BY SMTT(60), <1>9 DEF CallbackEof, Types
      <3> QED BY Zenon, <3>1 DEF Callbacks
    <2>2. \A f \in Executors : f # e => pc'[f] = pc[f] /\ cb'[f] = cb[f] /\ eofs'[f] = eofs[f]
      BY Zenon, <1>9 DEF CallbackEof, ThreadEnds, Types
    <2> QED BY Zenon, <1>2, <2>1, <2>2
  <1>10. ASSUME NEW e \in Executors, CallbackFails(e)
         PROVE  Callbacks'
    <2>1. CASE UNCHANGED <<pc, cb, lost>>
      BY Zenon, <1>1, <1>10, <2>1 DEF CallbackFails
    <2>2. CASE ThreadEnds(e) /\ lost' = [lost EXCEPT ![e] = TRUE]
      <3>1. lost'[e] /\ eofs' = eofs
        BY Zenon, <1>10, <2>2 DEF CallbackFails, Types
      <3>2. \A f \in Executors : f # e => pc'[f] = pc[f] /\ cb'[f] = cb[f] /\ lost'[f] = lost[f]
        BY Zenon, <2>2 DEF ThreadEnds, Types
      <3> QED BY Zenon, <1>2, <3>1, <3>2
    <2> QED BY Zenon, <1>10, <2>1, <2>2 DEF CallbackFails
  <1> QED BY Zenon, <1>3, <1>4, <1>5, <1>6, <1>8, <1>9, <1>10 DEF Next, StageStep, CallbackStep

LEMMA ContextsKept ==
  ASSUME Types, Progress, Contexts, main \in {"push", "wait"},
         UNCHANGED <<done, iteration_>>,
         \A f \in Executors :
           /\ pc'[f] \notin {"failed", "unexpected"} =>
                /\ pc[f] \notin {"failed", "unexpected"}
                /\ \A i : Owns(f, i) => Owns(f, i)'
           /\ pc'[f] \in {"run", "sync"} /\ task'[f].stage = 0 => Owns(f, task[f].iteration)'
  PROVE  Contexts'
  <1>1. \A s \in Stages : done[s] \in Nat /\ iteration_ <= done[s]
    BY Zenon DEF Types, Progress
  <1>2. done[NumStages - 1] \in Nat /\ iteration_ <= done[NumStages - 1] /\ done[0] \in Nat
    BY Zenon, <1>1, Sizes
  <1>3. \A i : Owner(i)' = Owner(i)
    BY Zenon DEF Owner
  <1>4. ASSUME NEW i \in done[NumStages - 1] .. done[0] - 1,
               pc'[Owner(i)] \notin {"failed", "unexpected"}
        PROVE  Owns(Owner(i), i)'
    <2>1. i \in Nat /\ iteration_ <= i
      BY SMTT(60), <1>2 DEF Types
    <2>2. Owner(i) \in Executors
      BY Zenon, <2>1, OwnerFacts DEF Types
    <2>3. pc[Owner(i)] \notin {"failed", "unexpected"}
      BY Zenon, <1>4, <2>2
    <2>4. Owns(Owner(i), i)
      BY Zenon, <2>3 DEF Contexts
    <2>5. PICK f \in Executors : f = Owner(i)
      BY Zenon, <2>2
    <2>6. Owner(i)' = f
      BY Zenon, <1>3, <2>5
    <2>7. Owns(f, i)'
      BY Zenon, <1>4, <2>4, <2>5
    <2> QED BY Zenon, <2>6, <2>7 DEF Owns
  <1> QED BY Zenon, <1>3, <1>4 DEF Contexts

\* The last stage that ends leaves no other iteration in its context.
LEMMA ContextsFinish ==
  ASSUME Types, Control, Progress, Ring, Contexts, NEW e \in Executors, Finish(e)
  PROVE  Contexts'
  <1> SUFFICES ASSUME NEW u, u = task[e].stage, NEW d, d = done[u],
                      NEW l, l = NumStages - 1
               PROVE  Contexts'
    BY Zenon
  <1>1. main \in {"push", "wait"} /\ Behind /\ UNCHANGED <<main, iteration_, ctx>>
    BY Zenon, Handed
  <1>2. u \in Stages /\ task[e].iteration = d /\ e = Owner(d)
    BY ZenonT(60), Handed
  <1>3. done'[u] = d + 1 /\ \A s \in Stages : done[s] \in Nat /\ (s # u => done'[s] = done[s])
    BY SMTT(60), Handed
  <1>4. u > 0 => u - 1 \in Stages /\ d < done[u - 1]
    BY Zenon, Handed
  <1>5. 0 \in Stages /\ l \in Stages /\ l \in Nat /\ u \in Nat /\ u <= l /\ (u = l \/ u < l)
    BY SMTT(60), <1>2, Sizes
  <1>6. /\ d \in Nat /\ done[0] \in Nat /\ done[l] \in Nat
        /\ iteration_ \in Nat /\ iteration_ <= done[l]
    BY Zenon, <1>1, <1>2, <1>3, <1>5 DEF Types, Progress
  <1>7. /\ pc[e] = "sync" /\ pc'[e] \in {"pop", "done"}
        /\ lost' = lost /\ (u < l => cb' = cb)
        /\ \A f \in Executors : f # e => pc'[f] = pc[f] /\ cb'[f] = cb[f] /\ task'[f] = task[f]
    BY Zenon, AtLoopFacts DEF Finish, Destroy, Types
  <1>8. \A i : Owner(i)' = Owner(i)
    BY Zenon, <1>1 DEF Owner
  <1>9. \A i \in done[l] .. done[0] - 1 :
          pc[Owner(i)] \notin {"failed", "unexpected"} => Owns(Owner(i), i)
    BY Zenon, <1>1 DEF Contexts
  <1>10. u > 0 => d < done[0]
    <2>1. CASE u > 1
      <3>1. u - 1 \in Stages /\ 0 < u - 1 /\ d < done[u - 1]
        BY SMTT(60), <1>4, <1>5, <2>1
      <3>2. done[u - 1] <= done[0] /\ done[u - 1] \in Nat
        BY Zenon, <1>1, <1>3, <1>5, <3>1 DEF Behind
      <3> QED BY SMTT(60), <1>6, <3>1, <3>2
    <2>2. CASE u = 1
      <3>1. u - 1 = 0
        BY SMTT(60), <2>2
      <3> QED BY Zenon, <1>4, <2>2, <3>1
    <2> QED BY SMTT(60), <1>5, <2>1, <2>2
  <1>11. done[l] <= d
    <2>1. CASE u = l
      BY SMTT(60), <1>6, <2>1
    <2>2. CASE u < l
      BY Zenon, <1>1, <1>2, <1>5, <2>2 DEF Behind
    <2> QED BY Zenon, <1>5, <2>1, <2>2
  <1>12. ASSUME NEW i \in done'[l] .. done'[0] - 1,
                pc'[Owner(i)] \notin {"failed", "unexpected"}
         PROVE  Owns(Owner(i), i)'
    <2>1. CASE u = 0 /\ i = d
      <3>1. l # 0
        <4>1. SUFFICES ASSUME l = 0 PROVE FALSE
          BY Zenon
        <4>2. done'[l] = d + 1 /\ done'[0] = d + 1
          BY Zenon, <1>3, <2>1, <4>1
        <4>3. d \in d + 1 .. d + 1 - 1
          BY SMTT(60), <1>12, <2>1, <4>2
        <4> QED BY SMTT(60), <1>6, <4>3
      <3>2. u < l
        BY Zenon, <1>5, <2>1, <3>1
      <3>3. Owns(e, d)
        BY ZenonT(60), <1>1, <1>2, <1>7, <2>1 DEF Contexts
      <3>4. lost'[e] \/ (cb'[e] = "run" /\ ctx'[e] = d /\ pc'[e] # "open")
        BY Zenon, <1>1, <1>7, <3>2, <3>3 DEF Owns
      <3> QED BY Zenon, <1>2, <1>8, <2>1, <3>4 DEF Owns
    <2>2. CASE ~(u = 0 /\ i = d)
      <3>1. i \in done[l] .. done[0] - 1 /\ (u = l => i # d)
        <4>1. i \in Int /\ done'[l] <= i /\ i <= done'[0] - 1
          <5>1. done'[l] \in Int /\ done'[0] \in Int
            BY SMTT(60), <1>3, <1>5, <1>6
          <5> QED BY SMTT(60), <5>1
        <4>2. done[l] <= i /\ (u = l => i # d)
          BY SMTT(60), <1>3, <1>5, <1>6, <4>1
        <4>3. i <= done[0] - 1
          <5>1. CASE u = 0
            <6>1. done'[0] = d + 1 /\ done[0] = d
              BY Zenon, <1>3, <5>1
            <6> QED BY SMTT(60), <1>6, <2>2, <4>1, <5>1, <6>1
          <5>2. CASE u # 0
            <6>1. done'[0] = done[0]
              BY Zenon, <1>3, <1>5, <5>2
            <6> QED BY Zenon, <4>1, <6>1
          <5> QED BY Zenon, <5>1, <5>2
        <4> QED BY SMTT(60), <1>6, <4>1, <4>2, <4>3
      <3>2. i \in Nat /\ iteration_ <= i
        BY SMTT(60), <1>6, <3>1
      <3>3. Owner(i) \in Executors
        BY Zenon, <1>6, <3>2, OwnerFacts
      <3>4. CASE Owner(i) # e
        <4>1. /\ pc'[Owner(i)] = pc[Owner(i)] /\ cb'[Owner(i)] = cb[Owner(i)]
              /\ pc[Owner(i)] \notin {"failed", "unexpected"}
          BY Zenon, <1>7, <1>12, <3>3, <3>4
        <4>2. Owns(Owner(i), i)
          BY Zenon, <1>9, <3>1, <4>1
        <4> QED BY Zenon, <1>1, <1>7, <1>8, <4>1, <4>2 DEF Owns
      <3>5. CASE Owner(i) = e
        <4>1. Owns(e, i)
          BY Zenon, <1>7, <1>9, <3>1, <3>5
        <4>2. lost[e] \/ u # l
          <5>1. SUFFICES ASSUME ~lost[e], u = l PROVE FALSE
            BY Zenon
          <5>2. u # 0
            BY SMTT(60), <1>6, <3>1, <5>1
          <5>3. d \in done[l] .. done[0] - 1
            BY SMTT(60), <1>5, <1>6, <1>10, <1>11, <5>2
          <5>4. Owns(e, d)
            BY Zenon, <1>2, <1>7, <1>9, <5>3
          <5> QED BY Zenon, <3>1, <4>1, <5>1, <5>4 DEF Owns
        <4>3. lost[e] \/ u < l
          BY Zenon, <1>5, <4>2
        <4>4. lost'[e] \/ (cb'[e] = "run" /\ ctx'[e] = i /\ pc'[e] # "open")
          BY Zenon, <1>1, <1>7, <4>1, <4>3 DEF Owns
        <4> QED BY Zenon, <1>8, <3>5, <4>4 DEF Owns
      <3> QED BY Zenon, <3>4, <3>5
    <2> QED BY Zenon, <2>1, <2>2
  <1>13. ASSUME NEW f \in Executors, pc'[f] \in {"run", "sync"}, task'[f].stage = 0
         PROVE  Owns(f, task[f].iteration)'
    <2>1. f # e
      BY Zenon, <1>7, <1>13
    <2>2. pc'[f] = pc[f] /\ cb'[f] = cb[f] /\ task'[f] = task[f]
      BY Zenon, <1>7, <2>1
    <2>3. Owns(f, task[f].iteration)
      BY ZenonT(60), <1>1, <1>13, <2>2 DEF Contexts
    <2> QED BY Zenon, <1>1, <1>7, <2>2, <2>3 DEF Owns
  <1> QED BY Zenon, <1>1, <1>8, <1>12, <1>13 DEF Contexts

LEMMA ContextsStep ==
  ASSUME Types, Control, Progress, Ring, Callbacks, Contexts, Next
  PROVE  Contexts'
  <1>1. ASSUME NEW k \in LoopCounts, Execute(k)
        PROVE  Contexts'
    BY Zenon, <1>1 DEF Execute, Contexts
  <1>2. CASE StartExecutor
    <2>1. main = "start" /\ index \in Executors /\ main' \in {"start", "push"}
      BY Zenon, <1>2 DEF StartExecutor, Types
    <2>2. CASE main' = "push"
      <3>1. index = NumExecutors - 1
        BY SMTT(60), <1>2, <2>1, <2>2, Sizes DEF StartExecutor
      <3>2. /\ pc'[index] \in {"pop", "done", "failed"}
            /\ \A f \in Executors : f # index => pc'[f] = pc[f]
        BY SMTT(60), <1>2, <2>1, AtLoopFacts DEF StartExecutor, Types
      <3>3. ASSUME NEW f \in Executors
            PROVE  pc'[f] \notin {"run", "sync"}
        <4>1. f = index \/ f < index
          BY SMTT(60), <3>1, Sizes
        <4> QED BY Zenon, <2>1, <3>2, <4>1 DEF Control, Working
      <3>4. done' = done /\ done[0] = iteration_ /\ done[NumStages - 1] = iteration_ /\ iteration_ \in Nat
        BY Zenon, <1>2, <2>1, Sizes DEF StartExecutor, history, Progress, Types
      <3>5. ~ \E i \in done'[NumStages - 1] .. done'[0] - 1 : TRUE
        BY SMTT(60), <3>4
      <3> QED BY Zenon, <3>3, <3>5 DEF Contexts
    <2> QED BY Zenon, <2>1, <2>2 DEF Contexts
  <1>3. CASE PushTask \/ Wait
    <2>1. /\ main \in {"push", "wait"}
          /\ UNCHANGED <<pc, task, done, iteration_, ctx, cb, lost>>
      BY Zenon, <1>3 DEF PushTask, Wait, contexts, history
    <2> QED BY Zenon, <2>1 DEF Contexts, Owner, Owns
  <1>4. CASE Return
    BY Zenon, <1>4 DEF Return, Contexts
  <1>9. ASSUME NEW e \in Executors, main \in {"push", "wait"}, UNCHANGED <<done, iteration_>>,
               \A f \in Executors : f # e => /\ pc'[f] = pc[f] /\ task'[f] = task[f]
                                            /\ ctx'[f] = ctx[f] /\ cb'[f] = cb[f]
                                            /\ lost'[f] = lost[f],
               pc'[e] \notin {"failed", "unexpected"} =>
                 pc[e] \notin {"failed", "unexpected"} /\ \A i : Owns(e, i) => Owns(e, i)',
               pc'[e] \in {"run", "sync"} /\ task'[e].stage = 0 => Owns(e, task[e].iteration)'
        PROVE  Contexts'
    <2>3. ASSUME NEW f \in Executors, f # e, NEW i, Owns(f, i)
          PROVE  Owns(f, i)'
      BY Zenon, <1>9, <2>3 DEF Owns
    <2>1. ASSUME NEW f \in Executors, pc'[f] \in {"run", "sync"}, task'[f].stage = 0
          PROVE  Owns(f, task[f].iteration)'
      <3>1. CASE f # e
        <4>1. Owns(f, task[f].iteration)
          BY Zenon, <1>9, <2>1, <3>1 DEF Contexts
        <4> QED BY Zenon, <1>9, <3>1, <4>1 DEF Owns
      <3> QED BY Zenon, <1>9, <2>1, <3>1
    <2>2. ASSUME NEW f \in Executors, pc'[f] \notin {"failed", "unexpected"}
          PROVE  pc[f] \notin {"failed", "unexpected"} /\ \A i : Owns(f, i) => Owns(f, i)'
      BY Zenon, <1>9, <2>2, <2>3
    <2> QED BY Zenon, <1>9, <2>1, <2>2, ContextsKept
  <1>5. ASSUME NEW e \in Executors, Pop(e)
        PROVE  Contexts'
    <2>1. /\ pc[e] = "pop" /\ task_queue_[e] # <<>>
          /\ UNCHANGED <<done, iteration_, ctx, cb, lost>>
      BY Zenon, <1>5 DEF Pop, caller, contexts, history
    <2>2. main \in {"push", "wait"}
      BY Zenon, <2>1, WorkingCall
    <2>3. /\ pc'[e] \in {"unexpected", "reset", "run"}
          /\ pc'[e] = "run" => task'[e].stage # 0
          /\ \A f \in Executors : f # e => pc'[f] = pc[f] /\ task'[f] = task[f]
      BY Zenon, <1>5 DEF Pop, Types
    <2> QED BY Zenon, <1>9, <2>1, <2>2, <2>3 DEF Owns
  <1>6. ASSUME NEW e \in Executors, Reset(e) \/ Open(e)
        PROVE  Contexts'
    <2>1. /\ pc[e] \in {"reset", "open"} /\ UNCHANGED <<done, iteration_, task, lost>>
          /\ \A f \in Executors : f # e => pc'[f] = pc[f] /\ cb'[f] = cb[f] /\ ctx'[f] = ctx[f]
      BY Zenon, <1>6 DEF Reset, Open, caller, history, Types
    <2>2. main \in {"push", "wait"}
      BY Zenon, <2>1, WorkingCall DEF Working
    <2>3. CASE Reset(e)
      <3>1. /\ pc[e] = "reset" /\ ctx' = ctx
            /\ \/ pc'[e] = "failed"
               \/ cb'[e] = "run" /\ pc'[e] = IF cb[e] = "run" THEN "stuck" ELSE "open"
        BY Zenon, <2>3 DEF Reset, Types
      <3>2. \A i : pc'[e] # "failed" /\ Owns(e, i) => Owns(e, i)'
        BY Zenon, <2>1, <3>1 DEF Owns
      <3>3. pc'[e] \notin {"run", "sync", "unexpected"}
        BY Zenon, <3>1
      <3>4. \A f \in Executors : f # e => lost'[f] = lost[f] /\ task'[f] = task[f]
        BY Zenon, <2>1
      <3> QED BY Zenon, <1>9, <2>1, <2>2, <3>1, <3>2, <3>3, <3>4
    <2>4. CASE Open(e)
      <3>1. /\ pc[e] = "open" /\ cb' = cb
            /\ pc'[e] = "failed" \/ (pc'[e] = "run" /\ ctx'[e] = task[e].iteration)
        BY Zenon, <2>4 DEF Open, Types
      <3>2. \A i : Owns(e, i) => Owns(e, i)'
        BY Zenon, <2>1, <3>1 DEF Owns
      <3>3. pc'[e] = "run" => Owns(e, task[e].iteration)'
        BY Zenon, <2>1, <3>1 DEF Owns, Callbacks
      <3>4. \A f \in Executors : f # e => lost'[f] = lost[f] /\ task'[f] = task[f]
        BY Zenon, <2>1
      <3> QED BY Zenon, <1>9, <2>1, <2>2, <3>1, <3>2, <3>3, <3>4
    <2> QED BY Zenon, <1>6, <2>3, <2>4
  <1>7. ASSUME NEW e \in Executors, PartialExecuteAsync(e) \/ FailSync(e)
        PROVE  Contexts'
    <2>1. pc[e] \in {"run", "sync"} /\ UNCHANGED <<done, iteration_, task, ctx>>
      BY Zenon, <1>7 DEF PartialExecuteAsync, FailSync, caller, history
    <2>2. /\ lost' = lost \/ lost' = [lost EXCEPT ![e] = TRUE]
          /\ cb' = cb \/ cb' = [cb EXCEPT ![e] = "none"]
      BY Zenon, <1>7 DEF PartialExecuteAsync, RegisterFails, ScheduleFails, FailSync, Destroy
    <2>3. \/ pc' = [pc EXCEPT ![e] = "failed"]
          \/ /\ pc' = [pc EXCEPT ![e] = "sync"]
             /\ (cb' = cb /\ lost' = lost) \/ lost' = [lost EXCEPT ![e] = TRUE]
      BY Zenon, <1>7 DEF PartialExecuteAsync, RegisterFails, ScheduleFails, FailSync
    <2>4. /\ pc'[e] = "failed" \/ (pc'[e] = "sync" /\ ((cb' = cb /\ lost' = lost) \/ lost'[e]))
          /\ \A f \in Executors : f # e => pc'[f] = pc[f] /\ cb'[f] = cb[f] /\ lost'[f] = lost[f]
      BY Zenon, <2>2, <2>3 DEF Types
    <2>5. main \in {"push", "wait"}
      BY Zenon, <2>1, WorkingCall DEF Working
    <2>6. \A i : pc'[e] # "failed" /\ Owns(e, i) => Owns(e, i)'
      BY Zenon, <2>1, <2>4 DEF Owns
    <2>7. pc'[e] \in {"run", "sync"} /\ task'[e].stage = 0 => Owns(e, task[e].iteration)'
      <3>1. SUFFICES ASSUME pc'[e] = "sync", task[e].stage = 0
                     PROVE  Owns(e, task[e].iteration)'
        BY Zenon, <2>1, <2>4
      <3>2. Owns(e, task[e].iteration)
        BY Zenon, <2>1, <2>5, <3>1 DEF Contexts
      <3> QED BY Zenon, <2>1, <2>4, <3>1, <3>2 DEF Owns
    <2> QED BY Zenon, <1>9, <2>1, <2>4, <2>5, <2>6, <2>7
  <1>8. ASSUME NEW e \in Executors, Finish(e)
        PROVE  Contexts'
    BY Zenon, <1>8, ContextsFinish
  <1>10. ASSUME NEW e \in Executors, CallbackStep(e)
         PROVE  Contexts'
    <2>1. UNCHANGED <<main, done, iteration_, task, ctx>>
      BY Zenon, <1>10 DEF CallbackStep, CallbackEof, CallbackFails, caller, history
    <2>2. CASE main \in {"push", "wait"}
      <3>1. CASE UNCHANGED <<pc, cb, lost>>
        BY Zenon, <2>1, <2>2, <3>1 DEF Contexts, Owner, Owns
      <3>2. CASE ThreadEnds(e) /\ (lost' = [lost EXCEPT ![e] = TRUE] \/ (lost' = lost /\ lost[e]))
        <4>1. /\ lost'[e] /\ (pc'[e] # pc[e] => pc[e] = "stuck" /\ pc'[e] = "open")
              /\ \A f \in Executors : f # e =>
                   pc'[f] = pc[f] /\ cb'[f] = cb[f] /\ lost'[f] = lost[f]
          BY Zenon, <3>2 DEF ThreadEnds, Types
        <4>2. /\ \A i : Owns(e, i)'
              /\ Owns(e, task[e].iteration)'
          BY Zenon, <4>1 DEF Owns
        <4>3. pc'[e] \notin {"failed", "unexpected"} => pc[e] \notin {"failed", "unexpected"}
          BY Zenon, <4>1
        <4> QED BY Zenon, <1>9, <2>1, <2>2, <4>1, <4>2, <4>3
      <3>3. CASE CallbackEof(e)
        <4>1. lost[e] /\ lost' = lost /\ ThreadEnds(e)
          <5>1. eofs[e] # 0 /\ lost' = lost /\ ThreadEnds(e)
            BY SMTT(60), <3>3 DEF CallbackEof, Types
          <5> QED BY Zenon, <5>1 DEF Callbacks
        <4> QED BY Zenon, <3>2, <4>1
      <3> QED BY Zenon, <1>10, <3>1, <3>2, <3>3 DEF CallbackStep, CallbackFails
    <2> QED BY Zenon, <2>1, <2>2 DEF Contexts
  <1> QED BY Zenon, <1>1, <1>2, <1>3, <1>4, <1>5, <1>6, <1>7, <1>8, <1>10
          DEF Next, CallerStep, StageStep

-----------------------------------------------------------------------------
(* The theorems.                                                           *)

\* The invariant depends on these variables only.
LEMMA PipelineFrame ==
  ASSUME PipelineInv,
         UNCHANGED <<main, index, loop_count, iteration_, iteration_end, pc>>,
         UNCHANGED <<task, task_queue_, ctx, cb, eofs, lost, done>>
  PROVE  PipelineInv'
  <1>1. Types'
    BY Zenon DEF PipelineInv, Types
  <1>2. Control'
    BY Zenon DEF PipelineInv, Control
  <1>3. Progress'
    BY Zenon DEF PipelineInv, Progress
  <1>4. Ring'
    <2>1. CASE main \in {"push", "wait"}
      BY Zenon, <2>1, RingFrame DEF PipelineInv
    <2> QED BY Zenon, <2>1 DEF Ring
  <1>5. Callbacks' /\ Contexts'
    BY Zenon DEF PipelineInv, Callbacks, Contexts, Owner, Owns
  <1> QED BY Zenon, <1>1, <1>2, <1>3, <1>4, <1>5 DEF PipelineInv

LEMMA PipelineNext ==
  ASSUME PipelineInv, Next
  PROVE  PipelineInv'
  BY Zenon, TypesStep, ControlStep, ProgressStep, RingStep, CallbacksStep,
     ContextsStep DEF PipelineInv

\* The invariant of the ring of executors: where the tasks are, in which
\* order, and whose context an executor has (StageExecutor::Start with
\* HybridModelPipelineExecutor::Execute).
THEOREM PipelineInvariant == Spec => []PipelineInv
  <1>1. Init => PipelineInv
    BY Zenon, InitInv
  <1>2. PipelineInv /\ [Next]_pvars => PipelineInv'
    <2> SUFFICES ASSUME PipelineInv, [Next]_pvars PROVE PipelineInv'
      BY Zenon
    <2>1. CASE Next
      BY Zenon, <2>1, PipelineNext
    <2>2. CASE UNCHANGED pvars
      BY Zenon, <2>2, PipelineFrame DEF pvars, caller, contexts, history
    <2> QED BY Zenon, <2>1, <2>2
  <1> QED BY <1>1, <1>2, PTL DEF Spec

\* What Contexts means for an executor at work.
LEMMA OwnContext ==
  ASSUME PipelineInv
  PROVE  /\ \A e \in Executors : pc[e] \in {"run", "sync"} =>
              lost[e] \/ (cb[e] = "run" /\ ctx[e] = task[e].iteration)
         /\ \A e, f \in Executors :
              pc[e] \in {"run", "sync"} /\ pc[f] \in {"run", "sync"} /\ e # f
              => task[e].iteration # task[f].iteration
  <1>1. ASSUME NEW e \in Executors, pc[e] \in {"run", "sync"}
        PROVE  /\ main \in {"push", "wait"} /\ task[e] \in StageTask /\ task[e].stage \in Stages
               /\ task[e].iteration = done[task[e].stage] /\ e = Owner(task[e].iteration)
    <2>1. pc[e] \in Working
      BY Zenon, <1>1 DEF Working
    <2>2. main \in {"push", "wait"} /\ task[e] \in StageTask
      BY Zenon, <2>1, WorkingCall DEF PipelineInv, Control
    <2>3. task[e].stage \in Stages /\ task[e] # NoTask
      BY Zenon, <2>2, NoTaskFacts
    <2> QED BY Zenon, <2>2, <2>3 DEF PipelineInv, Ring, Located
  <1>2. ASSUME NEW e \in Executors, pc[e] \in {"run", "sync"}
        PROVE  Owns(e, task[e].iteration)
    <2> SUFFICES ASSUME NEW s, s = task[e].stage, NEW d, d = done[s], NEW l, l = NumStages - 1
                 PROVE  Owns(e, d)
      BY Zenon, <1>1, <1>2
    <2>1. main \in {"push", "wait"} /\ s \in Stages /\ task[e].iteration = d /\ e = Owner(d)
      BY Zenon, <1>1, <1>2
    <2>2. CASE s = 0
      BY ZenonT(60), <1>2, <2>1, <2>2 DEF PipelineInv, Contexts
    <2>3. CASE s # 0
      <3>1. s \in Nat /\ s - 1 \in Stages /\ 0 \in Stages /\ l \in Stages /\ l \in Nat /\ s <= l
        BY SMTT(60), <2>1, <2>3, Sizes, Neighbours
      <3>2. \A x \in Stages : done[x] \in Nat
        BY Zenon DEF PipelineInv, Types
      <3>3. Behind
        BY Zenon, <2>1 DEF PipelineInv, Ring
      <3>4. d < done[s - 1]
        <4>1. task[e] # NoTask
          BY Zenon, <1>1, <1>2, NoTaskFacts
        <4> QED BY SMTT(60), <2>3, <3>1, <3>3, <4>1 DEF Behind
      <3>5. done[s - 1] <= done[0]
        <4>1. CASE s - 1 = 0
          BY SMTT(60), <3>1, <3>2, <4>1
        <4>2. CASE s - 1 > 0
          BY Zenon, <3>1, <3>3, <4>2 DEF Behind
        <4> QED BY SMTT(60), <2>3, <3>1, <4>1, <4>2
      <3>6. done[l] <= d
        <4>1. CASE s = l
          BY SMTT(60), <2>1, <3>2, <4>1
        <4>2. CASE s < l
          BY Zenon, <2>1, <3>1, <3>3, <4>2 DEF Behind
        <4> QED BY SMTT(60), <3>1, <4>1, <4>2
      <3>7. d \in done[l] .. done[0] - 1
        <4>1. d \in Nat /\ done[l] \in Nat /\ done[0] \in Nat /\ done[s - 1] \in Nat
          BY Zenon, <2>1, <3>1, <3>2
        <4> QED BY SMTT(60), <3>4, <3>5, <3>6, <4>1
      <3> QED BY Zenon, <1>2, <2>1, <3>7 DEF PipelineInv, Contexts
    <2> QED BY Zenon, <2>2, <2>3
  <1>3. ASSUME NEW e \in Executors, NEW f \in Executors, e # f,
               pc[e] \in {"run", "sync"}, pc[f] \in {"run", "sync"}
        PROVE  task[e].iteration # task[f].iteration
    BY Zenon, <1>1, <1>3
  <1> QED BY Zenon, <1>2, <1>3 DEF Owns

-----------------------------------------------------------------------------
(* The pipeline implements StagePipeline.                                  *)

\* What StagePipeline's st is mapped to.
StageState ==
  [s \in Stages |->
     IF main = "start" THEN "idle"
     ELSE IF \E e \in Executors : task[e].stage = s /\ pc[e] \in {"run", "sync"} THEN "running"
     ELSE IF \E e \in Executors : task[e].stage = s /\ pc[e] \in {"failed", "unexpected"} THEN "failed"
     ELSE "idle"]

\* The state a task of stage s is in, with the executor at p.
Phase(t, p, s) ==
  IF t.stage = s /\ p \in {"run", "sync"} THEN "running"
  ELSE IF t.stage = s /\ p \in {"failed", "unexpected"} THEN "failed"
  ELSE "idle"

\* The other executors have the tasks of other stages.
LEMMA Alone ==
  ASSUME Types, Ring, main \in {"push", "wait"},
         NEW e \in Executors, NEW f \in Executors, e # f, task[e] \in StageTask
  PROVE  task[f].stage # task[e].stage
  <1>1. task[e].stage \in Stages /\ task[e] # NoTask
    BY Zenon, NoTaskFacts
  <1>2. CASE task[f] = NoTask
    BY Zenon, <1>1, <1>2, NoTaskFacts
  <1>3. CASE task[f] # NoTask
    BY SMTT(60), <1>1, <1>3 DEF Ring, Located
  <1> QED BY Zenon, <1>2, <1>3

\* A step of one executor changes the state of the stage it has the task of.
LEMMA OneStage ==
  ASSUME main \in {"push", "wait"}, main' \in {"push", "wait"},
         NEW e \in Executors, NEW s \in Stages,
         \A f \in Executors : f # e =>
            task'[f] = task[f] /\ pc'[f] = pc[f] /\ task[f].stage # s,
         task[e].stage \in {s, NumStages}, task'[e].stage \in {s, NumStages}
  PROVE  /\ StageState[s] = Phase(task[e], pc[e], s)
         /\ StageState' = [StageState EXCEPT ![s] = Phase(task'[e], pc'[e], s)]
  <1>1. StageState[s] = Phase(task[e], pc[e], s)
    BY Zenon DEF StageState, Phase
  <1>2. StageState'[s] = Phase(task'[e], pc'[e], s)
    BY Zenon DEF StageState, Phase
  <1>3. ASSUME NEW x \in Stages, x # s
        PROVE  StageState'[x] = StageState[x]
    <2>1. task[e].stage # x /\ task'[e].stage # x
      BY Zenon, <1>3, NoTaskFacts
    <2> QED BY Zenon, <2>1 DEF StageState
  <1>4. /\ StageState' = [x \in Stages |-> StageState'[x]]
        /\ DOMAIN StageState = Stages
    BY Zenon DEF StageState
  <1>5. [StageState EXCEPT ![s] = Phase(task'[e], pc'[e], s)] =
           [x \in Stages |-> IF x = s THEN Phase(task'[e], pc'[e], s) ELSE StageState[x]]
    BY Zenon, <1>4
  <1>6. \A x \in Stages :
           StageState'[x] = IF x = s THEN Phase(task'[e], pc'[e], s) ELSE StageState[x]
    BY Zenon, <1>2, <1>3
  <1> QED BY ZenonT(60), <1>1, <1>4, <1>5, <1>6

\* The steps of StagePipeline under the mapping.
LEMMA AbstractBegin ==
  ASSUME NEW s \in Stages, StageState[s] = "idle", s > 0 => done[s] < done[s - 1],
         StageState' = [StageState EXCEPT ![s] = "running"], done' = done
  PROVE  Pipeline!Next
  <1>1. Pipeline!Begin(s)
    BY Zenon DEF Pipeline!Begin, StageState
  <1>2. s \in Pipeline!Stages
    BY Zenon DEF Stages, Pipeline!Stages
  <1> QED BY Zenon, <1>1, <1>2 DEF Pipeline!Next

LEMMA AbstractEnd ==
  ASSUME NEW s \in Stages, StageState[s] = "running",
         StageState' = [StageState EXCEPT ![s] = "idle"], done' = [done EXCEPT ![s] = @ + 1]
  PROVE  Pipeline!Next
  <1>1. Pipeline!End(s)
    BY Zenon DEF Pipeline!End, StageState
  <1>2. s \in Pipeline!Stages
    BY Zenon DEF Stages, Pipeline!Stages
  <1> QED BY Zenon, <1>1, <1>2 DEF Pipeline!Next

LEMMA AbstractFail ==
  ASSUME NEW s \in Stages, StageState[s] # "failed",
         StageState' = [StageState EXCEPT ![s] = "failed"], done' = done
  PROVE  Pipeline!Next
  <1>1. Pipeline!Fail(s)
    BY Zenon DEF Pipeline!Fail, StageState
  <1>2. s \in Pipeline!Stages
    BY Zenon DEF Stages, Pipeline!Stages
  <1> QED BY Zenon, <1>1, <1>2 DEF Pipeline!Next

LEMMA AbstractBatch ==
  ASSUME \A s \in Stages : StageState[s] # "running" /\ done[s] <= iteration_,
         iteration_ \in Nat, done' = [s \in Stages |-> iteration_],
         StageState' = [s \in Stages |-> "idle"]
  PROVE  Pipeline!Next
  <1>1. Pipeline!Stages = Stages
    BY Zenon DEF Stages, Pipeline!Stages
  <1>2. done'[0] = iteration_
    BY Zenon, Sizes
  <1>3. Pipeline!NewBatch
    BY Zenon, <1>1, <1>2 DEF Pipeline!NewBatch, StageState
  <1> QED BY Zenon, <1>3 DEF Pipeline!Next

LEMMA AbstractStutter ==
  ASSUME StageState' = StageState, done' = done
  PROVE  UNCHANGED Pipeline!vars
  BY Zenon DEF Pipeline!vars, StageState

LEMMA RefineInit == Init => Pipeline!Init
  <1> SUFFICES ASSUME Init PROVE Pipeline!Init
    BY Zenon
  <1>1. Pipeline!Stages = Stages
    BY Zenon DEF Stages, Pipeline!Stages
  <1>2. \A s \in Stages : \A e \in Executors : task[e].stage # s
    BY Zenon, NoTaskFacts DEF Init
  <1>3. StageState = [s \in Stages |-> "idle"]
    BY Zenon, <1>2 DEF StageState
  <1> QED BY Zenon, <1>1, <1>3 DEF Pipeline!Init, StageState, Init

LEMMA RefineCaller ==
  ASSUME PipelineInv, PipelineInv', (\E k \in LoopCounts : Execute(k)) \/ CallerStep
  PROVE  Pipeline!Next \/ UNCHANGED Pipeline!vars
  <1>1. ASSUME NEW k \in LoopCounts, Execute(k)
        PROVE  Pipeline!Next \/ UNCHANGED Pipeline!vars
    <2>1. CASE k < 2
      <3>1. UNCHANGED <<main, task, pc, done>>
        BY Zenon, <1>1, <2>1 DEF Execute
      <3> QED BY ZenonT(60), <3>1, AbstractStutter DEF StageState
    <2>2. CASE ~(k < 2)
      <3>1. main = "idle" /\ main' = "start" /\ done' = [s \in Stages |-> iteration_]
        BY Zenon, <1>1, <2>2 DEF Execute
      <3>2. \A e \in Executors : pc[e] \notin {"run", "sync"}
        BY Zenon, <3>1 DEF PipelineInv, Control, Finished
      <3>3. \A s \in Stages : StageState[s] # "running"
        BY Zenon, <3>1, <3>2 DEF StageState
      <3>4. StageState' = [s \in Stages |-> "idle"]
        BY Zenon, <3>1 DEF StageState
      <3>5. iteration_ \in Nat /\ \A s \in Stages : done[s] <= iteration_
        BY Zenon, <3>1 DEF PipelineInv, Types, Progress
      <3> QED BY Zenon, <3>1, <3>3, <3>4, <3>5, AbstractBatch
    <2> QED BY Zenon, <2>1, <2>2
  <1>2. CASE StartExecutor
    <2>1. main = "start" /\ main' \in {"start", "push"} /\ done' = done
      BY Zenon, <1>2 DEF StartExecutor, history
    <2>2. StageState = [s \in Stages |-> "idle"]
      BY Zenon, <2>1 DEF StageState
    <2>3. CASE main' = "start"
      BY Zenon, <2>1, <2>2, <2>3, AbstractStutter DEF StageState
    <2>4. CASE main' = "push"
      <3>1. index' = 0
        BY Zenon, <1>2, <2>4 DEF StartExecutor
      <3>2. \A s \in Stages : ~Pushed(s)'
        BY SMTT(60), <2>4, <3>1, Sizes DEF Pushed
      <3>3. \A s \in Stages : \A e \in Executors : task'[e].stage # s
        BY Zenon, <2>4, <3>2 DEF PipelineInv, Ring, Present, Holds
      <3>4. StageState' = [s \in Stages |-> "idle"]
        BY Zenon, <2>4, <3>3 DEF StageState
      <3> QED BY ZenonT(60), <2>1, <2>2, <3>4, AbstractStutter
    <2> QED BY Zenon, <2>1, <2>3, <2>4
  <1>3. CASE PushTask \/ Wait \/ Return
    <2>1. main # "start" /\ main' # "start" /\ UNCHANGED <<task, pc, done>>
      BY Zenon, <1>3 DEF PushTask, Wait, Return, history
    <2> QED BY Zenon, <2>1, AbstractStutter DEF StageState
  <1> QED BY Zenon, <1>1, <1>2, <1>3 DEF CallerStep

\* The first task in the queue is taken: its stage begins, unless it is the
\* first stage, which begins when the context has been reset.
LEMMA RefinePop ==
  ASSUME PipelineInv, PipelineInv', NEW e \in Executors, Pop(e)
  PROVE  Pipeline!Next \/ UNCHANGED Pipeline!vars
  <1> SUFFICES ASSUME NEW s, s = task'[e].stage
               PROVE  Pipeline!Next \/ UNCHANGED Pipeline!vars
    BY Zenon
  <1>1. /\ pc[e] = "pop" /\ task_queue_[e] # <<>> /\ task_queue_[e] \in Seq(StageTask)
        /\ UNCHANGED <<main, done>>
    BY Zenon DEF Pop, PipelineInv, Types, caller, history
  <1>2. main \in {"push", "wait"} /\ task[e] = NoTask
    BY Zenon, <1>1, WorkingCall DEF PipelineInv, Control
  <1>3. task'[e] \in StageTask
    <2>1. Head(task_queue_[e]) \in StageTask
      BY Zenon, <1>1, TailFacts
    <2> QED BY Zenon, <2>1 DEF Pop, PipelineInv, Types
  <1>4. s \in Stages /\ task'[e] # NoTask
    BY Zenon, <1>3, NoTaskFacts
  <1>5. ASSUME NEW f \in Executors, f # e
        PROVE  task'[f] = task[f] /\ pc'[f] = pc[f] /\ task[f].stage # s
    <2>1. task'[f] = task[f] /\ pc'[f] = pc[f]
      BY Zenon, <1>5 DEF Pop, PipelineInv, Types
    <2>2. Located'
      BY Zenon, <1>1, <1>2 DEF PipelineInv, Ring
    <2>3. CASE task'[f] = NoTask
      BY Zenon, <1>4, <2>1, <2>3, NoTaskFacts
    <2>4. CASE task'[f] # NoTask
      BY SMTT(60), <1>4, <1>5, <2>1, <2>2, <2>4 DEF Located
    <2> QED BY Zenon, <2>1, <2>3, <2>4
  <1>6. task[e].stage = NumStages /\ NumStages # s
    BY Zenon, <1>2, <1>4, NoTaskFacts
  <1>7. /\ StageState[s] = Phase(task[e], pc[e], s)
        /\ StageState' = [StageState EXCEPT ![s] = Phase(task'[e], pc'[e], s)]
    BY ZenonT(60), <1>1, <1>2, <1>4, <1>5, <1>6, OneStage
  <1>8. StageState[s] = "idle"
    BY Zenon, <1>6, <1>7 DEF Phase
  <1>9. /\ pc'[e] \in {"unexpected", "reset", "run"}
    BY Zenon DEF Pop, PipelineInv, Types
  <1>10. CASE pc'[e] = "unexpected"
    <2>1. StageState' = [StageState EXCEPT ![s] = "failed"]
      BY Zenon, <1>7, <1>10 DEF Phase
    <2> QED BY Zenon, <1>1, <1>4, <1>8, <2>1, AbstractFail
  <1>11. CASE pc'[e] = "reset"
    <2>1. StageState' = [StageState EXCEPT ![s] = "idle"]
      BY Zenon, <1>7, <1>11 DEF Phase
    <2>2. StageState' = StageState
      BY ZenonT(60), <1>4, <1>8, <2>1 DEF StageState
    <2> QED BY Zenon, <1>1, <2>2, AbstractStutter
  <1>12. CASE pc'[e] = "run"
    <2>1. StageState' = [StageState EXCEPT ![s] = "running"]
      BY Zenon, <1>7, <1>12 DEF Phase
    <2>2. s > 0 => done[s] < done[s - 1]
      <3>1. Behind'
        BY Zenon, <1>1, <1>2 DEF PipelineInv, Ring
      <3> QED BY Zenon, <1>1, <1>4, <3>1 DEF Behind
    <2> QED BY Zenon, <1>1, <1>4, <1>8, <2>1, <2>2, AbstractBegin
  <1> QED BY Zenon, <1>9, <1>10, <1>11, <1>12

\* The steps of an executor that has a task in hand.
LEMMA RefineWork ==
  ASSUME PipelineInv, NEW e \in Executors,
         Reset(e) \/ Open(e) \/ PartialExecuteAsync(e) \/ Finish(e) \/ FailSync(e)
  PROVE  Pipeline!Next \/ UNCHANGED Pipeline!vars
  <1> SUFFICES ASSUME NEW s, s = task[e].stage
               PROVE  Pipeline!Next \/ UNCHANGED Pipeline!vars
    BY Zenon
  <1>1. pc[e] \in {"reset", "open", "run", "sync"} /\ main' = main
    BY Zenon DEF Reset, Open, PartialExecuteAsync, Finish, FailSync, caller
  <1>2. main \in {"push", "wait"} /\ task[e] \in StageTask
    BY Zenon, <1>1, WorkingCall DEF PipelineInv, Control, Working
  <1>3. s \in Stages /\ NumStages # s
    BY Zenon, <1>2, NoTaskFacts
  <1>4. ASSUME NEW f \in Executors, f # e
        PROVE  task'[f] = task[f] /\ pc'[f] = pc[f] /\ task[f].stage # s
    <2>1. task[f].stage # s
      BY Zenon, <1>2, <1>4, Alone DEF PipelineInv
    <2>2. /\ task' = task \/ task' = [task EXCEPT ![e] = NoTask]
          /\ \E v : pc' = [pc EXCEPT ![e] = v]
      BY Zenon DEF Reset, Open, PartialExecuteAsync, RegisterFails, ScheduleFails, Finish, FailSync
    <2>3. task'[f] = task[f] /\ pc'[f] = pc[f]
      BY Zenon, <1>4, <2>2 DEF PipelineInv, Types
    <2> QED BY Zenon, <2>1, <2>3
  <1>5. ASSUME task'[e].stage \in {s, NumStages}
        PROVE  /\ StageState[s] = Phase(task[e], pc[e], s)
               /\ StageState' = [StageState EXCEPT ![s] = Phase(task'[e], pc'[e], s)]
    BY ZenonT(60), <1>1, <1>2, <1>3, <1>4, <1>5, OneStage
  <1>6. ASSUME UNCHANGED <<task, done>>, pc'[e] = "failed"
        PROVE  Pipeline!Next
    <2>1. StageState[s] # "failed"
      BY Zenon, <1>1, <1>5, <1>6 DEF Phase
    <2>2. StageState' = [StageState EXCEPT ![s] = "failed"]
      BY Zenon, <1>5, <1>6 DEF Phase
    <2> QED BY Zenon, <1>3, <1>6, <2>1, <2>2, AbstractFail
  <1>7. ASSUME UNCHANGED <<task, done>>, Phase(task[e], pc[e], s) = Phase(task[e], pc'[e], s)
        PROVE  UNCHANGED Pipeline!vars
    <2>1. StageState' = StageState
      BY SMTT(60), <1>3, <1>5, <1>7 DEF StageState
    <2> QED BY Zenon, <1>7, <2>1, AbstractStutter
  <1>12. CASE Reset(e)
    <2>1. pc[e] = "reset" /\ UNCHANGED <<task, done>> /\ pc'[e] \in {"stuck", "open", "failed"}
      BY Zenon, <1>12 DEF Reset, history, PipelineInv, Types
    <2>2. CASE pc'[e] \in {"stuck", "open"}
      BY ZenonT(60), <1>7, <2>1, <2>2 DEF Phase
    <2> QED BY Zenon, <1>6, <2>1, <2>2
  <1>8. CASE Open(e)
    <2>1. pc[e] = "open" /\ UNCHANGED <<task, done>> /\ pc'[e] \in {"run", "failed"}
      BY Zenon, <1>8 DEF Open, history, PipelineInv, Types
    <2>3. CASE pc'[e] = "run"
      <3>1. s = 0
        BY Zenon, <2>1 DEF PipelineInv, Control
      <3>2. StageState[s] = "idle"
        BY Zenon, <1>5, <2>1 DEF Phase
      <3>3. StageState' = [StageState EXCEPT ![s] = "running"]
        BY Zenon, <1>5, <2>1, <2>3 DEF Phase
      <3>4. s > 0 => done[s] < done[s - 1]
        BY SMTT(60), <3>1
      <3>5. done' = done
        BY Zenon, <2>1
      <3> QED BY Zenon, <1>3, <3>2, <3>3, <3>4, <3>5, AbstractBegin
    <2> QED BY Zenon, <1>6, <2>1, <2>3
  <1>9. CASE PartialExecuteAsync(e)
    <2>1. pc[e] = "run" /\ UNCHANGED <<task, done>> /\ pc'[e] \in {"sync", "failed"}
      BY Zenon, <1>9
         DEF PartialExecuteAsync, RegisterFails, ScheduleFails, history, PipelineInv, Types
    <2>2. CASE pc'[e] = "sync"
      BY ZenonT(60), <1>7, <2>1, <2>2 DEF Phase
    <2> QED BY Zenon, <1>6, <2>1, <2>2
  <1>10. CASE Finish(e)
    <2>1. /\ pc[e] = "sync" /\ task'[e] = NoTask
          /\ done' = [done EXCEPT ![s] = @ + 1]
      BY Zenon, <1>10 DEF Finish, PipelineInv, Types
    <2>2. task'[e].stage = NumStages
      BY ZenonT(60), <2>1, NoTaskFacts
    <2>3. StageState[s] = "running"
      BY Zenon, <1>5, <2>1, <2>2 DEF Phase
    <2>4. StageState' = [StageState EXCEPT ![s] = "idle"]
      BY Zenon, <1>3, <1>5, <2>2 DEF Phase
    <2> QED BY Zenon, <1>3, <2>1, <2>3, <2>4, AbstractEnd
  <1>11. CASE FailSync(e)
    <2>1. UNCHANGED <<task, done>> /\ pc'[e] = "failed"
      BY Zenon, <1>11 DEF FailSync, history, PipelineInv, Types
    <2> QED BY Zenon, <1>6, <2>1
  <1> QED BY Zenon, <1>8, <1>9, <1>10, <1>11, <1>12

\* The callback threads: a stage that waits for its reset goes on waiting.
LEMMA RefineCallback ==
  ASSUME PipelineInv, NEW e \in Executors, CallbackStep(e)
  PROVE  UNCHANGED Pipeline!vars
  <1>1. UNCHANGED <<main, task, done>>
    BY Zenon DEF CallbackStep, CallbackEof, CallbackFails, caller, history
  <1>2. ASSUME NEW f \in Executors
        PROVE  /\ pc'[f] \in {"run", "sync"} <=> pc[f] \in {"run", "sync"}
               /\ pc'[f] \in {"failed", "unexpected"} <=> pc[f] \in {"failed", "unexpected"}
    <2>1. CASE pc' = pc
      BY Zenon, <2>1
    <2>2. CASE pc' # pc
      BY Zenon, <2>2, CallbackControl DEF PipelineInv
    <2> QED BY Zenon, <2>1, <2>2
  <1>3. StageState' = StageState
    BY Zenon, <1>1, <1>2 DEF StageState
  <1> QED BY Zenon, <1>1, <1>3, AbstractStutter

\* The ring of executors keeps the promise of StagePipeline, for any numbers
\* of stages, executors and iterations and whatever fails: every stage takes
\* the iterations in order and each once, after the stage before it
\* (HybridModelPipelineExecutor::Execute with StageExecutor::Start).
THEOREM ImplementsStagePipeline == Spec => PipelineSpec
  <1>1. PipelineInv /\ PipelineInv' /\ [Next]_pvars => [Pipeline!Next]_Pipeline!vars
    <2> SUFFICES ASSUME PipelineInv, PipelineInv', [Next]_pvars
                 PROVE  Pipeline!Next \/ UNCHANGED Pipeline!vars
      BY Zenon
    <2>1. CASE UNCHANGED pvars
      BY Zenon, <2>1 DEF pvars, caller, history, Pipeline!vars
    <2>2. CASE (\E k \in LoopCounts : Execute(k)) \/ CallerStep
      BY Zenon, <2>2, RefineCaller
    <2>3. ASSUME NEW e \in Executors, StageStep(e)
          PROVE  Pipeline!Next \/ UNCHANGED Pipeline!vars
      BY Zenon, <2>3, RefinePop, RefineWork DEF StageStep
    <2>4. ASSUME NEW e \in Executors, CallbackStep(e)
          PROVE  UNCHANGED Pipeline!vars
      BY Zenon, <2>4, RefineCallback
    <2> QED BY Zenon, <2>1, <2>2, <2>3, <2>4 DEF Next
  <1> QED BY <1>1, RefineInit, PipelineInvariant, PTL DEF Spec, PipelineSpec, Pipeline!Spec

=============================================================================
