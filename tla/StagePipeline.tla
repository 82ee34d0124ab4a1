---------------------------- MODULE StagePipeline ----------------------------
(***************************************************************************)
(* What a pipeline of stages promises, whoever runs it: in a batch, every  *)
(* stage takes the iterations in order, one at a time and each of them     *)
(* once, and takes an iteration only after the stage before it is done     *)
(* with that iteration.  A stage that fails is not run again in the batch. *)
(***************************************************************************)
EXTENDS Integers

CONSTANT NumStages      \* how many stages a graph has been divided into

Stages == 0 .. NumStages - 1

VARIABLES
  next,   \* stage -> the iteration it takes next
  st      \* stage -> "idle", "running" or "failed"

vars == <<next, st>>

TypeOK == next \in [Stages -> Nat] /\ st \in [Stages -> {"idle", "running", "failed"}]

Init == next = [s \in Stages |-> 0] /\ st = [s \in Stages |-> "idle"]

\* A new batch begins at an iteration that no stage has taken yet.
NewBatch ==
  /\ \A s \in Stages : st[s] # "running"
  /\ next'[0] \in Nat
  /\ \A s \in Stages : next[s] <= next'[0]
  /\ next' = [s \in Stages |-> next'[0]]
  /\ st' = [s \in Stages |-> "idle"]

Begin(s) ==
  /\ st[s] = "idle"
  /\ s > 0 => next[s] < next[s - 1]
  /\ st' = [st EXCEPT ![s] = "running"]
  /\ UNCHANGED next

End(s) ==
  /\ st[s] = "running"
  /\ st' = [st EXCEPT ![s] = "idle"]
  /\ next' = [next EXCEPT ![s] = @ + 1]

\* Also a stage that was never entered may be given up.
Fail(s) ==
  /\ st[s] # "failed"
  /\ st' = [st EXCEPT ![s] = "failed"]
  /\ UNCHANGED next

Next == NewBatch \/ \E s \in Stages : Begin(s) \/ End(s) \/ Fail(s)

Spec == Init /\ [][Next]_vars

=============================================================================
