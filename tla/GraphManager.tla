---------------------------- MODULE GraphManager ----------------------------
(***************************************************************************)
(* GraphManager (ge/graph/manager/graph_manager.cc) of one session: the    *)
(* map of graphs, the two threads that prepare and run asynchronous        *)
(* requests, the synchronous RunGraph and BuildGraph callers, RemoveGraph, *)
(* Finalize, and the model threads (DavinciModel::Run) that compute and    *)
(* report through the listener of the model.                               *)
(*                                                                         *)
(* A GraphNode outlives its entry in graph_map_ (it is a shared pointer),  *)
(* so nodes and graph ids are distinct sets.  A step of a thread is the    *)
(* code between two points where another thread can see or disturb it.     *)
(*                                                                         *)
(* A definition named Bad... is the definition after it with a mistake a   *)
(* programmer could make; it is no part of the specification and serves to *)
(* show that a property notices the mistake.                               *)
(***************************************************************************)
EXTENDS Naturals, Sequences, FiniteSets

CONSTANTS GraphIds,     \* graph ids the callers use
          Nodes,        \* GraphNode objects that may ever be created
          Requests,     \* RunGraphAsync calls, each with its own callback
          QueueCap,     \* capacity of prerun_args_q_ and of run_args_q_
          Ops,          \* the caller operations that are used
          Events,       \* the failures and environment events that may occur
          AnalyzeMode,  \* Analyzer::IsEnableNetAnalyzeDebug()
          NoNode, NoReq, NoGraph, SyncData

AllOps == {"remove", "run", "build", "finalize"}
AllEvents == {"params", "prerun", "cachehit", "varchange", "parse", "memshort",
              "load", "execute", "rt", "devreset", "compute", "nodone",
              "spurious"}

ASSUME ConstAssumption ==
  /\ QueueCap \in Nat \ {0}
  /\ Ops \subseteq AllOps
  /\ Events \subseteq AllEvents
  /\ AnalyzeMode \in BOOLEAN
  /\ NoNode \notin Nodes
  /\ NoReq \notin Requests
  /\ NoGraph \notin GraphIds
  /\ SyncData \notin Requests
  /\ SyncData # NoReq

\* prerun and run are prerun_thread_ and run_thread_; runner is the caller of
\* RunGraph (one at a time, under run_mutex_), builder a caller of BuildGraph,
\* remover the caller of RemoveGraph and final the caller of Finalize.
Threads == {"prerun", "run", "runner", "builder", "remover", "final"}
SyncCallers == {"runner", "builder"}
Loaders == {"run", "runner", "builder"}

VARIABLES
  graph_map_,       \* graph id -> GraphNode
  gid,              \* graph_id_ of each GraphNode (NoGraph: not created yet)
  run_flag_, build_flag_, load_flag_, async_,   \* flags of each GraphNode
  root_model,       \* GetGeRootModel() != nullptr
  sem_,             \* GraphNode::sem_ holds its token: the node is locked
  cb_sem,           \* RunAsyncListener::sem_ holds its token
  callback_,        \* RunAsyncListener::callback_
  thread_run_flag_, \* cleared by StopQueue, which also stops both queues
  prerun_args_q_, run_args_q_,
  pc, cur, req,     \* where each thread is, its graph_node and its request
  arg_model,        \* the ge_root_model of the request a thread carries is not
                    \* null
  building,         \* StartForRunGraph is on its build branch
  todo,             \* loops over the graph map: <<n, FALSE>> is still to be
                    \* visited, <<n, TRUE>> has been unloaded only
  graph_ids_to_var_names_, graph_ids_need_rebuild_, var_changed,
  before,           \* history: the nodes built and the requests accepted when
                    \* the variable changed format
  loaded,           \* ModelManager: listener of the loaded model, or "none"
  data,             \* DataInputer queue of the loaded model
  exec, epc,        \* what the model thread is working on, and its step;
                    \* "gone": it has ended though the model is loaded
  is_finished_,     \* GraphModelListener of the synchronous path
  dropped,          \* history: data that a model took, or had queued, and
                    \* that no listener will ever hear of
  misflagged,       \* history: nodes whose load or unload ended with an error
                    \* that left the load flag wrong
  rgraph, cb, cb_ok,\* graph of an accepted request; calls of its callback;
                    \* whether one of them reported SUCCESS
  accepted, computed \* the requests in order of acceptance and of completion

nodeVars == <<graph_map_, gid, run_flag_, build_flag_, load_flag_, async_,
              root_model, sem_>>
listenerVars == <<cb_sem, callback_>>
queueVars == <<thread_run_flag_, prerun_args_q_, run_args_q_>>
threadVars == <<pc, cur, req, arg_model, building, todo>>
ctrlVars == <<graph_ids_to_var_names_, graph_ids_need_rebuild_, var_changed,
              before>>
modelVars == <<loaded, data, exec, epc, is_finished_, dropped, misflagged>>
histVars == <<rgraph, cb, cb_ok, accepted, computed>>
vars == <<nodeVars, listenerVars, queueVars, threadVars, ctrlVars, modelVars,
          histVars>>

Init ==
  /\ graph_map_ = [g \in GraphIds |-> NoNode]
  /\ gid = [n \in Nodes |-> NoGraph]
  /\ run_flag_ = [n \in Nodes |-> FALSE]
  /\ build_flag_ = [n \in Nodes |-> FALSE]
  /\ load_flag_ = [n \in Nodes |-> FALSE]
  /\ async_ = [n \in Nodes |-> FALSE]
  /\ root_model = [n \in Nodes |-> FALSE]
  /\ sem_ = [n \in Nodes |-> FALSE]
  /\ cb_sem = [n \in Nodes |-> FALSE]
  /\ callback_ = [n \in Nodes |-> NoReq]
  /\ thread_run_flag_ = TRUE
  /\ prerun_args_q_ = <<>>
  /\ run_args_q_ = <<>>
  /\ pc = [t \in Threads |-> IF t \in {"prerun", "run"} THEN "pop" ELSE "idle"]
  /\ cur = [t \in Threads |-> NoNode]
  /\ req = [t \in Threads |-> NoReq]
  /\ arg_model = [t \in Threads |-> FALSE]
  /\ building = [t \in Threads |-> FALSE]
  /\ todo = [t \in Threads |-> {}]
  /\ graph_ids_to_var_names_ = {}
  /\ graph_ids_need_rebuild_ = {}
  /\ var_changed = FALSE
  /\ before = {}
  /\ loaded = [n \in Nodes |-> "none"]
  /\ data = [n \in Nodes |-> <<>>]
  /\ exec = [n \in Nodes |-> NoReq]
  /\ epc = [n \in Nodes |-> "run"]
  /\ is_finished_ = FALSE
  /\ dropped = {}
  /\ misflagged = {}
  /\ rgraph = [r \in Requests |-> NoGraph]
  /\ cb = [r \in Requests |-> 0]
  /\ cb_ok = [r \in Requests |-> FALSE]
  /\ accepted = <<>>
  /\ computed = <<>>

(***************************************************************************)
(* Pieces shared by the operations.                                        *)
(***************************************************************************)
Goto(t, l) == pc' = [pc EXCEPT ![t] = l]

\* The error paths report SUCCESS.
BadCallBack(r, ok) ==
  /\ cb' = [cb EXCEPT ![r] = IF cb[r] < 2 THEN cb[r] + 1 ELSE cb[r]]
  /\ cb_ok' = [cb_ok EXCEPT ![r] = TRUE]

\* callback(ret, outputs); MaxCb caps the count of a callback's calls.
MaxCb == 2
CallBack(r, ok) ==
  /\ cb' = [cb EXCEPT ![r] = IF cb[r] < MaxCb THEN cb[r] + 1 ELSE cb[r]]
  /\ cb_ok' = [cb_ok EXCEPT ![r] = cb_ok[r] \/ ok]

StopQueue == thread_run_flag_' = FALSE

\* GraphNode::Lock does not wait.
BadLock(n) == sem_' = [sem_ EXCEPT ![n] = TRUE]

Lock(n) == ~sem_[n] /\ sem_' = [sem_ EXCEPT ![n] = TRUE]
Unlock(n) == sem_' = [sem_ EXCEPT ![n] = FALSE]
SetRunFlag(n, v) == run_flag_' = [run_flag_ EXCEPT ![n] = v]

\* ReturnError(graph_manager, callback, ret, log), Unlock and return from the
\* thread function: the way both threads leave on an error.
ReturnError(t, ok) ==
  /\ StopQueue
  /\ CallBack(req[t], ok)
  /\ Unlock(cur[t])
  /\ Goto(t, "exit")
  /\ UNCHANGED <<prerun_args_q_, run_args_q_, rgraph, accepted, computed>>

\* SetCallback overwrites the callback without waiting for the answer.
BadSetCallback(n, r) ==
  /\ cb_sem' = [cb_sem EXCEPT ![n] = TRUE]
  /\ callback_' = [callback_ EXCEPT ![n] = r]

\* RunAsyncListener::SetCallback waits until the callback before this one has
\* been answered.
SetCallback(n, r) ==
  /\ ~cb_sem[n]
  /\ cb_sem' = [cb_sem EXCEPT ![n] = TRUE]
  /\ callback_' = [callback_ EXCEPT ![n] = r]

\* Only the build flag is looked at.
BadIsGraphNeedBuild(n) == ~build_flag_[n]

IsGraphNeedBuild(n) == ~build_flag_[n] \/ gid[n] \in graph_ids_need_rebuild_

\* VariableOpPass changes the format of the variable at most once
\* (kMaxVarChangeTimes_) and every known graph that uses it must be rebuilt.
SetVarChanged ==
  /\ ~var_changed
  /\ var_changed' = TRUE
  /\ graph_ids_need_rebuild_' =
       graph_ids_need_rebuild_ \cup graph_ids_to_var_names_
  /\ before' = {n \in Nodes : build_flag_[n]}
                  \cup {r \in Requests : rgraph[r] # NoGraph}

\* InnerSession::resource_mutex_, held by AddGraph, RemoveGraph and Finalize.
ResourceMutexFree == pc["remover"] = "idle" /\ pc["final"] = "idle"

UnloadMutexFree == \A t \in Threads : pc[t] \notin {"release", "unload"}

GraphMapNodes ==
  {n \in Nodes : \E g \in GraphIds : graph_map_[g] = n} \X {FALSE}

\* What the DataInputer of a model holds.
Queued(n) == {data[n][i] : i \in DOMAIN data[n]}

\* The thread of a model is joined once it has finished the data it has taken;
\* what is still queued is thrown away with the model.
EndModel(n) ==
  /\ exec[n] = NoReq
  /\ data' = [data EXCEPT ![n] = <<>>]
  /\ dropped' = dropped \cup Queued(n)
  /\ UNCHANGED <<exec, is_finished_>>

\* GraphLoader::UnloadModel: Stop and Unload.
UnloadModel(n) ==
  /\ EndModel(n)
  /\ loaded' = [loaded EXCEPT ![n] = "none"]
  /\ epc' = [epc EXCEPT ![n] = "run"]

(***************************************************************************)
(* AddGraph, AddGraphWithCopy and RunGraphAsync.                           *)
(***************************************************************************)
\* The node enters graph_map_ before the options are accepted: when they are
\* refused it stays there, unknown to the variable control.
AddGraph(g, n) ==
  /\ ResourceMutexFree
  /\ graph_map_[g] = NoNode
  /\ gid[n] = NoGraph
  /\ graph_map_' = [graph_map_ EXCEPT ![g] = n]
  /\ gid' = [gid EXCEPT ![n] = g]
  /\ \/ graph_ids_to_var_names_' = graph_ids_to_var_names_ \cup {g}
     \/ "params" \in Events /\ UNCHANGED graph_ids_to_var_names_
  /\ UNCHANGED <<run_flag_, build_flag_, load_flag_, async_, root_model, sem_,
                 listenerVars, queueVars, threadVars, graph_ids_need_rebuild_,
                 var_changed, before, modelVars, histVars>>

\* A request is put in front of those that wait.
BadRunGraphAsync(r, g) ==
  /\ rgraph[r] = NoGraph
  /\ thread_run_flag_
  /\ Len(prerun_args_q_) < QueueCap
  /\ prerun_args_q_' = <<r>> \o prerun_args_q_
  /\ rgraph' = [rgraph EXCEPT ![r] = g]
  /\ accepted' = Append(accepted, r)
  /\ UNCHANGED <<nodeVars, listenerVars, thread_run_flag_, run_args_q_,
                 threadVars, ctrlVars, modelVars, cb, cb_ok, computed>>

\* A stopped queue refuses the request (FAILED): nothing changes then.
RunGraphAsync(r, g) ==
  /\ rgraph[r] = NoGraph
  /\ thread_run_flag_
  /\ Len(prerun_args_q_) < QueueCap
  /\ prerun_args_q_' = Append(prerun_args_q_, r)
  /\ rgraph' = [rgraph EXCEPT ![r] = g]
  /\ accepted' = Append(accepted, r)
  /\ UNCHANGED <<nodeVars, listenerVars, thread_run_flag_, run_args_q_,
                 threadVars, ctrlVars, modelVars, cb, cb_ok, computed>>

(***************************************************************************)
(* PreRunThread.                                                           *)
(***************************************************************************)
PreRunPop ==
  /\ pc["prerun"] = "pop"
  /\ thread_run_flag_
  /\ prerun_args_q_ # <<>>
  /\ req' = [req EXCEPT !["prerun"] = Head(prerun_args_q_)]
  /\ prerun_args_q_' = Tail(prerun_args_q_)
  /\ Goto("prerun", "find")
  /\ UNCHANGED <<nodeVars, listenerVars, thread_run_flag_, run_args_q_, cur,
                 arg_model, building, todo, ctrlVars, modelVars, histVars>>

\* A stopped queue makes Pop fail and the loop condition ends the thread.
ThreadExit(t) ==
  /\ pc[t] = "pop"
  /\ ~thread_run_flag_
  /\ Goto(t, "exit")
  /\ UNCHANGED <<nodeVars, listenerVars, queueVars, cur, req, arg_model,
                 building, todo, ctrlVars, modelVars, histVars>>

\* A request for an unknown graph is skipped.
BadPreRunFind ==
  LET n == graph_map_[rgraph[req["prerun"]]] IN
  /\ pc["prerun"] = "find"
  /\ \/ n = NoNode /\ Goto("prerun", "pop") /\ UNCHANGED cur
     \/ /\ n # NoNode
        /\ cur' = [cur EXCEPT !["prerun"] = n]
        /\ Goto("prerun", "lock")
  /\ UNCHANGED <<nodeVars, listenerVars, queueVars, req, arg_model, building,
                 todo, ctrlVars, modelVars, histVars>>

PreRunFind ==
  LET r == req["prerun"]
      n == graph_map_[rgraph[r]] IN
  /\ pc["prerun"] = "find"
  /\ \/ /\ n = NoNode
        /\ StopQueue
        /\ CallBack(r, FALSE)
        /\ Goto("prerun", "exit")
        /\ UNCHANGED cur
     \/ /\ n # NoNode
        /\ cur' = [cur EXCEPT !["prerun"] = n]
        /\ Goto("prerun", "lock")
        /\ UNCHANGED <<thread_run_flag_, cb, cb_ok>>
  /\ UNCHANGED <<nodeVars, listenerVars, prerun_args_q_, run_args_q_, req,
                 arg_model, building, todo, ctrlVars, modelVars, rgraph,
                 accepted, computed>>

PreRunLock ==
  /\ pc["prerun"] = "lock"
  /\ Lock(cur["prerun"])
  /\ Goto("prerun", "check")
  /\ UNCHANGED <<graph_map_, gid, run_flag_, build_flag_, load_flag_, async_,
                 root_model, listenerVars, queueVars, cur, req, arg_model,
                 building, todo, ctrlVars, modelVars, histVars>>

PreRunCheck ==
  /\ pc["prerun"] = "check"
  /\ \/ run_flag_[cur["prerun"]] /\ ReturnError("prerun", FALSE)
     \/ /\ ~run_flag_[cur["prerun"]]
        /\ Goto("prerun", "set")
        /\ UNCHANGED <<sem_, queueVars, histVars>>
  /\ UNCHANGED <<graph_map_, gid, run_flag_, build_flag_, load_flag_, async_,
                 root_model, listenerVars, cur, req, arg_model, building,
                 todo, ctrlVars, modelVars>>

\* SetRunFlag(true), then either the stored model or a build.  A graph whose
\* variable changed format is refused, with its run flag left set.
PreRunSet ==
  LET n == cur["prerun"] IN
  /\ pc["prerun"] = "set"
  /\ SetRunFlag(n, TRUE)
  /\ \/ /\ IsGraphNeedBuild(n) /\ build_flag_[n]
        /\ ReturnError("prerun", FALSE)
        /\ UNCHANGED arg_model
     \/ /\ IsGraphNeedBuild(n) /\ ~build_flag_[n]
        /\ Goto("prerun", "build")
        /\ UNCHANGED <<sem_, queueVars, histVars, arg_model>>
     \/ /\ ~IsGraphNeedBuild(n)
        /\ arg_model' = [arg_model EXCEPT !["prerun"] = root_model[n]]
        /\ Goto("prerun", "push")
        /\ UNCHANGED <<sem_, queueVars, histVars>>
  /\ UNCHANGED <<graph_map_, gid, build_flag_, load_flag_, async_, root_model,
                 listenerVars, cur, req, building, todo, ctrlVars, modelVars>>

\* A model-cache hit (IncreBuild) leaves ge_root_model null; PreRun sets it.
PreRunBuilt(hit) ==
  LET n == cur["prerun"] IN
  /\ pc["prerun"] = "build"
  /\ hit => "cachehit" \in Events
  /\ build_flag_' = [build_flag_ EXCEPT ![n] = TRUE]
  /\ root_model' = [root_model EXCEPT ![n] = root_model[n] \/ ~hit]
  /\ arg_model' = [arg_model EXCEPT !["prerun"] = ~hit]
  /\ graph_ids_need_rebuild_' = graph_ids_need_rebuild_ \ {gid[n]}
  /\ Goto("prerun", "push")
  /\ UNCHANGED <<graph_map_, gid, run_flag_, load_flag_, async_, sem_,
                 listenerVars, queueVars, cur, req, building, todo,
                 graph_ids_to_var_names_, var_changed, before, modelVars,
                 histVars>>

\* PreRun failed.  Outside analyze mode the queues are stopped and the thread
\* ends; in analyze mode the callback gets made-up outputs and SUCCESS, or
\* GRAPH_FAILED, and the thread goes on.
PreRunFailed ==
  LET n == cur["prerun"] IN
  /\ pc["prerun"] = "build"
  /\ "prerun" \in Events
  /\ SetRunFlag(n, FALSE)
  /\ \/ ~AnalyzeMode /\ ReturnError("prerun", FALSE)
     \/ /\ AnalyzeMode
        /\ \E ok \in BOOLEAN : CallBack(req["prerun"], ok)
        /\ Unlock(n)
        /\ Goto("prerun", "pop")
        /\ UNCHANGED <<queueVars, rgraph, accepted, computed>>
  /\ UNCHANGED <<graph_map_, gid, build_flag_, load_flag_, async_, root_model,
                 listenerVars, cur, req, arg_model, building, todo, ctrlVars,
                 modelVars>>

\* run_args_q_.Push: its result is ignored, so a request that meets a stopped
\* queue is dropped with the lock and the run flag of its node still taken.
PreRunPush ==
  LET t == "prerun" IN
  /\ pc[t] = "push"
  /\ \/ ~thread_run_flag_ /\ UNCHANGED run_args_q_
     \/ /\ thread_run_flag_
        /\ Len(run_args_q_) < QueueCap
        /\ run_args_q_' = Append(run_args_q_,
             [req |-> req[t], node |-> cur[t], model |-> arg_model[t]])
  /\ Goto(t, "pop")
  /\ UNCHANGED <<nodeVars, listenerVars, thread_run_flag_, prerun_args_q_, cur,
                 req, arg_model, building, todo, ctrlVars, modelVars, histVars>>

\* VariableOpPass, inside PreRun, changes the format of the variable.
VarChange(t) ==
  /\ pc[t] = "build"
  /\ "varchange" \in Events
  /\ SetVarChanged
  /\ UNCHANGED <<nodeVars, listenerVars, queueVars, threadVars,
                 graph_ids_to_var_names_, modelVars, histVars>>

(***************************************************************************)
(* RunThread.                                                              *)
(***************************************************************************)
RunPop ==
  LET a == Head(run_args_q_) IN
  /\ pc["run"] = "pop"
  /\ thread_run_flag_
  /\ run_args_q_ # <<>>
  /\ run_args_q_' = Tail(run_args_q_)
  /\ req' = [req EXCEPT !["run"] = a.req]
  /\ cur' = [cur EXCEPT !["run"] = a.node]
  /\ arg_model' = [arg_model EXCEPT !["run"] = a.model]
  /\ Goto("run", "setcb")
  /\ UNCHANGED <<nodeVars, listenerVars, thread_run_flag_, prerun_args_q_,
                 building, todo, ctrlVars, modelVars, histVars>>

RunSetCallback ==
  /\ pc["run"] = "setcb"
  /\ SetCallback(cur["run"], req["run"])
  /\ Goto("run", "parse")
  /\ UNCHANGED <<nodeVars, queueVars, cur, req, arg_model, building, todo,
                 ctrlVars, modelVars, histVars>>

\* ParseInputsDims, then the load flag.  With a null model LoadGraphAsync does
\* nothing and returns SUCCESS, which is the code the callback is given.
RunParse ==
  LET n == cur["run"] IN
  /\ pc["run"] = "parse"
  /\ \/ "parse" \in Events /\ ReturnError("run", FALSE)
     \/ /\ ~load_flag_[n] /\ ~arg_model["run"]
        /\ ReturnError("run", TRUE)
     \/ /\ load_flag_[n] \/ arg_model["run"]
        /\ Goto("run", IF load_flag_[n] THEN "execute" ELSE "mem")
        /\ UNCHANGED <<sem_, queueVars, histVars>>
  /\ UNCHANGED <<graph_map_, gid, run_flag_, build_flag_, load_flag_, async_,
                 root_model, listenerVars, cur, req, arg_model, building,
                 todo, ctrlVars, modelVars>>

\* ExecuteGraphAsync gives the data to the model; the run flag is cleared
\* afterwards, whatever it returns.
RunExecute ==
  LET n == cur["run"] IN
  /\ pc["run"] = "execute"
  /\ \/ /\ loaded[n] = "none" \/ "execute" \in Events
        /\ SetRunFlag(n, FALSE)
        /\ ReturnError("run", FALSE)
        /\ UNCHANGED data
     \/ /\ loaded[n] # "none"
        /\ data' = [data EXCEPT ![n] = Append(data[n], req["run"])]
        /\ Goto("run", "clear")
        /\ UNCHANGED <<sem_, run_flag_, queueVars, histVars>>
  /\ UNCHANGED <<graph_map_, gid, build_flag_, load_flag_, async_, root_model,
                 listenerVars, cur, req, arg_model, building, todo, ctrlVars,
                 loaded, exec, epc, is_finished_, dropped, misflagged>>

RunClearFlag ==
  /\ pc["run"] = "clear"
  /\ SetRunFlag(cur["run"], FALSE)
  /\ Goto("run", "unlock")
  /\ UNCHANGED <<graph_map_, gid, sem_, build_flag_, load_flag_, async_,
                 root_model, listenerVars, queueVars, cur, req, arg_model,
                 building, todo, ctrlVars, modelVars, histVars>>

\* The node stays locked.
BadRunUnlock ==
  /\ pc["run"] = "unlock"
  /\ Goto("run", "pop")
  /\ UNCHANGED <<nodeVars, listenerVars, queueVars, cur, req, arg_model,
                 building, todo, ctrlVars, modelVars, histVars>>

RunUnlock ==
  /\ pc["run"] = "unlock"
  /\ Unlock(cur["run"])
  /\ Goto("run", "pop")
  /\ UNCHANGED <<graph_map_, gid, run_flag_, build_flag_, load_flag_, async_,
                 root_model, listenerVars, queueVars, cur, req, arg_model,
                 building, todo, ctrlVars, modelVars, histVars>>

(***************************************************************************)
(* LoadGraph and LoadGraphAsync, with CheckAndReleaseMemory.               *)
(***************************************************************************)
\* How a loader leaves when CheckAndReleaseMemory or LoadModelOnline fails:
\* RunThread stops everything, RunGraph and BuildGraph return the error.
LoaderFails(t) ==
  \/ t = "run" /\ ReturnError(t, FALSE)
  \/ t # "run" /\ Goto(t, "idle") /\ UNCHANGED <<sem_, queueVars, histVars>>

MemEnough(t) ==
  /\ pc[t] = "mem"
  /\ Goto(t, "load")
  /\ UNCHANGED <<nodeVars, listenerVars, queueVars, cur, req, arg_model,
                 building, todo, ctrlVars, modelVars, histVars>>

\* GetMemoryInfo fails.  RunThread's error path does not clear the run flag.
MemInfoFails(t) ==
  LET n == cur[t] IN
  /\ pc[t] = "mem"
  /\ "rt" \in Events
  /\ IF t = "run" THEN UNCHANGED run_flag_ ELSE SetRunFlag(n, FALSE)
  /\ LoaderFails(t)
  /\ UNCHANGED <<graph_map_, gid, build_flag_, load_flag_, async_, root_model,
                 listenerVars, cur, req, arg_model, building, todo, ctrlVars,
                 modelVars>>

\* Not enough memory: copy the graph map under unload_model_mutex_.
MemShort(t) ==
  /\ pc[t] = "mem"
  /\ "memshort" \in Events
  /\ UnloadMutexFree
  /\ todo' = [todo EXCEPT ![t] = GraphMapNodes]
  /\ Goto(t, "release")
  /\ UNCHANGED <<nodeVars, listenerVars, queueVars, cur, req, arg_model,
                 building, ctrlVars, modelVars, histVars>>

Releasable(n) == root_model[n] /\ load_flag_[n] /\ loaded[n] # "none"

\* The load flag of the model that is unloaded is left set.
BadRelease(t, n) ==
  /\ pc[t] = "release"
  /\ <<n, FALSE>> \in todo[t]
  /\ todo' = [todo EXCEPT ![t] = todo[t] \ {<<n, FALSE>>}]
  /\ \/ ~Releasable(n) /\ UNCHANGED modelVars
     \/ Releasable(n) /\ UnloadModel(n) /\ UNCHANGED misflagged
  /\ UNCHANGED <<nodeVars, listenerVars, queueVars, pc, cur, req, arg_model,
                 building, ctrlVars, histVars>>

\* One turn of the loop over the copied map.  When rtSetDevice fails the model
\* stays.
Release(t, n) ==
  LET rest == todo[t] \ {<<n, FALSE>>} IN
  /\ pc[t] = "release"
  /\ <<n, FALSE>> \in todo[t]
  /\ \A m \in Nodes : <<m, TRUE>> \notin todo[t]
  /\ \/ /\ ~Releasable(n) \/ "rt" \in Events
        /\ todo' = [todo EXCEPT ![t] = rest]
        /\ UNCHANGED modelVars
     \/ /\ Releasable(n)
        /\ UnloadModel(n) /\ UNCHANGED misflagged
        /\ todo' = [todo EXCEPT ![t] = rest \cup {<<n, TRUE>>}]
  /\ UNCHANGED <<nodeVars, listenerVars, queueVars, pc, cur, req, arg_model,
                 building, ctrlVars, histVars>>

\* SetLoadFlag(false) after the model is gone; not when rtDeviceReset fails.
ClearLoadFlag(t, n) ==
  /\ pc[t] = "release"
  /\ <<n, TRUE>> \in todo[t]
  /\ todo' = [todo EXCEPT ![t] = todo[t] \ {<<n, TRUE>>}]
  /\ \/ /\ load_flag_' = [load_flag_ EXCEPT ![n] = FALSE]
        /\ misflagged' = misflagged \ {n}
     \/ /\ "devreset" \in Events
        /\ misflagged' = misflagged \cup {n}
        /\ UNCHANGED load_flag_
  /\ UNCHANGED <<graph_map_, gid, run_flag_, build_flag_, async_, root_model,
                 sem_, listenerVars, queueVars, pc, cur, req, arg_model,
                 building, ctrlVars, loaded, data, exec, epc, is_finished_,
                 dropped, histVars>>

Released(t) ==
  /\ pc[t] = "release"
  /\ todo[t] = {}
  /\ Goto(t, "load")
  /\ UNCHANGED <<nodeVars, listenerVars, queueVars, cur, req, arg_model,
                 building, todo, ctrlVars, modelVars, histVars>>

\* ModelManager::LoadModelOnline and Start.  RunThread, and every caller once
\* BuildGraph has marked the node async, load with the node's RunAsyncListener,
\* the rest with graph_run_listener_.  The new thread ends at once if its
\* rtSetDevice fails.  A model that another loader has put there in the
\* meantime is replaced if the root model already has its id (the destructor
\* joins its thread and drops what is queued); else it stays and works on what
\* it has, and the two count as one.
LoadOnline(n, t) ==
  /\ loaded' = [loaded EXCEPT ![n] =
                  IF t = "run" \/ async_[n] THEN "async" ELSE "sync"]
  /\ \/ /\ EndModel(n)
        /\ \/ epc' = [epc EXCEPT ![n] = "run"]
           \/ "nodone" \in Events /\ epc' = [epc EXCEPT ![n] = "gone"]
     \/ /\ loaded[n] # "none" /\ epc[n] # "gone"
        /\ UNCHANGED <<data, exec, epc, is_finished_, dropped>>

Load(t) ==
  LET n == cur[t] IN
  /\ pc[t] = "load"
  /\ LoadOnline(n, t)
  /\ load_flag_' = [load_flag_ EXCEPT ![n] = TRUE]
  /\ misflagged' = misflagged \ {n}
  /\ Goto(t, IF t = "run" THEN "execute" ELSE "built")
  /\ UNCHANGED <<graph_map_, gid, run_flag_, build_flag_, async_, root_model,
                 sem_, listenerVars, queueVars, cur, req, arg_model, building,
                 todo, ctrlVars, histVars>>

\* The load flag is set although LoadModelOnline failed.
BadLoadFails(t) ==
  /\ pc[t] = "load"
  /\ "load" \in Events
  /\ SetRunFlag(cur[t], FALSE)
  /\ load_flag_' = [load_flag_ EXCEPT ![cur[t]] = TRUE]
  /\ LoaderFails(t)
  /\ UNCHANGED <<graph_map_, gid, build_flag_, async_, root_model,
                 listenerVars, cur, req, arg_model, building, todo, ctrlVars,
                 modelVars>>

\* GraphLoader::LoadModelOnline fails before it has loaded anything; or Start
\* fails and it unloads what it has loaded, and with it the model that it
\* replaced; or the last rtDeviceReset fails, and the model it leaves behind
\* is loaded and running.
LoadFails(t) ==
  LET n == cur[t] IN
  /\ pc[t] = "load"
  /\ \/ "load" \in Events /\ UNCHANGED modelVars
     \/ /\ "load" \in Events /\ loaded[n] # "none"
        /\ UnloadModel(n)
        /\ misflagged' = IF load_flag_[n] THEN misflagged \cup {n}
                         ELSE misflagged \ {n}
     \/ /\ "devreset" \in Events
        /\ LoadOnline(n, t)
        /\ misflagged' = IF load_flag_[n] THEN misflagged \ {n}
                         ELSE misflagged \cup {n}
  /\ SetRunFlag(n, FALSE)
  /\ LoaderFails(t)
  /\ UNCHANGED <<graph_map_, gid, build_flag_, load_flag_, async_, root_model,
                 listenerVars, cur, req, arg_model, building, todo, ctrlVars>>

(***************************************************************************)
(* The model thread (DavinciModel::Run) of the model a node has loaded.    *)
(***************************************************************************)
ModelPop(n) ==
  /\ loaded[n] # "none"
  /\ exec[n] = NoReq /\ epc[n] = "run"
  /\ data[n] # <<>>
  /\ exec' = [exec EXCEPT ![n] = Head(data[n])]
  /\ data' = [data EXCEPT ![n] = Tail(data[n])]
  /\ UNCHANGED <<nodeVars, listenerVars, queueVars, threadVars, ctrlVars,
                 loaded, epc, is_finished_, dropped, misflagged, histVars>>

Computed(r) ==
  computed' = IF r \in Requests THEN Append(computed, r) ELSE computed

\* OnComputeDone of the synchronous listener does not set is_finished_.
BadSyncComputeDone(n) ==
  /\ exec[n] # NoReq /\ epc[n] = "run"
  /\ loaded[n] = "sync"
  /\ exec' = [exec EXCEPT ![n] = NoReq]
  /\ Computed(exec[n])
  /\ UNCHANGED <<nodeVars, listenerVars, queueVars, threadVars, ctrlVars,
                 loaded, data, epc, is_finished_, dropped, misflagged, rgraph,
                 accepted, cb, cb_ok>>

\* ReturnResult with the GraphModelListener of the synchronous path.
SyncComputeDone(n) ==
  /\ exec[n] # NoReq /\ epc[n] = "run"
  /\ loaded[n] = "sync"
  /\ is_finished_' = TRUE
  /\ exec' = [exec EXCEPT ![n] = NoReq]
  /\ Computed(exec[n])
  /\ UNCHANGED <<nodeVars, listenerVars, queueVars, threadVars, ctrlVars,
                 loaded, data, epc, dropped, misflagged, rgraph, accepted, cb,
                 cb_ok>>

\* ReturnResult with the RunAsyncListener: OnComputeDone calls the callback
\* stored last, whoever the data came from, and then takes the token back.
AsyncComputeDone(n) ==
  /\ exec[n] # NoReq /\ epc[n] = "run"
  /\ loaded[n] = "async"
  /\ \/ /\ callback_[n] = NoReq
        /\ exec' = [exec EXCEPT ![n] = NoReq]
        /\ UNCHANGED <<epc, cb, cb_ok>>
     \/ /\ callback_[n] # NoReq
        /\ \/ CallBack(callback_[n], TRUE)
           \/ "compute" \in Events /\ CallBack(callback_[n], FALSE)
        /\ epc' = [epc EXCEPT ![n] = "pop"]
        /\ UNCHANGED exec
  /\ Computed(exec[n])
  /\ UNCHANGED <<nodeVars, listenerVars, queueVars, threadVars, ctrlVars,
                 loaded, data, is_finished_, dropped, misflagged, rgraph,
                 accepted>>

\* OnComputeDone does not give the token back.
BadListenerPop(n) ==
  /\ exec[n] # NoReq /\ epc[n] = "pop"
  /\ exec' = [exec EXCEPT ![n] = NoReq]
  /\ epc' = [epc EXCEPT ![n] = "run"]
  /\ UNCHANGED <<nodeVars, listenerVars, queueVars, threadVars, ctrlVars,
                 loaded, data, is_finished_, dropped, misflagged, histVars>>

ListenerPop(n) ==
  /\ exec[n] # NoReq /\ epc[n] = "pop"
  /\ cb_sem[n]
  /\ cb_sem' = [cb_sem EXCEPT ![n] = FALSE]
  /\ exec' = [exec EXCEPT ![n] = NoReq]
  /\ epc' = [epc EXCEPT ![n] = "run"]
  /\ UNCHANGED <<nodeVars, callback_, queueVars, threadVars, ctrlVars, loaded,
                 data, is_finished_, dropped, misflagged, histVars>>

\* ReturnResult returns before it reaches the listener (DumpExceptionInfo,
\* rtMemcpy or GenOutputTensorInfo fails), or the thread leaves its loop with
\* the data in hand: nobody is told.
NoComputeDone(n) ==
  /\ exec[n] # NoReq /\ epc[n] = "run"
  /\ "nodone" \in Events
  /\ dropped' = dropped \cup {exec[n]}
  /\ exec' = [exec EXCEPT ![n] = NoReq]
  /\ \E e \in {"run", "gone"} : epc' = [epc EXCEPT ![n] = e]
  /\ UNCHANGED <<nodeVars, listenerVars, queueVars, threadVars, ctrlVars,
                 loaded, data, is_finished_, misflagged, histVars>>

(***************************************************************************)
(* RunGraph (runner) and BuildGraph (builder).                             *)
(***************************************************************************)
SyncOp(t) == IF t = "runner" THEN "run" ELSE "build"

\* Find the graph and read its run flag; a caller that fails changes nothing.
SyncCheck(t, g) ==
  /\ SyncOp(t) \in Ops
  /\ pc[t] = "idle"
  /\ graph_map_[g] # NoNode
  /\ ~run_flag_[graph_map_[g]]
  /\ cur' = [cur EXCEPT ![t] = graph_map_[g]]
  /\ Goto(t, "set")
  /\ UNCHANGED <<nodeVars, listenerVars, queueVars, req, arg_model, building,
                 todo, ctrlVars, modelVars, histVars>>

\* Set the flags and take a branch of StartForRunGraph.
SyncSet(t) ==
  LET n == cur[t] IN
  /\ pc[t] = "set"
  /\ async_' = [async_ EXCEPT ![n] = async_[n] \/ t = "builder"]
  /\ building' = [building EXCEPT ![t] = IsGraphNeedBuild(n)]
  /\ \/ /\ IsGraphNeedBuild(n) /\ build_flag_[n]
        /\ SetRunFlag(n, FALSE)
        /\ Goto(t, "idle")
     \/ /\ ~(IsGraphNeedBuild(n) /\ build_flag_[n])
        /\ SetRunFlag(n, TRUE)
        /\ Goto(t, IF IsGraphNeedBuild(n) THEN "build"
                   ELSE IF load_flag_[n] \/ ~root_model[n] THEN "built"
                   ELSE "mem")
  /\ UNCHANGED <<graph_map_, gid, build_flag_, load_flag_, root_model, sem_,
                 listenerVars, queueVars, cur, req, arg_model, todo, ctrlVars,
                 modelVars, histVars>>

\* PreRun succeeds, or the model comes from the cache and there is no
\* ge_root_model for LoadGraph to load.
SyncPreRun(t, hit) ==
  LET n == cur[t] IN
  /\ pc[t] = "build"
  /\ hit => "cachehit" \in Events
  /\ root_model' = [root_model EXCEPT ![n] = root_model[n] \/ ~hit]
  /\ Goto(t, IF hit THEN "built" ELSE "mem")
  /\ UNCHANGED <<graph_map_, gid, run_flag_, build_flag_, load_flag_, async_,
                 sem_, listenerVars, queueVars, cur, req, arg_model, building,
                 todo, ctrlVars, modelVars, histVars>>

SyncPreRunFailed(t) ==
  /\ pc[t] = "build"
  /\ "prerun" \in Events
  /\ SetRunFlag(cur[t], FALSE)
  /\ Goto(t, "idle")
  /\ UNCHANGED <<graph_map_, gid, build_flag_, load_flag_, async_, root_model,
                 sem_, listenerVars, queueVars, cur, req, arg_model, building,
                 todo, ctrlVars, modelVars, histVars>>

\* The end of StartForRunGraph; BuildGraph is done then.
SyncBuilt(t) ==
  LET n == cur[t] IN
  /\ pc[t] = "built"
  /\ build_flag_' = [build_flag_ EXCEPT ![n] = build_flag_[n] \/ building[t]]
  /\ graph_ids_need_rebuild_' =
       graph_ids_need_rebuild_ \ (IF building[t] THEN {gid[n]} ELSE {})
  /\ \/ t = "runner" /\ Goto(t, "reset") /\ UNCHANGED run_flag_
     \/ t = "builder" /\ Goto(t, "idle") /\ SetRunFlag(n, FALSE)
  /\ UNCHANGED <<graph_map_, gid, load_flag_, async_, root_model, sem_,
                 listenerVars, queueVars, cur, req, arg_model, building, todo,
                 graph_ids_to_var_names_, var_changed, before, modelVars,
                 histVars>>

\* ResetResult is forgotten.
BadSyncReset ==
  /\ pc["runner"] = "reset"
  /\ loaded[cur["runner"]] # "none"
  /\ Goto("runner", "input")
  /\ UNCHANGED <<nodeVars, listenerVars, queueVars, cur, req, arg_model,
                 building, todo, ctrlVars, modelVars, histVars>>

\* SyncExecuteModel in three steps: ResetResult, DataInput, wait.
SyncReset ==
  /\ pc["runner"] = "reset"
  /\ loaded[cur["runner"]] # "none"
  /\ is_finished_' = FALSE
  /\ Goto("runner", "input")
  /\ UNCHANGED <<nodeVars, listenerVars, queueVars, cur, req, arg_model,
                 building, todo, ctrlVars, loaded, data, exec, epc, dropped,
                 misflagged, histVars>>

SyncInput ==
  LET n == cur["runner"] IN
  /\ pc["runner"] = "input"
  /\ loaded[n] # "none"
  /\ data' = [data EXCEPT ![n] = Append(data[n], SyncData)]
  /\ dropped' = dropped \ {SyncData}
  /\ Goto("runner", "wait")
  /\ UNCHANGED <<nodeVars, listenerVars, queueVars, cur, req, arg_model,
                 building, todo, ctrlVars, loaded, exec, epc, is_finished_,
                 misflagged, histVars>>

SyncReturn ==
  /\ SetRunFlag(cur["runner"], FALSE)
  /\ Goto("runner", "idle")
  /\ UNCHANGED <<graph_map_, gid, build_flag_, load_flag_, async_, root_model,
                 sem_, listenerVars, queueVars, cur, req, arg_model, building,
                 todo, ctrlVars, modelVars, histVars>>

SyncExecuteFails ==
  /\ pc["runner"] \in {"reset", "input"}
  /\ loaded[cur["runner"]] = "none" \/ "execute" \in Events
  /\ SyncReturn

\* condition_.wait is called once, without a loop around it: a spurious wake-up
\* ends the wait too.
SyncWait ==
  /\ pc["runner"] = "wait"
  /\ is_finished_ \/ "spurious" \in Events
  /\ SyncReturn

(***************************************************************************)
(* RemoveGraph.                                                            *)
(***************************************************************************)
RemoveCheck(g) ==
  /\ "remove" \in Ops
  /\ ResourceMutexFree
  /\ graph_map_[g] # NoNode
  /\ ~run_flag_[graph_map_[g]]
  /\ cur' = [cur EXCEPT !["remover"] = graph_map_[g]]
  /\ Goto("remover", "unlink")
  /\ UNCHANGED <<nodeVars, listenerVars, queueVars, req, arg_model, building,
                 todo, ctrlVars, modelVars, histVars>>

RemoveUnlink ==
  LET g == gid[cur["remover"]] IN
  /\ pc["remover"] = "unlink"
  /\ UnloadMutexFree
  /\ graph_map_' = [graph_map_ EXCEPT ![g] = NoNode]
  /\ graph_ids_to_var_names_' = graph_ids_to_var_names_ \ {g}
  /\ graph_ids_need_rebuild_' = graph_ids_need_rebuild_ \ {g}
  /\ Goto("remover", "unload")
  /\ UNCHANGED <<gid, run_flag_, build_flag_, load_flag_, async_, root_model,
                 sem_, listenerVars, queueVars, cur, req, arg_model, building,
                 todo, var_changed, before, modelVars, histVars>>

\* Unload the model if the flags say there is one.
RemoveUnload ==
  LET n == cur["remover"] IN
  /\ pc["remover"] = "unload"
  /\ \/ /\ ~Releasable(n) \/ "rt" \in Events
        /\ UNCHANGED modelVars
     \/ Releasable(n) /\ UnloadModel(n) /\ UNCHANGED misflagged
  /\ Goto("remover", "idle")
  /\ UNCHANGED <<nodeVars, listenerVars, queueVars, cur, req, arg_model,
                 building, todo, ctrlVars, histVars>>

(***************************************************************************)
(* Finalize.                                                               *)
(***************************************************************************)
FinalStop ==
  /\ "finalize" \in Ops
  /\ ResourceMutexFree
  /\ StopQueue
  /\ Goto("final", "join")
  /\ UNCHANGED <<nodeVars, listenerVars, prerun_args_q_, run_args_q_, cur, req,
                 arg_model, building, todo, ctrlVars, modelVars, histVars>>

FinalJoin ==
  /\ pc["final"] = "join"
  /\ pc["prerun"] = "exit" /\ pc["run"] = "exit"
  /\ todo' = [todo EXCEPT !["final"] = GraphMapNodes]
  /\ Goto("final", "unloadall")
  /\ UNCHANGED <<nodeVars, listenerVars, queueVars, cur, req, arg_model,
                 building, ctrlVars, modelVars, histVars>>

\* A graph whose run flag is set is skipped, its model stays loaded.
FinalUnload(n) ==
  /\ pc["final"] = "unloadall"
  /\ <<n, FALSE>> \in todo["final"]
  /\ todo' = [todo EXCEPT !["final"] = todo["final"] \ {<<n, FALSE>>}]
  /\ \/ /\ run_flag_[n] \/ ~Releasable(n) \/ "rt" \in Events
        /\ UNCHANGED modelVars
     \/ /\ ~run_flag_[n] /\ Releasable(n)
        /\ UnloadModel(n) /\ UNCHANGED misflagged
  /\ UNCHANGED <<nodeVars, listenerVars, queueVars, pc, cur, req, arg_model,
                 building, ctrlVars, histVars>>

FinalClear ==
  /\ pc["final"] = "unloadall"
  /\ todo["final"] = {}
  /\ graph_map_' = [g \in GraphIds |-> NoNode]
  /\ Goto("final", "done")
  /\ UNCHANGED <<gid, run_flag_, build_flag_, load_flag_, async_, root_model,
                 sem_, listenerVars, queueVars, cur, req, arg_model, building,
                 todo, ctrlVars, modelVars, histVars>>

(***************************************************************************)
(* The specification.                                                      *)
(***************************************************************************)
PreRunStep ==
  \/ PreRunPop \/ ThreadExit("prerun") \/ PreRunFind \/ PreRunLock
  \/ PreRunCheck \/ PreRunSet \/ PreRunFailed \/ PreRunPush
  \/ \E hit \in BOOLEAN : PreRunBuilt(hit)

LoadStep(t) ==
  \/ MemEnough(t) \/ MemInfoFails(t) \/ MemShort(t) \/ Released(t)
  \/ Load(t) \/ LoadFails(t)
  \/ \E n \in Nodes : Release(t, n) \/ ClearLoadFlag(t, n)

RunStep ==
  \/ RunPop \/ ThreadExit("run") \/ RunSetCallback \/ RunParse
  \/ LoadStep("run") \/ RunExecute \/ RunClearFlag \/ RunUnlock

ModelStep(n) ==
  \/ ModelPop(n) \/ SyncComputeDone(n) \/ AsyncComputeDone(n)
  \/ ListenerPop(n) \/ NoComputeDone(n)

\* The steps of a RunGraph or a BuildGraph that has begun.
SyncStep(t) ==
  \/ SyncSet(t) \/ SyncPreRunFailed(t) \/ SyncBuilt(t) \/ LoadStep(t)
  \/ \E hit \in BOOLEAN : SyncPreRun(t, hit)
  \/ t = "runner" /\ (SyncReset \/ SyncInput \/ SyncExecuteFails \/ SyncWait)

RemoveStep == RemoveUnlink \/ RemoveUnload

FinalStep == FinalJoin \/ FinalClear \/ \E n \in Nodes : FinalUnload(n)

Next ==
  \/ \E g \in GraphIds, n \in Nodes : AddGraph(g, n)
  \/ \E r \in Requests, g \in GraphIds : RunGraphAsync(r, g)
  \/ PreRunStep \/ RunStep \/ RemoveStep \/ FinalStop \/ FinalStep
  \/ \E n \in Nodes : ModelStep(n)
  \/ \E t \in SyncCallers : SyncStep(t) \/ \E g \in GraphIds : SyncCheck(t, g)
  \/ \E t \in SyncCallers \cup {"prerun"} : VarChange(t)
  \/ \E g \in GraphIds : RemoveCheck(g)

Spec == Init /\ [][Next]_vars

\* The threads of the manager and of the models are always runnable; the
\* callers promise nothing.
FairSpec ==
  /\ Spec
  /\ WF_vars(PreRunStep) /\ WF_vars(RunStep)
  /\ \A n \in Nodes : WF_vars(ModelStep(n))
  /\ WF_vars(RemoveStep) /\ WF_vars(FinalStep)
  /\ \A t \in SyncCallers : WF_vars(SyncStep(t))

(***************************************************************************)
(* Properties.                                                             *)
(***************************************************************************)
ThreadLabels ==
  {"pop", "exit", "find", "lock", "check", "set", "build", "push", "setcb",
   "parse", "mem", "release", "load", "execute", "clear", "unlock", "idle", "built",
   "reset", "input", "wait", "unlink", "unload", "join", "unloadall", "done"}
RunArgs == [req : Requests, node : Nodes, model : BOOLEAN]

NodeTypeOK ==
  /\ graph_map_ \in [GraphIds -> Nodes \cup {NoNode}]
  /\ gid \in [Nodes -> GraphIds \cup {NoGraph}]
  /\ run_flag_ \in [Nodes -> BOOLEAN]
  /\ build_flag_ \in [Nodes -> BOOLEAN]
  /\ load_flag_ \in [Nodes -> BOOLEAN]
  /\ async_ \in [Nodes -> BOOLEAN]
  /\ root_model \in [Nodes -> BOOLEAN]
  /\ sem_ \in [Nodes -> BOOLEAN]

ListenerTypeOK ==
  /\ cb_sem \in [Nodes -> BOOLEAN]
  /\ callback_ \in [Nodes -> Requests \cup {NoReq}]

QueueTypeOK ==
  /\ thread_run_flag_ \in BOOLEAN
  /\ prerun_args_q_ \in Seq(Requests)
  /\ run_args_q_ \in Seq(RunArgs)

ThreadTypeOK ==
  /\ pc \in [Threads -> ThreadLabels]
  /\ cur \in [Threads -> Nodes \cup {NoNode}]
  /\ req \in [Threads -> Requests \cup {NoReq}]
  /\ arg_model \in [Threads -> BOOLEAN]
  /\ building \in [Threads -> BOOLEAN]
  /\ todo \in [Threads -> SUBSET (Nodes \X BOOLEAN)]

CtrlTypeOK ==
  /\ graph_ids_to_var_names_ \subseteq GraphIds
  /\ graph_ids_need_rebuild_ \subseteq GraphIds
  /\ var_changed \in BOOLEAN
  /\ before \subseteq Nodes \cup Requests

ModelTypeOK ==
  /\ loaded \in [Nodes -> {"none", "sync", "async"}]
  /\ data \in [Nodes -> Seq(Requests \cup {SyncData})]
  /\ exec \in [Nodes -> Requests \cup {SyncData, NoReq}]
  /\ epc \in [Nodes -> {"run", "pop", "gone"}]
  /\ is_finished_ \in BOOLEAN
  /\ dropped \subseteq Requests \cup {SyncData}
  /\ misflagged \subseteq Nodes

HistTypeOK ==
  /\ rgraph \in [Requests -> GraphIds \cup {NoGraph}]
  /\ cb \in [Requests -> 0..MaxCb]
  /\ cb_ok \in [Requests -> BOOLEAN]
  /\ accepted \in Seq(Requests)
  /\ computed \in Seq(Requests)

\* The ranges of the variables.
TypeOK ==
  /\ NodeTypeOK /\ ListenerTypeOK /\ QueueTypeOK /\ ThreadTypeOK
  /\ CtrlTypeOK /\ ModelTypeOK /\ HistTypeOK

\* A request is inside the critical section of its GraphNode from Lock, in
\* PreRunThread, to Unlock, mostly in RunThread, the queue in between included.
PreRunHolds == pc["prerun"] \in {"check", "set", "build", "push"}
RunHolds == pc["run"] \in {"setcb", "parse", "mem", "release", "load",
                           "execute", "clear", "unlock"}

\* GraphNode::Lock and Unlock are called on different threads, with a queue
\* between them: at most one request is ever past Lock on a node, wherever it
\* is, and the node is locked while there is one.
NodeExclusive ==
  /\ PreRunHolds => sem_[cur["prerun"]]
  /\ RunHolds => sem_[cur["run"]]
  /\ PreRunHolds /\ RunHolds => cur["prerun"] # cur["run"]
  /\ \A i \in DOMAIN run_args_q_ :
       /\ sem_[run_args_q_[i].node]
       /\ PreRunHolds => run_args_q_[i].node # cur["prerun"]
       /\ RunHolds => run_args_q_[i].node # cur["run"]
       /\ \A j \in DOMAIN run_args_q_ :
            i # j => run_args_q_[i].node # run_args_q_[j].node

\* The result of a request goes to the callback of that request: whatever a
\* model has queued or is working on, RunAsyncListener::callback_ of its node
\* has not been overwritten by a later SetCallback.
AnswersOwner ==
  \A n \in Nodes, r \in Requests :
    (r = exec[n] \/ \E i \in DOMAIN data[n] : data[n][i] = r)
      => callback_[n] = r /\ cb_sem[n]

\* A callback hears of its request once, not from an error path and from the
\* listener too, and hears SUCCESS only if the model has run for it.
AnswersHonest ==
  \A r \in Requests :
    cb[r] <= 1 /\ (cb_ok[r] => \E i \in DOMAIN computed : computed[i] = r)

Located(r) ==
  \/ \E i \in DOMAIN prerun_args_q_ : prerun_args_q_[i] = r
  \/ req["prerun"] = r /\ pc["prerun"] \notin {"pop", "exit"}
  \/ \E i \in DOMAIN run_args_q_ : run_args_q_[i].req = r
  \/ req["run"] = r /\ pc["run"] \notin {"pop", "exit"}
  \/ \E n \in Nodes : exec[n] = r \/ r \in Queued(n)

\* RunThread has set the callback and not yet given the data to the model.
CallbackSet == pc["run"] \in {"parse", "mem", "release", "load", "execute"}

\* The token of a node's RunAsyncListener is owed by somebody: RunThread is
\* about to hand the request over, or the model has it and will give the token
\* back, or nobody will hear of it any more, or an error has ended RunThread.
\* SetCallback never waits for a request that has been answered and forgotten.
TokenOwed ==
  \A n \in Nodes :
    cb_sem[n] =>
      \/ ~thread_run_flag_
      \/ CallbackSet /\ cur["run"] = n
      \/ exec[n] # NoReq
      \/ callback_[n] \in Queued(n) \cup dropped

\* As long as the queues run, an accepted request that has not been answered is
\* in one of the places the threads take it from, unless its model had it and
\* returned without telling the listener, or was unloaded or replaced before
\* taking it: the threads of the manager lose no request between them.
NoneLostWhileRunning ==
  \A r \in Requests :
    thread_run_flag_ /\ rgraph[r] # NoGraph /\ cb[r] = 0
      => Located(r) \/ r \in dropped

\* Requests for one graph complete in the order RunGraphAsync accepted them.
PerGraphOrder ==
  \A i, j \in DOMAIN computed, k, l \in DOMAIN accepted :
    /\ i < j
    /\ computed[i] = accepted[k] /\ computed[j] = accepted[l]
    /\ rgraph[accepted[k]] = rgraph[accepted[l]]
    => k < l

\* Until Finalize takes the map apart, and except while CheckAndReleaseMemory
\* is between unloading the model and clearing the flag, the load flag of a
\* graph in the map tells whether its model is loaded: RunThread and
\* StartForRunGraph decide by it whether to load, CheckAndReleaseMemory and
\* RemoveGraph whether to unload.  A load or an unload that fails after it has
\* changed the model (rtDeviceReset, or Start of a model that replaced one)
\* leaves the flag as it was, until the graph is loaded again.
LoadFlagTruth ==
  \A g \in GraphIds :
    LET n == graph_map_[g] IN
    /\ n # NoNode /\ pc["final"] = "idle"
    /\ n \notin misflagged
    /\ \A t \in Loaders : <<n, TRUE>> \notin todo[t]
    => (load_flag_[n] <=> loaded[n] # "none")

\* Where a request is once PreRunThread has admitted it to a node.
AdmittedTo(r, n) ==
  \/ pc["prerun"] = "push" /\ cur["prerun"] = n /\ req["prerun"] = r
  \/ \E i \in DOMAIN run_args_q_ :
       run_args_q_[i].node = n /\ run_args_q_[i].req = r
  \/ RunHolds /\ cur["run"] = n /\ req["run"] = r
  \/ exec[n] = r \/ r \in Queued(n)

\* Once VariableOpPass has changed the format of the variable, a graph of the
\* map that was built before runs no request that comes after the change: only
\* what was accepted before may still run the old model.
NoStaleRun ==
  \A g \in GraphIds, r \in Requests :
    LET n == graph_map_[g] IN
    n \in before /\ AdmittedTo(r, n) => r \in before

\* RunGraph takes a result for its own: when it sees is_finished_, no model is
\* still holding data of a RunGraph call.
SyncResultOwn ==
  pc["runner"] \in {"idle", "input"} \/ (pc["runner"] = "wait" /\ is_finished_)
    => \A n \in Nodes :
         /\ exec[n] # SyncData
         /\ \A i \in DOMAIN data[n] : data[n][i] # SyncData

\* Nobody will ever hear of d: its model dropped it, or has it queued and has
\* no thread any more.
Unheard(d) == d \in dropped \/ \E n \in Nodes : epc[n] = "gone" /\ d \in Queued(n)

\* Every accepted request is answered, unless an error stops the queues, its
\* model never tells the listener, or RunThread waits in SetCallback for the
\* answer to a request whose model never tells the listener.
AnsweredOrStopped ==
  \A r \in Requests :
    rgraph[r] # NoGraph ~>
      \/ cb[r] > 0 \/ ~thread_run_flag_ \/ Unheard(r)
      \/ pc["run"] = "setcb" /\ Unheard(callback_[cur["run"]])

\* A RunGraph call returns, unless its node was marked asynchronous by
\* BuildGraph, so that the model tells another listener, or the model never
\* tells anyone: it dropped the data, its thread has ended, or BuildGraph, short
\* of memory, unloaded it.
RunGraphReturns ==
  pc["runner"] # "idle" ~>
    \/ pc["runner"] = "idle" \/ async_[cur["runner"]]
    \/ pc["runner"] = "wait" /\ Unheard(SyncData)

(***************************************************************************)
(* What makes the invariants above inductive.                              *)
(***************************************************************************)
\* A thread that is working has a node and, if it serves a request, a request
\* that RunGraphAsync accepted.
ThreadsOK ==
  /\ \A i \in DOMAIN prerun_args_q_ : rgraph[prerun_args_q_[i]] \in GraphIds
  /\ pc["prerun"] \in {"pop", "exit", "find", "lock"} \/ PreRunHolds
  /\ pc["run"] \in {"pop", "exit"} \/ RunHolds
  /\ pc["prerun"] \notin {"pop", "exit"} =>
       req["prerun"] \in Requests /\ rgraph[req["prerun"]] \in GraphIds
  /\ pc["prerun"] \notin {"pop", "exit", "find"} => cur["prerun"] \in Nodes
  /\ RunHolds => req["run"] \in Requests /\ cur["run"] \in Nodes
  /\ \A t \in {"runner", "builder", "remover"} :
       pc[t] # "idle" => cur[t] \in Nodes

\* The token of RunAsyncListener::sem_ is held for exactly one request of the
\* node: the one RunThread is at, or the one queued, or the one computed.
TokenOK ==
  /\ CallbackSet =>
       /\ cb_sem[cur["run"]] /\ callback_[cur["run"]] = req["run"]
       /\ data[cur["run"]] = <<>> /\ exec[cur["run"]] = NoReq
  /\ \A n \in Nodes :
       data[n] # <<>> =>
         /\ Len(data[n]) = 1 /\ exec[n] = NoReq
         /\ cb_sem[n] /\ callback_[n] = data[n][1]
  /\ \A n \in Nodes :
       exec[n] # NoReq => cb_sem[n] /\ callback_[n] = exec[n] /\ data[n] = <<>>

(***************************************************************************)
(* What the repository says and the code does not do.                      *)
(***************************************************************************)
\* "Finalize GE, release all resources": a Finalize that has begun ends.
FinalizeEnds == pc["final"] = "join" ~> pc["final"] = "done"

=============================================================================
