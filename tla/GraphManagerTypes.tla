------------------------- MODULE GraphManagerTypes --------------------------
(***************************************************************************)
(* Type correctness of GraphManager, for every set of graphs, nodes and    *)
(* requests, every queue capacity and every choice of failures.  TypeOK    *)
(* and ThreadsOK are inductive together.                                   *)
(***************************************************************************)
EXTENDS GraphManager, TLAPS

(***************************************************************************)
(* Threads at work have a node and a request.                              *)
(***************************************************************************)
\* Initially every thread is at its loop head or idle.
LEMMA ThreadsInit == Init => ThreadsOK
  BY SMTT(60) DEF Init, ThreadsOK, Threads, PreRunHolds, RunHolds

\* A step that moves no thread keeps them so.
LEMMA ThreadsKeep ==
  ASSUME ThreadsOK, UNCHANGED <<pc, cur, req, prerun_args_q_, rgraph>>
  PROVE  ThreadsOK'
  BY Zenon DEF ThreadsOK, PreRunHolds, RunHolds

\* A thread that only moves on keeps its node and its request, or is done with
\* them.
LEMMA ThreadsGoto ==
  ASSUME TypeOK, ThreadsOK, NEW t \in Threads, NEW l, Goto(t, l),
         UNCHANGED <<cur, req, prerun_args_q_, rgraph>>,
         t = "prerun" =>
           \/ l \in {"pop", "exit"}
           \/ /\ pc[t] = "lock" \/ PreRunHolds
              /\ l \in {"check", "set", "build", "push"},
         t = "run" =>
           \/ l \in {"pop", "exit"}
           \/ /\ RunHolds
              /\ l \in {"parse", "mem", "release", "load", "execute",
                        "clear", "unlock"},
         t \in {"runner", "builder", "remover"} =>
           l = "idle" \/ pc[t] # "idle"
  PROVE  ThreadsOK'
  BY ZenonT(60) DEF Goto, TypeOK, ThreadTypeOK, Threads, ThreadsOK, PreRunHolds, RunHolds

\* Every step of a thread leaves it with a node and a request as long as it is
\* working.
LEMMA ThreadsNext ==
  ASSUME TypeOK, ThreadsOK, [Next]_vars
  PROVE  ThreadsOK'
  <1>1. ASSUME NEW g \in GraphIds, NEW n \in Nodes, AddGraph(g, n) PROVE
      ThreadsOK' BY Zenon, <1>1, ThreadsKeep DEF AddGraph, queueVars, threadVars,
      histVars
  <1>2. ASSUME NEW r \in Requests, NEW g \in GraphIds, RunGraphAsync(r, g)
      PROVE ThreadsOK' BY SMTT(60), <1>2 DEF RunGraphAsync, threadVars, TypeOK,
      QueueTypeOK, HistTypeOK, ThreadsOK, PreRunHolds, RunHolds
  <1>3. CASE PreRunPop BY SMTT(60), <1>3 DEF PreRunPop, Goto, histVars, TypeOK,
      QueueTypeOK, ThreadTypeOK, Threads, ThreadsOK, PreRunHolds, RunHolds
  <1>4. ASSUME NEW t \in {"prerun", "run"}, ThreadExit(t) PROVE ThreadsOK' BY Zenon,
      <1>4, ThreadsGoto DEF ThreadExit, queueVars, histVars, Threads
  <1>5. CASE PreRunFind
    <2> DEFINE n == graph_map_[rgraph[req["prerun"]]]
    <2>1. n \in Nodes \cup {NoNode}
      BY Zenon, <1>5 DEF PreRunFind, ThreadsOK, TypeOK, NodeTypeOK
    <2>2. CASE n = NoNode
      BY Zenon, <1>5, <2>2, ThreadsGoto DEF PreRunFind, Threads
    <2>3. CASE n # NoNode
      <3>1. /\ cur' = [cur EXCEPT !["prerun"] = n]
            /\ Goto("prerun", "lock")
            /\ UNCHANGED <<req, prerun_args_q_, rgraph>>
        BY Zenon, <1>5, <2>3 DEF PreRunFind
      <3>2. pc["prerun"] = "find" BY Zenon, <1>5 DEF PreRunFind
      <3> HIDE DEF n
      <3> QED BY Zenon, <2>1, <2>3, <3>1, <3>2 DEF Goto, TypeOK, ThreadTypeOK,
            Threads, ThreadsOK, PreRunHolds, RunHolds
    <2> QED BY Zenon, <2>2, <2>3
  <1>6. CASE PreRunLock BY Zenon, <1>6, ThreadsGoto DEF PreRunLock, queueVars,
      histVars, Threads, PreRunHolds
  <1>7. CASE PreRunCheck BY Zenon, <1>7, ThreadsGoto DEF PreRunCheck,
      ReturnError, queueVars, histVars, Threads, PreRunHolds
  <1>8. CASE PreRunSet BY Zenon, <1>8, ThreadsGoto DEF PreRunSet, ReturnError,
      queueVars, histVars, Threads, PreRunHolds
  <1>9. ASSUME NEW hit \in BOOLEAN, PreRunBuilt(hit) PROVE ThreadsOK' BY Zenon, <1>9,
      ThreadsGoto DEF PreRunBuilt, queueVars, histVars, Threads, PreRunHolds
  <1>10. CASE PreRunFailed BY Zenon, <1>10, ThreadsGoto DEF PreRunFailed,
      ReturnError, queueVars, Threads, PreRunHolds
  <1>11. CASE PreRunPush BY Zenon, <1>11, ThreadsGoto DEF PreRunPush, histVars,
      Threads, PreRunHolds
  <1>12. ASSUME NEW t \in Threads, VarChange(t) PROVE ThreadsOK' BY Zenon, <1>12,
      ThreadsKeep DEF VarChange, queueVars, threadVars, histVars
  <1>13. CASE RunPop
    <2>1. Head(run_args_q_).node \in Nodes /\ Head(run_args_q_).req \in
        Requests
      <3>1. Head(run_args_q_) \in RunArgs
        BY SMTT(60), <1>13 DEF RunPop, TypeOK, QueueTypeOK
      <3> QED BY Zenon, <3>1 DEF RunArgs
    <2> QED BY Zenon, <1>13, <2>1 DEF RunPop, Goto, TypeOK, ThreadTypeOK, Threads,
          histVars, ThreadsOK, PreRunHolds, RunHolds
  <1>14. CASE RunSetCallback BY Zenon, <1>14, ThreadsGoto DEF RunSetCallback,
      queueVars, histVars, Threads, RunHolds
  <1>15. CASE RunParse BY Zenon, <1>15, ThreadsGoto DEF RunParse, ReturnError,
      queueVars, histVars, Threads, RunHolds
  <1>16. CASE RunExecute BY Zenon, <1>16, ThreadsGoto DEF RunExecute,
      ReturnError, queueVars, histVars, Threads, RunHolds
  <1>17a. CASE RunClearFlag BY Zenon, <1>17a, ThreadsGoto DEF RunClearFlag, queueVars,
      histVars, Threads, RunHolds
  <1>17. CASE RunUnlock BY Zenon, <1>17, ThreadsGoto DEF RunUnlock, queueVars,
      histVars, Threads, RunHolds
  <1>18. ASSUME NEW t \in Loaders, MemEnough(t) PROVE ThreadsOK' BY Zenon, <1>18,
      ThreadsGoto DEF MemEnough, queueVars, histVars, Threads, Loaders,
      RunHolds
  <1>19. ASSUME NEW t \in Loaders, MemInfoFails(t) PROVE ThreadsOK' BY Zenon,
      <1>19, ThreadsGoto DEF MemInfoFails, LoaderFails, ReturnError,
      queueVars, histVars, Threads, Loaders, RunHolds
  <1>20. ASSUME NEW t \in Loaders, MemShort(t) PROVE ThreadsOK' BY Zenon, <1>20,
      ThreadsGoto DEF MemShort, queueVars, histVars, Threads, Loaders,
      RunHolds
  <1>21. ASSUME NEW t \in Loaders, NEW n \in Nodes, Release(t, n) PROVE
      ThreadsOK' BY Zenon, <1>21, ThreadsKeep DEF Release, queueVars, histVars
  <1>21a. ASSUME NEW t \in Loaders, NEW n \in Nodes, ClearLoadFlag(t, n) PROVE
      ThreadsOK' BY Zenon, <1>21a, ThreadsKeep DEF ClearLoadFlag, queueVars, histVars
  <1>22. ASSUME NEW t \in Loaders, Released(t) PROVE ThreadsOK' BY Zenon, <1>22,
      ThreadsGoto DEF Released, queueVars, histVars, Threads, Loaders,
      RunHolds
  <1>23. ASSUME NEW t \in Loaders, Load(t) PROVE ThreadsOK' BY Zenon, <1>23,
      ThreadsGoto DEF Load, queueVars, histVars, Threads, Loaders, RunHolds
  <1>24. ASSUME NEW t \in Loaders, LoadFails(t) PROVE ThreadsOK' BY Zenon,
      <1>24, ThreadsGoto DEF LoadFails, LoaderFails, ReturnError, queueVars,
      histVars, Threads, Loaders, RunHolds
  <1>25. ASSUME NEW n \in Nodes, ModelPop(n) PROVE ThreadsOK' BY Zenon, <1>25,
      ThreadsKeep DEF ModelPop, queueVars, threadVars, histVars
  <1>26. ASSUME NEW n \in Nodes, SyncComputeDone(n) PROVE ThreadsOK' BY Zenon, <1>26,
      ThreadsKeep DEF SyncComputeDone, queueVars, threadVars
  <1>27. ASSUME NEW n \in Nodes, AsyncComputeDone(n) PROVE ThreadsOK' BY Zenon,
      <1>27, ThreadsKeep DEF AsyncComputeDone, queueVars, threadVars
  <1>28. ASSUME NEW n \in Nodes, ListenerPop(n) PROVE ThreadsOK' BY Zenon, <1>28,
      ThreadsKeep DEF ListenerPop, queueVars, threadVars, histVars
  <1>29. ASSUME NEW n \in Nodes, NoComputeDone(n) PROVE ThreadsOK' BY ZenonT(60), <1>29,
      ThreadsKeep DEF NoComputeDone, queueVars, threadVars, histVars
  <1>30. ASSUME NEW t \in SyncCallers, NEW g \in GraphIds, SyncCheck(t, g)
      PROVE ThreadsOK' BY ZenonT(60), <1>30 DEF SyncCheck, Goto, queueVars, histVars,
      TypeOK, ThreadTypeOK, NodeTypeOK, Threads, SyncCallers, ThreadsOK,
      PreRunHolds, RunHolds
  <1>31. ASSUME NEW t \in SyncCallers, SyncSet(t) PROVE ThreadsOK' BY Zenon,
      <1>31, ThreadsGoto DEF SyncSet, queueVars, histVars, Threads,
      SyncCallers
  <1>32. ASSUME NEW t \in SyncCallers, NEW hit \in BOOLEAN, SyncPreRun(t, hit)
      PROVE ThreadsOK' BY Zenon, <1>32, ThreadsGoto DEF SyncPreRun, queueVars,
      histVars, Threads, SyncCallers
  <1>33. ASSUME NEW t \in SyncCallers, SyncPreRunFailed(t) PROVE ThreadsOK' BY Zenon,
      <1>33, ThreadsGoto DEF SyncPreRunFailed, queueVars, histVars, Threads,
      SyncCallers
  <1>34. ASSUME NEW t \in SyncCallers, SyncBuilt(t) PROVE ThreadsOK' BY Zenon,
      <1>34, ThreadsGoto DEF SyncBuilt, queueVars, histVars, Threads,
      SyncCallers
  <1>35. CASE SyncReset BY Zenon, <1>35, ThreadsGoto DEF SyncReset, queueVars,
      histVars, Threads
  <1>36. CASE SyncInput BY ZenonT(60), <1>36, ThreadsGoto DEF SyncInput, queueVars,
      histVars, Threads
  <1>37. CASE SyncExecuteFails BY Zenon, <1>37, ThreadsGoto DEF SyncExecuteFails,
      SyncReturn, queueVars, histVars, Threads
  <1>38. CASE SyncWait BY Zenon, <1>38, ThreadsGoto DEF SyncWait, SyncReturn,
      queueVars, histVars, Threads
  <1>39. ASSUME NEW g \in GraphIds, RemoveCheck(g) PROVE ThreadsOK' BY ZenonT(60), <1>39
      DEF RemoveCheck, Goto, queueVars, histVars, TypeOK, ThreadTypeOK,
      NodeTypeOK, Threads, ThreadsOK, PreRunHolds, RunHolds
  <1>40. CASE RemoveUnlink BY Zenon, <1>40, ThreadsGoto DEF RemoveUnlink, queueVars,
      histVars, Threads
  <1>41. CASE RemoveUnload BY Zenon, <1>41, ThreadsGoto DEF RemoveUnload, queueVars,
      histVars, Threads
  <1>42. CASE FinalStop BY Zenon, <1>42, ThreadsGoto DEF FinalStop, histVars, Threads
  <1>43. CASE FinalJoin BY Zenon, <1>43, ThreadsGoto DEF FinalJoin, queueVars,
      histVars, Threads
  <1>44. ASSUME NEW n \in Nodes, FinalUnload(n) PROVE ThreadsOK' BY Zenon, <1>44,
      ThreadsKeep DEF FinalUnload, queueVars, histVars
  <1>45. CASE FinalClear BY Zenon, <1>45, ThreadsGoto DEF FinalClear, queueVars,
      histVars, Threads
  <1>46. CASE UNCHANGED vars BY Zenon, <1>46, ThreadsKeep DEF vars, queueVars,
      threadVars, histVars
  <1> QED BY ZenonT(60), <1>1, <1>2, <1>3, <1>4, <1>5, <1>6, <1>7, <1>8, <1>9, <1>10,
      <1>11, <1>12, <1>13, <1>14, <1>15, <1>16, <1>17a, <1>17, <1>18, <1>19, <1>20,
      <1>21, <1>22, <1>23, <1>24, <1>25, <1>26, <1>27, <1>28, <1>29, <1>30,
      <1>31, <1>32, <1>33, <1>34, <1>35, <1>36, <1>37, <1>38, <1>39, <1>40,
      <1>41, <1>42, <1>43, <1>44, <1>45, <1>46, <1>21a DEF Next, PreRunStep,
      RunStep,
      LoadStep, ModelStep, SyncStep, RemoveStep, FinalStep, SyncCallers,
      Loaders, Threads

(***************************************************************************)
(* Types.                                                                  *)
(***************************************************************************)
\* The state GraphManager::Initialize leaves has the types.
LEMMA TypeInit == Init => TypeOK
  <1> SUFFICES ASSUME Init PROVE TypeOK
    BY Zenon
  <1> USE ConstAssumption
  <1>1. NodeTypeOK BY Zenon DEF Init, NodeTypeOK
  <1>2. ListenerTypeOK BY Zenon DEF Init, ListenerTypeOK
  <1>3. QueueTypeOK BY SMTT(60) DEF Init, QueueTypeOK
  <1>4. ThreadTypeOK BY Zenon DEF Init, ThreadTypeOK, Threads, ThreadLabels
  <1>5. CtrlTypeOK BY Zenon DEF Init, CtrlTypeOK
  <1>6. ModelTypeOK
    <2>1. <<>> \in Seq(Requests \cup {SyncData}) BY SMTT(60)
    <2> QED BY Zenon, <2>1 DEF Init, ModelTypeOK
  <1>7. HistTypeOK BY SMTT(60) DEF Init, HistTypeOK, MaxCb
  <1> QED BY Zenon, <1>1, <1>2, <1>3, <1>4, <1>5, <1>6, <1>7 DEF TypeOK

\* A thread that moves on stays among its labels.
LEMMA GotoType ==
  ASSUME ThreadTypeOK, NEW t \in Threads, NEW l \in ThreadLabels, Goto(t, l)
  PROVE  pc' \in [Threads -> ThreadLabels]
  BY Zenon DEF Goto, ThreadTypeOK

\* A group of variables that a step leaves alone keeps its types.
LEMMA TypeKeep ==
  ASSUME TypeOK
  PROVE  /\ UNCHANGED nodeVars => NodeTypeOK'
         /\ UNCHANGED listenerVars => ListenerTypeOK'
         /\ UNCHANGED queueVars => QueueTypeOK'
         /\ UNCHANGED threadVars => ThreadTypeOK'
         /\ UNCHANGED ctrlVars => CtrlTypeOK'
         /\ UNCHANGED modelVars => ModelTypeOK'
         /\ UNCHANGED histVars => HistTypeOK'
  <1> USE DEF TypeOK
  <1>1. UNCHANGED nodeVars => NodeTypeOK' BY Zenon DEF nodeVars, NodeTypeOK
  <1>2. UNCHANGED listenerVars => ListenerTypeOK'
    BY Zenon DEF listenerVars, ListenerTypeOK
  <1>3. UNCHANGED queueVars => QueueTypeOK' BY Zenon DEF queueVars, QueueTypeOK
  <1>4. UNCHANGED threadVars => ThreadTypeOK' BY Zenon DEF threadVars, ThreadTypeOK
  <1>5. UNCHANGED ctrlVars => CtrlTypeOK' BY Zenon DEF ctrlVars, CtrlTypeOK
  <1>6. UNCHANGED modelVars => ModelTypeOK' BY Zenon DEF modelVars, ModelTypeOK
  <1>7. UNCHANGED histVars => HistTypeOK' BY Zenon DEF histVars, HistTypeOK
  <1> QED BY Zenon, <1>1, <1>2, <1>3, <1>4, <1>5, <1>6, <1>7

\* A call of a callback keeps the types of its records, for the count of calls
\* is capped.
LEMMA CallBackType ==
  ASSUME HistTypeOK, NEW r, NEW ok \in BOOLEAN, CallBack(r, ok)
  PROVE  cb' \in [Requests -> 0..MaxCb] /\ cb_ok' \in [Requests -> BOOLEAN]
  <1>1. cb' \in [Requests -> 0..MaxCb]
    <2>1. CASE r \in Requests
      <3>1. cb[r] \in 0..2 BY Zenon, <2>1 DEF HistTypeOK, MaxCb
      <3>2. (IF cb[r] < MaxCb THEN cb[r] + 1 ELSE cb[r]) \in 0..2
        BY SMTT(60), <3>1 DEF MaxCb
      <3> QED BY Zenon, <3>2 DEF HistTypeOK, CallBack, MaxCb
    <2>2. CASE r \notin Requests
      BY Zenon, <2>2 DEF HistTypeOK, CallBack
    <2> QED BY Zenon, <2>1, <2>2
  <1>2. cb_ok' \in [Requests -> BOOLEAN]
    BY Zenon DEF HistTypeOK, CallBack
  <1> QED BY Zenon, <1>1, <1>2

\* What a model has queued are data.
LEMMA QueuedType ==
  ASSUME ModelTypeOK, NEW n \in Nodes
  PROVE  Queued(n) \subseteq Requests \cup {SyncData}
  <1>1. data[n] \in Seq(Requests \cup {SyncData}) BY Zenon DEF ModelTypeOK
  <1>2. \A i \in DOMAIN data[n] : data[n][i] \in Requests \cup {SyncData}
    BY SMTT(60), <1>1
  <1> QED BY Zenon, <1>2 DEF Queued

\* Ending a model keeps the types of what it works on.
LEMMA EndModelType ==
  ASSUME ModelTypeOK, NEW n \in Nodes, EndModel(n)
  PROVE  /\ data' \in [Nodes -> Seq(Requests \cup {SyncData})]
         /\ exec' \in [Nodes -> Requests \cup {SyncData, NoReq}]
         /\ is_finished_' \in BOOLEAN
         /\ dropped' \subseteq Requests \cup {SyncData}
  <1>1. <<>> \in Seq(Requests \cup {SyncData}) BY SMTT(60)
  <1>2. Queued(n) \subseteq Requests \cup {SyncData} BY Zenon, QueuedType
  <1> QED BY Zenon, <1>1, <1>2 DEF ModelTypeOK, EndModel

\* Unloading a model keeps the types of the models.
LEMMA UnloadType ==
  ASSUME ModelTypeOK, NEW n \in Nodes, UnloadModel(n),
         misflagged' \subseteq Nodes
  PROVE  ModelTypeOK'
  <1>1. EndModel(n) BY Zenon DEF UnloadModel
  <1> QED BY Zenon, <1>1, EndModelType DEF ModelTypeOK, UnloadModel

\* Loading a model keeps the types of the models.
LEMMA LoadOnlineType ==
  ASSUME ModelTypeOK, NEW n \in Nodes, NEW t, LoadOnline(n, t),
         misflagged' \subseteq Nodes
  PROVE  ModelTypeOK'
  <1>1. loaded' \in [Nodes -> {"none", "sync", "async"}]
    BY Zenon DEF LoadOnline, ModelTypeOK
  <1>2. CASE EndModel(n) /\ (\/ epc' = [epc EXCEPT ![n] = "run"]
                            \/ epc' = [epc EXCEPT ![n] = "gone"])
    BY Zenon, <1>1, <1>2, EndModelType DEF ModelTypeOK
  <1>3. CASE UNCHANGED <<data, exec, epc, is_finished_, dropped>>
    BY Zenon, <1>1, <1>3 DEF ModelTypeOK
  <1> QED BY Zenon, <1>2, <1>3 DEF LoadOnline

(***************************************************************************)
(* One lemma per action, with one step per group of variables it changes.  *)
(***************************************************************************)
\* AddGraph(g, n) keeps the types.
LEMMA TypeAddGraph ==
  ASSUME TypeOK, ThreadsOK, NEW g \in GraphIds, NEW n \in Nodes, AddGraph(g,
         n)
  PROVE  TypeOK'
  <1>1. NodeTypeOK' BY Zenon DEF AddGraph, TypeOK, NodeTypeOK, nodeVars
  <1>2. CtrlTypeOK' BY Zenon DEF AddGraph, TypeOK, CtrlTypeOK, ctrlVars
  <1> QED BY Zenon, <1>1, <1>2, TypeKeep DEF AddGraph, TypeOK, listenerVars,
      queueVars, threadVars, modelVars, histVars

\* RunGraphAsync(r, g) keeps the types.
LEMMA TypeRunGraphAsync ==
  ASSUME TypeOK, ThreadsOK, NEW r \in Requests, NEW g \in GraphIds,
         RunGraphAsync(r, g)
  PROVE  TypeOK'
  <1>1. QueueTypeOK' BY SMTT(60) DEF RunGraphAsync, TypeOK, QueueTypeOK, RunArgs,
      queueVars
  <1>2. HistTypeOK' BY SMTT(60) DEF RunGraphAsync, TypeOK, HistTypeOK, MaxCb, histVars
  <1> QED BY Zenon, <1>1, <1>2, TypeKeep DEF RunGraphAsync, TypeOK, nodeVars,
      listenerVars, threadVars, ctrlVars, modelVars

\* PreRunPop keeps the types.
LEMMA TypePreRunPop ==
  ASSUME TypeOK, ThreadsOK, PreRunPop
  PROVE  TypeOK'
  <1>1. QueueTypeOK' BY SMTT(60) DEF PreRunPop, Goto, TypeOK, QueueTypeOK, RunArgs,
      queueVars
  <1>2. ThreadTypeOK' BY SMTT(60) DEF PreRunPop, Goto, TypeOK, ThreadTypeOK, Threads,
      ThreadLabels, threadVars, QueueTypeOK
  <1> QED BY Zenon, <1>1, <1>2, TypeKeep DEF PreRunPop, TypeOK, nodeVars,
      listenerVars, ctrlVars, modelVars, histVars

\* ThreadExit(t) keeps the types.
LEMMA TypeThreadExit ==
  ASSUME TypeOK, ThreadsOK, NEW t \in {"prerun", "run"}, ThreadExit(t)
  PROVE  TypeOK'
  <1>1. ThreadTypeOK' BY Zenon DEF ThreadExit, Goto, TypeOK, ThreadTypeOK, Threads,
      ThreadLabels, threadVars
  <1> QED BY Zenon, <1>1, TypeKeep DEF ThreadExit, TypeOK, nodeVars, listenerVars,
      queueVars, ctrlVars, modelVars, histVars

\* PreRunFind keeps the types.
LEMMA TypePreRunFind ==
  ASSUME TypeOK, ThreadsOK, PreRunFind
  PROVE  TypeOK'
  <1>1. QueueTypeOK' BY Zenon DEF PreRunFind, Goto, CallBack, StopQueue,
      TypeOK, QueueTypeOK, RunArgs, queueVars
  <1>2. ThreadTypeOK'
    <2>1. "run" \in Threads /\ "prerun" \in Threads BY Zenon DEF Threads
    <2>2. pc' \in [Threads -> ThreadLabels]
      BY Zenon, <2>1, GotoType DEF PreRunFind, TypeOK, ThreadLabels
    <2> QED BY ZenonT(60), <2>2 DEF PreRunFind, TypeOK, ThreadTypeOK, Threads, NodeTypeOK,
          ThreadsOK
  <1>3. HistTypeOK' BY Zenon, CallBackType DEF PreRunFind, TypeOK, HistTypeOK,
      histVars
  <1> QED BY Zenon, <1>1, <1>2, <1>3, TypeKeep DEF PreRunFind, TypeOK, nodeVars,
      listenerVars, ctrlVars, modelVars

\* PreRunLock keeps the types.
LEMMA TypePreRunLock ==
  ASSUME TypeOK, ThreadsOK, PreRunLock
  PROVE  TypeOK'
  <1>1. NodeTypeOK' BY Zenon DEF PreRunLock, Goto, Lock, TypeOK, NodeTypeOK,
      nodeVars
  <1>2. ThreadTypeOK' BY Zenon DEF PreRunLock, Goto, Lock, TypeOK, ThreadTypeOK,
      Threads, ThreadLabels, threadVars
  <1> QED BY Zenon, <1>1, <1>2, TypeKeep DEF PreRunLock, TypeOK, listenerVars,
      queueVars, ctrlVars, modelVars, histVars

\* PreRunCheck keeps the types.
LEMMA TypePreRunCheck ==
  ASSUME TypeOK, ThreadsOK, PreRunCheck
  PROVE  TypeOK'
  <1>1. NodeTypeOK' BY Zenon DEF PreRunCheck, ReturnError, CallBack,
      StopQueue, Unlock, Goto, TypeOK, NodeTypeOK, nodeVars
  <1>2. QueueTypeOK' BY Zenon DEF PreRunCheck, ReturnError, CallBack,
      StopQueue, Unlock, Goto, TypeOK, QueueTypeOK, RunArgs, queueVars
  <1>3. ThreadTypeOK' BY SMTT(60) DEF PreRunCheck, ReturnError, CallBack, StopQueue,
      Unlock, Goto, TypeOK, ThreadTypeOK, Threads, ThreadLabels, threadVars
  <1>4. HistTypeOK' BY Zenon, CallBackType DEF PreRunCheck, ReturnError,
      TypeOK, HistTypeOK, histVars
  <1> QED BY Zenon, <1>1, <1>2, <1>3, <1>4, TypeKeep DEF PreRunCheck, ReturnError,
      TypeOK, listenerVars, ctrlVars, modelVars

\* PreRunSet keeps the types.
LEMMA TypePreRunSet ==
  ASSUME TypeOK, ThreadsOK, PreRunSet
  PROVE  TypeOK'
  <1>1. NodeTypeOK' BY Zenon DEF PreRunSet, ReturnError, CallBack, StopQueue,
      Unlock, Goto, SetRunFlag, TypeOK, NodeTypeOK, nodeVars
  <1>2. QueueTypeOK' BY Zenon DEF PreRunSet, ReturnError, CallBack, StopQueue,
      Unlock, Goto, SetRunFlag, TypeOK, QueueTypeOK, RunArgs, queueVars
  <1>3. ThreadTypeOK'
    <2>1. "run" \in Threads /\ "prerun" \in Threads BY Zenon DEF Threads
    <2>2. pc' \in [Threads -> ThreadLabels]
      BY Zenon, <2>1, GotoType DEF PreRunSet, ReturnError, TypeOK, ThreadLabels
    <2>3. arg_model' \in [Threads -> BOOLEAN]
      BY ZenonT(60), <2>1 DEF PreRunSet, TypeOK, ThreadTypeOK, NodeTypeOK, ThreadsOK,
         PreRunHolds
    <2> QED BY Zenon, <2>2, <2>3 DEF PreRunSet, TypeOK, ThreadTypeOK
  <1>4. HistTypeOK' BY Zenon, CallBackType DEF PreRunSet, ReturnError, TypeOK,
      HistTypeOK, histVars
  <1> QED BY Zenon, <1>1, <1>2, <1>3, <1>4, TypeKeep DEF PreRunSet,
      ReturnError,
      TypeOK, listenerVars, ctrlVars, modelVars

\* PreRunBuilt(hit) keeps the types.
LEMMA TypePreRunBuilt ==
  ASSUME TypeOK, ThreadsOK, NEW hit \in BOOLEAN, PreRunBuilt(hit)
  PROVE  TypeOK'
  <1>1. NodeTypeOK' BY Zenon DEF PreRunBuilt, Goto, TypeOK, NodeTypeOK,
      nodeVars
  <1>2. ThreadTypeOK' BY Zenon DEF PreRunBuilt, Goto, TypeOK, ThreadTypeOK, Threads,
      ThreadLabels, threadVars
  <1>3. CtrlTypeOK' BY Zenon DEF PreRunBuilt, Goto, TypeOK, CtrlTypeOK, ctrlVars
  <1> QED BY Zenon, <1>1, <1>2, <1>3, TypeKeep DEF PreRunBuilt, TypeOK, listenerVars,
      queueVars, modelVars, histVars

\* PreRunFailed keeps the types.
LEMMA TypePreRunFailed ==
  ASSUME TypeOK, ThreadsOK, PreRunFailed
  PROVE  TypeOK'
  <1>1. NodeTypeOK' BY Zenon DEF PreRunFailed, ReturnError, CallBack,
      StopQueue, Unlock, Goto, SetRunFlag, TypeOK, NodeTypeOK, nodeVars
  <1>2. QueueTypeOK' BY Zenon DEF PreRunFailed, ReturnError, CallBack,
      StopQueue, Unlock, Goto, SetRunFlag, TypeOK, QueueTypeOK, RunArgs,
      queueVars
  <1>3. ThreadTypeOK' BY SMTT(60) DEF PreRunFailed, ReturnError, CallBack, StopQueue,
      Unlock, Goto, SetRunFlag, TypeOK, ThreadTypeOK, Threads, ThreadLabels,
      threadVars
  <1>4. HistTypeOK' BY Zenon, CallBackType DEF PreRunFailed, ReturnError,
      TypeOK, HistTypeOK, histVars
  <1> QED BY Zenon, <1>1, <1>2, <1>3, <1>4, TypeKeep DEF PreRunFailed, ReturnError,
      TypeOK, listenerVars, ctrlVars, modelVars

\* PreRunPush keeps the types.
LEMMA TypePreRunPush ==
  ASSUME TypeOK, ThreadsOK, PreRunPush
  PROVE  TypeOK'
  <1>1. QueueTypeOK'
    <2> DEFINE a == [req |-> req["prerun"], node |-> cur["prerun"],
                     model |-> arg_model["prerun"]]
    <2>1. req["prerun"] \in Requests /\ cur["prerun"] \in Nodes
      BY Zenon DEF PreRunPush, ThreadsOK
    <2>2. arg_model["prerun"] \in BOOLEAN
      BY Zenon DEF TypeOK, ThreadTypeOK, Threads
    <2>3. a \in RunArgs BY Zenon, <2>1, <2>2 DEF RunArgs
    <2>4. run_args_q_' = run_args_q_ \/ run_args_q_' = Append(run_args_q_, a)
      BY Zenon DEF PreRunPush
    <2> HIDE DEF a
    <2>5. run_args_q_' \in Seq(RunArgs)
      BY SMTT(60), <2>3, <2>4 DEF TypeOK, QueueTypeOK
    <2> QED BY Zenon, <2>5 DEF PreRunPush, TypeOK, QueueTypeOK
  <1>2. ThreadTypeOK' BY Zenon DEF PreRunPush, Goto, TypeOK, ThreadTypeOK, Threads,
      ThreadLabels, threadVars
  <1> QED BY Zenon, <1>1, <1>2, TypeKeep DEF PreRunPush, TypeOK, nodeVars,
      listenerVars, ctrlVars, modelVars, histVars

\* VarChange(t) keeps the types.
LEMMA TypeVarChange ==
  ASSUME TypeOK, ThreadsOK, NEW t \in Threads, VarChange(t)
  PROVE  TypeOK'
  <1>1. CtrlTypeOK' BY Zenon DEF VarChange, SetVarChanged, TypeOK, CtrlTypeOK,
      ctrlVars
  <1> QED BY Zenon, <1>1, TypeKeep DEF VarChange, TypeOK, nodeVars, listenerVars,
      queueVars, threadVars, modelVars, histVars

\* RunPop keeps the types.
LEMMA TypeRunPop ==
  ASSUME TypeOK, ThreadsOK, RunPop
  PROVE  TypeOK'
  <1>1. QueueTypeOK' BY SMTT(60) DEF RunPop, Goto, TypeOK, QueueTypeOK, RunArgs,
      queueVars
  <1>2. ThreadTypeOK'
    <2>1. Head(run_args_q_) \in RunArgs BY SMTT(60) DEF RunPop, TypeOK, QueueTypeOK
    <2> QED BY Zenon, <2>1 DEF RunPop, Goto, TypeOK, ThreadTypeOK, Threads,
          ThreadLabels, RunArgs
  <1> QED BY Zenon, <1>1, <1>2, TypeKeep DEF RunPop, TypeOK, nodeVars, listenerVars,
      ctrlVars, modelVars, histVars

\* RunSetCallback keeps the types.
LEMMA TypeRunSetCallback ==
  ASSUME TypeOK, ThreadsOK, RunSetCallback
  PROVE  TypeOK'
  <1>1. ListenerTypeOK' BY Zenon DEF RunSetCallback, Goto, SetCallback,
      TypeOK, ListenerTypeOK, listenerVars, ThreadTypeOK, Threads
  <1>2. ThreadTypeOK' BY Zenon DEF RunSetCallback, Goto, SetCallback, TypeOK,
      ThreadTypeOK, Threads, ThreadLabels, threadVars
  <1> QED BY Zenon, <1>1, <1>2, TypeKeep DEF RunSetCallback, TypeOK, nodeVars,
      queueVars, ctrlVars, modelVars, histVars

\* RunParse keeps the types.
LEMMA TypeRunParse ==
  ASSUME TypeOK, ThreadsOK, RunParse
  PROVE  TypeOK'
  <1>1. NodeTypeOK' BY Zenon DEF RunParse, ReturnError, CallBack, StopQueue,
      Unlock, Goto, TypeOK, NodeTypeOK, nodeVars
  <1>2. QueueTypeOK' BY Zenon DEF RunParse, ReturnError, CallBack, StopQueue,
      Unlock, Goto, TypeOK, QueueTypeOK, RunArgs, queueVars
  <1>3. ThreadTypeOK'
    <2>1. "run" \in Threads /\ "prerun" \in Threads BY Zenon DEF Threads
    <2>2. pc' \in [Threads -> ThreadLabels]
      BY Zenon, <2>1, GotoType DEF RunParse, ReturnError, TypeOK, ThreadLabels
    <2> QED BY Zenon, <2>2 DEF RunParse, ReturnError, TypeOK, ThreadTypeOK, Threads
  <1>4. HistTypeOK' BY Zenon, CallBackType DEF RunParse, ReturnError, TypeOK,
      HistTypeOK, histVars
  <1> QED BY ZenonT(60), <1>1, <1>2, <1>3, <1>4, TypeKeep DEF RunParse, ReturnError,
      TypeOK, listenerVars, ctrlVars, modelVars

\* RunExecute keeps the types.
LEMMA TypeRunExecute ==
  ASSUME TypeOK, ThreadsOK, RunExecute
  PROVE  TypeOK'
  <1>1. NodeTypeOK' BY ZenonT(60) DEF RunExecute, ReturnError, CallBack, StopQueue,
      Unlock, Goto, SetRunFlag, TypeOK, NodeTypeOK, nodeVars
  <1>2. QueueTypeOK' BY Zenon DEF RunExecute, ReturnError, CallBack,
      StopQueue, Unlock, Goto, SetRunFlag, TypeOK, QueueTypeOK, RunArgs,
      queueVars
  <1>3. ThreadTypeOK'
    <2>1. "run" \in Threads /\ "prerun" \in Threads BY Zenon DEF Threads
    <2>2. pc' \in [Threads -> ThreadLabels]
      BY Zenon, <2>1, GotoType DEF RunExecute, ReturnError, TypeOK, ThreadLabels
    <2> QED BY Zenon, <2>2 DEF RunExecute, ReturnError, TypeOK, ThreadTypeOK, Threads
  <1>4. ModelTypeOK'
    <2>1. cur["run"] \in Nodes /\ req["run"] \in Requests
      BY Zenon DEF RunExecute, ThreadsOK, RunHolds
    <2>2. Append(data[cur["run"]], req["run"]) \in Seq(Requests \cup
        {SyncData}) BY SMTT(60), <2>1 DEF TypeOK, ModelTypeOK
    <2> QED BY Zenon, <2>2 DEF RunExecute, TypeOK, ModelTypeOK
  <1>5. HistTypeOK' BY Zenon, CallBackType DEF RunExecute, ReturnError,
      TypeOK, HistTypeOK, histVars
  <1> QED BY ZenonT(60), <1>1, <1>2, <1>3, <1>4, <1>5, TypeKeep DEF RunExecute,
      ReturnError, TypeOK, listenerVars, ctrlVars

\* RunClearFlag keeps the types.
LEMMA TypeRunClearFlag ==
  ASSUME TypeOK, ThreadsOK, RunClearFlag
  PROVE  TypeOK'
  <1>1. NodeTypeOK' BY Zenon DEF RunClearFlag, Goto, SetRunFlag, TypeOK, NodeTypeOK,
      nodeVars
  <1>2. ThreadTypeOK' BY Zenon DEF RunClearFlag, Goto, TypeOK, ThreadTypeOK,
      Threads, ThreadLabels, threadVars
  <1> QED BY Zenon, <1>1, <1>2, TypeKeep DEF RunClearFlag, TypeOK, listenerVars,
      queueVars, ctrlVars, modelVars, histVars

\* RunUnlock keeps the types.
LEMMA TypeRunUnlock ==
  ASSUME TypeOK, ThreadsOK, RunUnlock
  PROVE  TypeOK'
  <1>1. NodeTypeOK' BY Zenon DEF RunUnlock, Goto, Unlock, TypeOK, NodeTypeOK,
      nodeVars
  <1>2. ThreadTypeOK' BY Zenon DEF RunUnlock, Goto, Unlock, TypeOK, ThreadTypeOK,
      Threads, ThreadLabels, threadVars
  <1> QED BY Zenon, <1>1, <1>2, TypeKeep DEF RunUnlock, TypeOK, listenerVars,
      queueVars, ctrlVars, modelVars, histVars

\* MemEnough(t) keeps the types.
LEMMA TypeMemEnough ==
  ASSUME TypeOK, ThreadsOK, NEW t \in Loaders, MemEnough(t)
  PROVE  TypeOK'
  <1>1. ThreadTypeOK' BY Zenon DEF MemEnough, Goto, TypeOK, ThreadTypeOK, Threads,
      ThreadLabels, Loaders, threadVars
  <1> QED BY Zenon, <1>1, TypeKeep DEF MemEnough, TypeOK, nodeVars, listenerVars,
      queueVars, ctrlVars, modelVars, histVars

\* MemInfoFails(t) keeps the types.
LEMMA TypeMemInfoFails ==
  ASSUME TypeOK, ThreadsOK, NEW t \in Loaders, MemInfoFails(t)
  PROVE  TypeOK'
  <1>1. NodeTypeOK' BY Zenon DEF MemInfoFails, LoaderFails, SetRunFlag,
      ReturnError, CallBack, StopQueue, Unlock, Goto, TypeOK, NodeTypeOK,
      nodeVars
  <1>2. QueueTypeOK' BY Zenon DEF MemInfoFails, LoaderFails, SetRunFlag,
      ReturnError, CallBack, StopQueue, Unlock, Goto, TypeOK, QueueTypeOK,
      RunArgs, queueVars
  <1>3. ThreadTypeOK'
    <2>1. "run" \in Threads /\ "prerun" \in Threads BY Zenon DEF Threads
    <2>2. pc' \in [Threads -> ThreadLabels]
      BY Zenon, <2>1, GotoType DEF MemInfoFails, LoaderFails, ReturnError, TypeOK,
         ThreadLabels, Threads, Loaders
    <2> QED BY Zenon, <2>2 DEF MemInfoFails, LoaderFails, ReturnError, TypeOK,
          ThreadTypeOK, Threads
  <1>4. HistTypeOK' BY Zenon, CallBackType DEF MemInfoFails, LoaderFails,
      ReturnError, TypeOK, HistTypeOK, histVars
  <1> QED BY ZenonT(60), <1>1, <1>2, <1>3, <1>4, TypeKeep DEF MemInfoFails, LoaderFails,
      ReturnError, TypeOK, listenerVars, ctrlVars, modelVars

\* MemShort(t) keeps the types.
LEMMA TypeMemShort ==
  ASSUME TypeOK, ThreadsOK, NEW t \in Loaders, MemShort(t)
  PROVE  TypeOK'
  <1>1. ThreadTypeOK' BY Zenon DEF MemShort, GraphMapNodes, Goto, TypeOK,
      ThreadTypeOK, Threads, ThreadLabels, Loaders, threadVars
  <1> QED BY Zenon, <1>1, TypeKeep DEF MemShort, TypeOK, nodeVars, listenerVars,
      queueVars, ctrlVars, modelVars, histVars

\* Release(t, n) keeps the types.
LEMMA TypeRelease ==
  ASSUME TypeOK, ThreadsOK, NEW t \in Loaders, NEW n \in Nodes, Release(t, n)
  PROVE  TypeOK'
  <1>1. ThreadTypeOK'
    <2>1. /\ todo[t] \subseteq Nodes \X BOOLEAN
          /\ <<n, TRUE>> \in Nodes \X BOOLEAN
      BY Zenon DEF TypeOK, ThreadTypeOK, Threads, Loaders
    <2>2. PICK T \in SUBSET (Nodes \X BOOLEAN) : todo' = [todo EXCEPT ![t] = T]
      <3> DEFINE rest == todo[t] \ {<<n, FALSE>>}
      <3>1. rest \in SUBSET (Nodes \X BOOLEAN) BY Zenon, <2>1
      <3>2. rest \cup {<<n, TRUE>>} \in SUBSET (Nodes \X BOOLEAN)
        BY Zenon, <2>1, <3>1
      <3> QED BY Zenon, <3>1, <3>2 DEF Release
    <2> QED BY Zenon, <2>2 DEF Release, TypeOK, ThreadTypeOK, Threads, Loaders
  <1>2. ModelTypeOK' BY Zenon, UnloadType DEF Release, TypeOK,
      ModelTypeOK, modelVars
  <1> QED BY Zenon, <1>1, <1>2, TypeKeep DEF Release, UnloadModel, TypeOK, nodeVars,
      listenerVars, queueVars, ctrlVars, histVars

\* ClearLoadFlag(t, n) keeps the types.
LEMMA TypeClearLoadFlag ==
  ASSUME TypeOK, ThreadsOK, NEW t \in Loaders, NEW n \in Nodes,
         ClearLoadFlag(t, n)
  PROVE  TypeOK'
  <1>1. NodeTypeOK' BY Zenon DEF ClearLoadFlag, TypeOK, NodeTypeOK, nodeVars
  <1>2. ThreadTypeOK' BY Zenon DEF ClearLoadFlag, TypeOK, ThreadTypeOK,
      Threads, ThreadLabels, Loaders, threadVars
  <1>3. ModelTypeOK' BY Zenon DEF ClearLoadFlag, TypeOK, ModelTypeOK
  <1> QED BY Zenon, <1>1, <1>2, <1>3, TypeKeep DEF ClearLoadFlag, TypeOK,
      listenerVars, queueVars, ctrlVars, histVars

\* Released(t) keeps the types.
LEMMA TypeReleased ==
  ASSUME TypeOK, ThreadsOK, NEW t \in Loaders, Released(t)
  PROVE  TypeOK'
  <1>1. ThreadTypeOK' BY Zenon DEF Released, Goto, TypeOK, ThreadTypeOK, Threads,
      ThreadLabels, Loaders, threadVars
  <1> QED BY Zenon, <1>1, TypeKeep DEF Released, TypeOK, nodeVars, listenerVars,
      queueVars, ctrlVars, modelVars, histVars

\* Load(t) keeps the types.
LEMMA TypeLoad ==
  ASSUME TypeOK, ThreadsOK, NEW t \in Loaders, Load(t)
  PROVE  TypeOK'
  <1>1. NodeTypeOK' BY Zenon DEF Load, Goto, TypeOK, NodeTypeOK, nodeVars
  <1>2. ThreadTypeOK' BY Zenon DEF Load, Goto, TypeOK, ThreadTypeOK, Threads,
      ThreadLabels, Loaders, threadVars
  <1>3. ModelTypeOK'
    <2>1. cur[t] \in Nodes BY Zenon DEF Load, ThreadsOK, RunHolds, Loaders
    <2>2. misflagged' \subseteq Nodes BY Zenon DEF Load, TypeOK, ModelTypeOK
    <2> QED BY Zenon, <2>1, <2>2, LoadOnlineType DEF Load, TypeOK
  <1> QED BY ZenonT(60), <1>1, <1>2, <1>3, TypeKeep DEF Load, TypeOK, listenerVars,
      queueVars, ctrlVars, histVars

\* LoadFails(t) keeps the types.
LEMMA TypeLoadFails ==
  ASSUME TypeOK, ThreadsOK, NEW t \in Loaders, LoadFails(t)
  PROVE  TypeOK'
  <1>1. NodeTypeOK' BY Zenon DEF LoadFails, LoaderFails, SetRunFlag,
      ReturnError, CallBack, StopQueue, Unlock, Goto, TypeOK, NodeTypeOK,
      nodeVars
  <1>2. QueueTypeOK' BY Zenon DEF LoadFails, LoaderFails, SetRunFlag,
      ReturnError, CallBack, StopQueue, Unlock, Goto, TypeOK, QueueTypeOK,
      RunArgs, queueVars
  <1>3. ThreadTypeOK' BY SMTT(60) DEF LoadFails, LoaderFails, SetRunFlag, ReturnError,
      CallBack, StopQueue, Unlock, Goto, TypeOK, ThreadTypeOK, Threads,
      ThreadLabels, Loaders, threadVars
  <1>4. HistTypeOK' BY Zenon, CallBackType DEF LoadFails, LoaderFails,
      ReturnError, TypeOK, HistTypeOK, histVars
  <1>5. ModelTypeOK'
    <2>1. cur[t] \in Nodes BY Zenon DEF LoadFails, ThreadsOK, RunHolds, Loaders
    <2>2. CASE UNCHANGED modelVars BY Zenon, <2>2, TypeKeep
    <2>3. CASE UnloadModel(cur[t]) /\ misflagged' \subseteq Nodes
      BY Zenon, <2>1, <2>3, UnloadType DEF TypeOK
    <2>4. CASE LoadOnline(cur[t], t) /\ misflagged' \subseteq Nodes
      BY Zenon, <2>1, <2>4, LoadOnlineType DEF TypeOK
    <2>5. misflagged \subseteq Nodes BY Zenon DEF TypeOK, ModelTypeOK
    <2> QED BY Zenon, <2>1, <2>2, <2>3, <2>4, <2>5 DEF LoadFails
  <1> QED BY ZenonT(60), <1>1, <1>2, <1>3, <1>4, <1>5, TypeKeep DEF LoadFails,
      LoaderFails, ReturnError, TypeOK, listenerVars, ctrlVars

\* ModelPop(n) keeps the types.
LEMMA TypeModelPop ==
  ASSUME TypeOK, ThreadsOK, NEW n \in Nodes, ModelPop(n)
  PROVE  TypeOK'
  <1>1. ModelTypeOK' BY SMTT(60) DEF ModelPop, TypeOK, ModelTypeOK, modelVars
  <1> QED BY Zenon, <1>1, TypeKeep DEF ModelPop, TypeOK, nodeVars, listenerVars,
      queueVars, threadVars, ctrlVars, histVars

\* A completed request is added to the history.
LEMMA ComputedType ==
  ASSUME computed \in Seq(Requests), NEW r, Computed(r)
  PROVE  computed' \in Seq(Requests)
  BY SMTT(60) DEF Computed

\* SyncComputeDone(n) keeps the types.
LEMMA TypeSyncComputeDone ==
  ASSUME TypeOK, ThreadsOK, NEW n \in Nodes, SyncComputeDone(n)
  PROVE  TypeOK'
  <1>1. ModelTypeOK' BY Zenon DEF SyncComputeDone, Computed, TypeOK, ModelTypeOK,
      modelVars
  <1>2. HistTypeOK'
    <2>1. computed' \in Seq(Requests)
      BY Zenon, ComputedType DEF SyncComputeDone, TypeOK, HistTypeOK
    <2> QED BY Zenon, <2>1 DEF SyncComputeDone, TypeOK, HistTypeOK
  <1> QED BY ZenonT(60), <1>1, <1>2, TypeKeep DEF SyncComputeDone, Computed,
      TypeOK, nodeVars, listenerVars, queueVars, threadVars, ctrlVars

\* AsyncComputeDone(n) keeps the types.
LEMMA TypeAsyncComputeDone ==
  ASSUME TypeOK, ThreadsOK, NEW n \in Nodes, AsyncComputeDone(n)
  PROVE  TypeOK'
  <1>1. ModelTypeOK' BY Zenon DEF AsyncComputeDone, Computed, CallBack,
      TypeOK, ModelTypeOK, modelVars
  <1>2. HistTypeOK'
    <2>1. cb' \in [Requests -> 0..MaxCb] /\ cb_ok' \in [Requests -> BOOLEAN]
      BY Zenon, CallBackType DEF AsyncComputeDone, TypeOK, HistTypeOK
    <2>2. computed' \in Seq(Requests)
      BY Zenon, ComputedType DEF AsyncComputeDone, TypeOK, HistTypeOK
    <2> QED BY Zenon, <2>1, <2>2 DEF AsyncComputeDone, TypeOK, HistTypeOK
  <1> QED BY ZenonT(60), <1>1, <1>2, TypeKeep DEF AsyncComputeDone, Computed,
      TypeOK, nodeVars, listenerVars, queueVars, threadVars, ctrlVars

\* ListenerPop(n) keeps the types.
LEMMA TypeListenerPop ==
  ASSUME TypeOK, ThreadsOK, NEW n \in Nodes, ListenerPop(n)
  PROVE  TypeOK'
  <1>1. ListenerTypeOK' BY Zenon DEF ListenerPop, TypeOK, ListenerTypeOK,
      listenerVars
  <1>2. ModelTypeOK' BY Zenon DEF ListenerPop, TypeOK, ModelTypeOK, modelVars
  <1> QED BY Zenon, <1>1, <1>2, TypeKeep DEF ListenerPop, TypeOK, nodeVars,
      queueVars, threadVars, ctrlVars, histVars

\* NoComputeDone(n) keeps the types.
LEMMA TypeNoComputeDone ==
  ASSUME TypeOK, ThreadsOK, NEW n \in Nodes, NoComputeDone(n)
  PROVE  TypeOK'
  <1>1. ModelTypeOK' BY Zenon DEF NoComputeDone, TypeOK, ModelTypeOK, modelVars
  <1> QED BY Zenon, <1>1, TypeKeep DEF NoComputeDone, TypeOK, nodeVars,
      listenerVars,
      queueVars, threadVars, ctrlVars, histVars

\* SyncCheck(t, g) keeps the types.
LEMMA TypeSyncCheck ==
  ASSUME TypeOK, ThreadsOK, NEW t \in SyncCallers, NEW g \in GraphIds,
         SyncCheck(t, g)
  PROVE  TypeOK'
  <1>1. ThreadTypeOK' BY Zenon DEF SyncCheck, Goto, TypeOK, ThreadTypeOK, Threads,
      ThreadLabels, SyncCallers, threadVars, NodeTypeOK
  <1> QED BY Zenon, <1>1, TypeKeep DEF SyncCheck, TypeOK, nodeVars,
      listenerVars, queueVars, ctrlVars, modelVars, histVars

\* SyncSet(t) keeps the types.
LEMMA TypeSyncSet ==
  ASSUME TypeOK, ThreadsOK, NEW t \in SyncCallers, SyncSet(t)
  PROVE  TypeOK'
  <1>1. NodeTypeOK' BY Zenon DEF SyncSet, Goto, SetRunFlag, IsGraphNeedBuild,
      TypeOK, NodeTypeOK, nodeVars
  <1>2. ThreadTypeOK' BY SMTT(60) DEF SyncSet, Goto, SetRunFlag, IsGraphNeedBuild,
      TypeOK, ThreadTypeOK, Threads, ThreadLabels, SyncCallers, threadVars,
      NodeTypeOK, ThreadsOK
  <1> QED BY ZenonT(60), <1>1, <1>2, TypeKeep DEF SyncSet, TypeOK, listenerVars,
      queueVars, ctrlVars, modelVars, histVars

\* SyncPreRun(t, hit) keeps the types.
LEMMA TypeSyncPreRun ==
  ASSUME TypeOK, ThreadsOK, NEW t \in SyncCallers, NEW hit \in BOOLEAN,
         SyncPreRun(t, hit)
  PROVE  TypeOK'
  <1>1. NodeTypeOK' BY Zenon DEF SyncPreRun, Goto, TypeOK, NodeTypeOK,
      nodeVars
  <1>2. ThreadTypeOK' BY Zenon DEF SyncPreRun, Goto, TypeOK, ThreadTypeOK, Threads,
      ThreadLabels, SyncCallers, threadVars
  <1> QED BY Zenon, <1>1, <1>2, TypeKeep DEF SyncPreRun, TypeOK, listenerVars,
      queueVars, ctrlVars, modelVars, histVars

\* SyncPreRunFailed(t) keeps the types.
LEMMA TypeSyncPreRunFailed ==
  ASSUME TypeOK, ThreadsOK, NEW t \in SyncCallers, SyncPreRunFailed(t)
  PROVE  TypeOK'
  <1>1. NodeTypeOK' BY Zenon DEF SyncPreRunFailed, Goto, SetRunFlag, TypeOK,
      NodeTypeOK, nodeVars
  <1>2. ThreadTypeOK' BY Zenon DEF SyncPreRunFailed, Goto, SetRunFlag, TypeOK,
      ThreadTypeOK, Threads, ThreadLabels, SyncCallers, threadVars
  <1> QED BY Zenon, <1>1, <1>2, TypeKeep DEF SyncPreRunFailed, TypeOK, listenerVars,
      queueVars, ctrlVars, modelVars, histVars

\* SyncBuilt(t) keeps the types.
LEMMA TypeSyncBuilt ==
  ASSUME TypeOK, ThreadsOK, NEW t \in SyncCallers, SyncBuilt(t)
  PROVE  TypeOK'
  <1>1. NodeTypeOK' BY Zenon DEF SyncBuilt, Goto, SetRunFlag, TypeOK,
      NodeTypeOK, nodeVars
  <1>2. ThreadTypeOK'
    <2>1. "run" \in Threads /\ "prerun" \in Threads BY Zenon DEF Threads
    <2>2. pc' \in [Threads -> ThreadLabels]
      BY Zenon, <2>1, GotoType DEF SyncBuilt, TypeOK, ThreadLabels, Threads,
         SyncCallers
    <2> QED BY Zenon, <2>2 DEF SyncBuilt, TypeOK, ThreadTypeOK, Threads, SyncCallers
  <1>3. CtrlTypeOK' BY Zenon DEF SyncBuilt, Goto, SetRunFlag, TypeOK,
      CtrlTypeOK, ctrlVars
  <1> QED BY ZenonT(60), <1>1, <1>2, <1>3, TypeKeep DEF SyncBuilt, TypeOK, listenerVars,
      queueVars, modelVars, histVars

\* SyncReset keeps the types.
LEMMA TypeSyncReset ==
  ASSUME TypeOK, ThreadsOK, SyncReset
  PROVE  TypeOK'
  <1>1. ThreadTypeOK' BY Zenon DEF SyncReset, Goto, TypeOK, ThreadTypeOK, Threads,
      ThreadLabels, threadVars
  <1>2. ModelTypeOK' BY Zenon DEF SyncReset, Goto, TypeOK, ModelTypeOK,
      modelVars
  <1> QED BY Zenon, <1>1, <1>2, TypeKeep DEF SyncReset, TypeOK, nodeVars,
      listenerVars, queueVars, ctrlVars, histVars

\* SyncInput keeps the types.
LEMMA TypeSyncInput ==
  ASSUME TypeOK, ThreadsOK, SyncInput
  PROVE  TypeOK'
  <1>1. ThreadTypeOK' BY Zenon DEF SyncInput, Goto, TypeOK, ThreadTypeOK, Threads,
      ThreadLabels, threadVars
  <1>2. ModelTypeOK'
    <2>1. cur["runner"] \in Nodes BY Zenon DEF SyncInput, ThreadsOK
    <2>2. Append(data[cur["runner"]], SyncData)
            \in Seq(Requests \cup {SyncData})
      BY SMTT(60), <2>1 DEF TypeOK, ModelTypeOK
    <2> QED BY Zenon, <2>2 DEF SyncInput, TypeOK, ModelTypeOK
  <1> QED BY ZenonT(60), <1>1, <1>2, TypeKeep DEF SyncInput, TypeOK, nodeVars,
      listenerVars, queueVars, ctrlVars, histVars

\* SyncExecuteFails keeps the types.
LEMMA TypeSyncExecuteFails ==
  ASSUME TypeOK, ThreadsOK, SyncExecuteFails
  PROVE  TypeOK'
  <1>1. NodeTypeOK' BY Zenon DEF SyncExecuteFails, SyncReturn, Goto,
      SetRunFlag, TypeOK, NodeTypeOK, nodeVars
  <1>2. ThreadTypeOK' BY Zenon DEF SyncExecuteFails, SyncReturn, Goto, SetRunFlag,
      TypeOK, ThreadTypeOK, Threads, ThreadLabels, threadVars
  <1> QED BY ZenonT(60), <1>1, <1>2, TypeKeep DEF SyncExecuteFails, SyncReturn, TypeOK,
      listenerVars, queueVars, ctrlVars, modelVars, histVars

\* SyncWait keeps the types.
LEMMA TypeSyncWait ==
  ASSUME TypeOK, ThreadsOK, SyncWait
  PROVE  TypeOK'
  <1>1. NodeTypeOK' BY Zenon DEF SyncWait, SyncReturn, Goto, SetRunFlag,
      TypeOK, NodeTypeOK, nodeVars
  <1>2. ThreadTypeOK' BY Zenon DEF SyncWait, SyncReturn, Goto, SetRunFlag, TypeOK,
      ThreadTypeOK, Threads, ThreadLabels, threadVars
  <1> QED BY ZenonT(60), <1>1, <1>2, TypeKeep DEF SyncWait, SyncReturn, TypeOK,
      listenerVars, queueVars, ctrlVars, modelVars, histVars

\* RemoveCheck(g) keeps the types.
LEMMA TypeRemoveCheck ==
  ASSUME TypeOK, ThreadsOK, NEW g \in GraphIds, RemoveCheck(g)
  PROVE  TypeOK'
  <1>1. ThreadTypeOK' BY Zenon DEF RemoveCheck, Goto, TypeOK, ThreadTypeOK, Threads,
      ThreadLabels, threadVars, NodeTypeOK
  <1> QED BY Zenon, <1>1, TypeKeep DEF RemoveCheck, TypeOK, nodeVars, listenerVars,
      queueVars, ctrlVars, modelVars, histVars

\* RemoveUnlink keeps the types.
LEMMA TypeRemoveUnlink ==
  ASSUME TypeOK, ThreadsOK, RemoveUnlink
  PROVE  TypeOK'
  <1>1. NodeTypeOK' BY Zenon DEF RemoveUnlink, Goto, TypeOK, NodeTypeOK,
      nodeVars
  <1>2. ThreadTypeOK' BY Zenon DEF RemoveUnlink, Goto, TypeOK, ThreadTypeOK,
      Threads, ThreadLabels, threadVars
  <1>3. CtrlTypeOK' BY Zenon DEF RemoveUnlink, Goto, TypeOK, CtrlTypeOK, ctrlVars
  <1> QED BY ZenonT(60), <1>1, <1>2, <1>3, TypeKeep DEF RemoveUnlink, TypeOK,
      listenerVars, queueVars, modelVars, histVars

\* RemoveUnload keeps the types.
LEMMA TypeRemoveUnload ==
  ASSUME TypeOK, ThreadsOK, RemoveUnload
  PROVE  TypeOK'
  <1>1. ThreadTypeOK' BY Zenon DEF RemoveUnload, Goto, UnloadModel, TypeOK,
      ThreadTypeOK, Threads, ThreadLabels, threadVars
  <1>2. ModelTypeOK'
    <2>1. cur["remover"] \in Nodes BY Zenon DEF RemoveUnload, ThreadsOK
    <2> QED BY Zenon, <2>1, UnloadType DEF RemoveUnload, TypeOK, ModelTypeOK,
          modelVars
  <1> QED BY ZenonT(60), <1>1, <1>2, TypeKeep DEF RemoveUnload, UnloadModel, TypeOK,
      nodeVars, listenerVars, queueVars, ctrlVars, histVars

\* FinalStop keeps the types.
LEMMA TypeFinalStop ==
  ASSUME TypeOK, ThreadsOK, FinalStop
  PROVE  TypeOK'
  <1>1. QueueTypeOK' BY Zenon DEF FinalStop, Goto, StopQueue, TypeOK,
      QueueTypeOK, RunArgs, queueVars
  <1>2. ThreadTypeOK' BY Zenon DEF FinalStop, Goto, StopQueue, TypeOK, ThreadTypeOK,
      Threads, ThreadLabels, threadVars
  <1> QED BY ZenonT(60), <1>1, <1>2, TypeKeep DEF FinalStop, TypeOK, nodeVars,
      listenerVars, ctrlVars, modelVars, histVars

\* FinalJoin keeps the types.
LEMMA TypeFinalJoin ==
  ASSUME TypeOK, ThreadsOK, FinalJoin
  PROVE  TypeOK'
  <1>1. ThreadTypeOK' BY Zenon DEF FinalJoin, GraphMapNodes, Goto, TypeOK,
      ThreadTypeOK, Threads, ThreadLabels, threadVars
  <1> QED BY Zenon, <1>1, TypeKeep DEF FinalJoin, TypeOK, nodeVars, listenerVars,
      queueVars, ctrlVars, modelVars, histVars

\* FinalUnload(n) keeps the types.
LEMMA TypeFinalUnload ==
  ASSUME TypeOK, ThreadsOK, NEW n \in Nodes, FinalUnload(n)
  PROVE  TypeOK'
  <1>1. ThreadTypeOK' BY Zenon DEF FinalUnload, UnloadModel, TypeOK,
      ThreadTypeOK,
      Threads, ThreadLabels, threadVars
  <1>2. ModelTypeOK' BY Zenon, UnloadType DEF FinalUnload, TypeOK, ModelTypeOK,
      modelVars
  <1> QED BY ZenonT(60), <1>1, <1>2, TypeKeep DEF FinalUnload, UnloadModel, TypeOK,
      nodeVars, listenerVars, queueVars, ctrlVars, histVars

\* FinalClear keeps the types.
LEMMA TypeFinalClear ==
  ASSUME TypeOK, ThreadsOK, FinalClear
  PROVE  TypeOK'
  <1>1. NodeTypeOK' BY Zenon DEF FinalClear, Goto, TypeOK, NodeTypeOK, nodeVars
  <1>2. ThreadTypeOK' BY Zenon DEF FinalClear, Goto, TypeOK, ThreadTypeOK, Threads,
      ThreadLabels, threadVars
  <1> QED BY ZenonT(60), <1>1, <1>2, TypeKeep DEF FinalClear, TypeOK, listenerVars,
      queueVars, ctrlVars, modelVars, histVars

\* Every step keeps the types.
LEMMA TypeNext == ASSUME TypeOK, ThreadsOK, [Next]_vars PROVE TypeOK'
  <1>1. CASE UNCHANGED vars BY ZenonT(60), <1>1, TypeKeep DEF vars, TypeOK
  <1>2. CASE Next BY ZenonT(60), <1>2, TypeAddGraph, TypeRunGraphAsync,
      TypePreRunPop, TypeThreadExit, TypePreRunFind, TypePreRunLock,
      TypePreRunCheck, TypePreRunSet, TypePreRunBuilt, TypePreRunFailed,
      TypePreRunPush, TypeVarChange, TypeRunPop, TypeRunSetCallback,
      TypeRunParse, TypeRunExecute, TypeRunClearFlag, TypeRunUnlock, TypeMemEnough,
      TypeMemInfoFails, TypeMemShort, TypeRelease, TypeClearLoadFlag,
      TypeReleased, TypeLoad,
      TypeLoadFails, TypeModelPop, TypeSyncComputeDone, TypeAsyncComputeDone,
      TypeListenerPop, TypeNoComputeDone, TypeSyncCheck, TypeSyncSet,
      TypeSyncPreRun, TypeSyncPreRunFailed, TypeSyncBuilt, TypeSyncReset,
      TypeSyncInput, TypeSyncExecuteFails, TypeSyncWait, TypeRemoveCheck,
      TypeRemoveUnlink, TypeRemoveUnload, TypeFinalStop, TypeFinalJoin,
      TypeFinalUnload, TypeFinalClear DEF Next, PreRunStep, RunStep, LoadStep,
      ModelStep, SyncStep, RemoveStep, FinalStep, SyncCallers, Loaders,
      Threads
  <1> QED BY ZenonT(60), <1>1, <1>2

\* The types and the shape of the threads are invariants of every behaviour.
LEMMA TypeAndThreads == Spec => [](TypeOK /\ ThreadsOK)
  <1>1. Init => TypeOK /\ ThreadsOK BY Zenon, TypeInit, ThreadsInit
  <1>2. TypeOK /\ ThreadsOK /\ [Next]_vars => (TypeOK /\ ThreadsOK)'
    BY Zenon, TypeNext, ThreadsNext
  <1> QED BY <1>1, <1>2, PTL DEF Spec

\* Type correctness of the whole manager, whatever the callers do and whatever
\* fails.
THEOREM TypeCorrect == Spec => []TypeOK
  BY TypeAndThreads, PTL

=============================================================================
