-------------------------- MODULE GraphManagerProofs --------------------------
(*****************************************************************************)
(* Safety of GraphManager, for every set of graphs, nodes and requests,      *)
(* every queue capacity and every choice of failures: what every step does   *)
(* to the two kinds of semaphore, GraphNode::sem_ (NodeExclusive, inductive  *)
(* on top of TypeOK and ThreadsOK) and RunAsyncListener::sem_ (TokenOK,      *)
(* inductive when RunGraph is not used; AnswersOwner follows from it).       *)
(*****************************************************************************)
EXTENDS GraphManagerTypes

(***************************************************************************)
(* The critical section of a GraphNode.                                    *)
(***************************************************************************)
\* A step that touches neither semaphore, node nor queue, and by which no
\* thread enters, keeps the critical sections apart.
LEMMA ExclusiveStay ==
  ASSUME NodeExclusive, UNCHANGED <<sem_, cur, run_args_q_>>,
         PreRunHolds' => PreRunHolds, RunHolds' => RunHolds
  PROVE  NodeExclusive'
  BY Zenon DEF NodeExclusive

\* Whatever is in run_args_q_ has a node and a request.
LEMMA QueueNodes ==
  ASSUME TypeOK
  PROVE  \A i \in DOMAIN run_args_q_ :
           run_args_q_[i].node \in Nodes /\ run_args_q_[i].req \in Requests
  <1>1. \A i \in DOMAIN run_args_q_ : run_args_q_[i] \in RunArgs
    BY SMTT(60) DEF TypeOK, QueueTypeOK
  <1> QED BY Zenon, <1>1 DEF RunArgs

\* Unlock by the thread whose request is inside: it can free nobody else,
\* because nobody else is inside on that node.
LEMMA ExclusiveLeave ==
  ASSUME TypeOK, ThreadsOK, NodeExclusive, NEW t \in {"prerun", "run"}, 
         IF t = "prerun" THEN PreRunHolds ELSE RunHolds,
         NEW l \in {"pop", "exit"}, Goto(t, l), Unlock(cur[t]),
         UNCHANGED <<cur, run_args_q_>>
  PROVE  NodeExclusive'
  <1> USE DEF PreRunHolds, RunHolds
  <1>1. CASE t = "prerun"
    <2>1. ~PreRunHolds' /\ (RunHolds' <=> RunHolds)
      BY Zenon, <1>1 DEF Goto, TypeOK, ThreadTypeOK, Threads
    <2>2. \A n \in Nodes : n # cur["prerun"] => sem_'[n] = sem_[n]
      BY ZenonT(60), <1>1 DEF Unlock, TypeOK, NodeTypeOK
    <2> HIDE DEF PreRunHolds, RunHolds
    <2> QED BY ZenonT(60), <1>1, <2>1, <2>2, QueueNodes DEF NodeExclusive, ThreadsOK
  <1>2. CASE t = "run"
    <2>1. ~RunHolds' /\ (PreRunHolds' <=> PreRunHolds)
      BY Zenon, <1>2 DEF Goto, TypeOK, ThreadTypeOK, Threads
    <2>2. \A n \in Nodes : n # cur["run"] => sem_'[n] = sem_[n]
      BY Zenon, <1>2 DEF Unlock, TypeOK, NodeTypeOK
    <2>3. PreRunHolds => cur["prerun"] \in Nodes
      BY Zenon DEF ThreadsOK
    <2> HIDE DEF PreRunHolds, RunHolds
    <2> QED BY ZenonT(60), <1>2, <2>1, <2>2, QueueNodes, <2>3 DEF NodeExclusive
  <1> QED BY ZenonT(60), <1>1, <1>2

\* The same for the error path of PreRunThread and RunThread.
LEMMA ExclusiveError ==
  ASSUME TypeOK, ThreadsOK, NodeExclusive, NEW t \in {"prerun", "run"},
         IF t = "prerun" THEN PreRunHolds ELSE RunHolds,
         NEW ok, ReturnError(t, ok), UNCHANGED cur
  PROVE  NodeExclusive'
  BY Zenon, ExclusiveLeave DEF ReturnError

\* PreRunThread hands the critical section over to run_args_q_.
LEMMA ExclusivePush ==
  ASSUME TypeOK, ThreadsOK, NodeExclusive, PreRunPush
  PROVE  NodeExclusive'
  <1> DEFINE a == [req |-> req["prerun"], node |-> cur["prerun"],
                   model |-> arg_model["prerun"]]
  <1>1. PreRunHolds /\ ~PreRunHolds' /\ (RunHolds' <=> RunHolds)
    BY Zenon DEF PreRunPush, Goto, TypeOK, ThreadTypeOK, Threads, PreRunHolds,
       RunHolds
  <1>2. UNCHANGED <<sem_, cur>> BY Zenon DEF PreRunPush, nodeVars
  <1>3. CASE UNCHANGED run_args_q_
    BY ZenonT(60), <1>1, <1>2, <1>3, ExclusiveStay
  <1>4. CASE run_args_q_' = Append(run_args_q_, a)
    <2>1. a.node = cur["prerun"] BY Zenon
    <2> HIDE DEF a
    <2>2. /\ Len(run_args_q_) \in Nat
          /\ DOMAIN run_args_q_ = 1..Len(run_args_q_)
      BY SMTT(60) DEF TypeOK, QueueTypeOK
    <2>3. \A i \in DOMAIN run_args_q_' :
            \/ i \in DOMAIN run_args_q_ /\ run_args_q_'[i] = run_args_q_[i]
            \/ i = Len(run_args_q_) + 1 /\ run_args_q_'[i] = a
      BY SMTT(60), <1>4, <2>2 DEF TypeOK, QueueTypeOK
    <2> QED BY ZenonT(60), <1>1, <1>2, <2>1, <2>2, <2>3 DEF NodeExclusive
  <1> QED BY ZenonT(60), <1>3, <1>4 DEF PreRunPush

\* RunThread takes the critical section over from run_args_q_.
LEMMA ExclusivePop ==
  ASSUME TypeOK, ThreadsOK, NodeExclusive, RunPop
  PROVE  NodeExclusive'
  <1>1. RunHolds' /\ (PreRunHolds' <=> PreRunHolds)
    BY Zenon DEF RunPop, Goto, TypeOK, ThreadTypeOK, Threads, PreRunHolds, RunHolds
  <1>2. /\ UNCHANGED sem_
        /\ cur'["run"] = run_args_q_[1].node
        /\ cur'["prerun"] = cur["prerun"]
    BY SMTT(60) DEF RunPop, nodeVars, TypeOK, ThreadTypeOK, Threads, QueueTypeOK
  <1>3. 1 \in DOMAIN run_args_q_ BY SMTT(60) DEF RunPop, TypeOK, QueueTypeOK
  <1>4. \A i \in DOMAIN run_args_q_' :
          /\ i + 1 \in DOMAIN run_args_q_
          /\ i \in Nat \ {0}
          /\ run_args_q_'[i] = run_args_q_[i + 1]
    BY SMTT(60) DEF RunPop, TypeOK, QueueTypeOK
  <1> QED BY SMTT(60), <1>1, <1>2, <1>3, <1>4 DEF NodeExclusive

\* Every step keeps at most one request inside the critical section of a node.
LEMMA ExclusiveNext ==
  ASSUME TypeOK, ThreadsOK, NodeExclusive, [Next]_vars
  PROVE  NodeExclusive'
  <1>1. ASSUME NEW g \in GraphIds, NEW n \in Nodes, AddGraph(g, n) PROVE
      NodeExclusive' BY ZenonT(60), <1>1, ExclusiveStay DEF AddGraph, queueVars,
      threadVars, PreRunHolds, RunHolds
  <1>2. ASSUME NEW r \in Requests, NEW g \in GraphIds, RunGraphAsync(r, g)
      PROVE NodeExclusive' BY ZenonT(60), <1>2, ExclusiveStay DEF RunGraphAsync, nodeVars,
      threadVars, PreRunHolds, RunHolds
  <1>3. CASE PreRunPop BY ZenonT(60), <1>3, ExclusiveStay DEF PreRunPop, Goto, nodeVars,
      TypeOK, ThreadTypeOK, Threads, PreRunHolds, RunHolds
  <1>4. ASSUME NEW t \in {"prerun", "run"}, ThreadExit(t) PROVE NodeExclusive'
      BY ZenonT(60), <1>4, ExclusiveStay DEF ThreadExit, Goto, nodeVars, queueVars,
      TypeOK, ThreadTypeOK, Threads, PreRunHolds, RunHolds
  <1>5. CASE PreRunFind
    <2>1. ~PreRunHolds' /\ (RunHolds' <=> RunHolds)
      BY ZenonT(60), <1>5 DEF PreRunFind, Goto, TypeOK, ThreadTypeOK, Threads,
         PreRunHolds, RunHolds
    <2>2. cur'["run"] = cur["run"] /\ UNCHANGED <<sem_, run_args_q_>>
      BY ZenonT(60), <1>5 DEF PreRunFind, nodeVars, TypeOK, ThreadTypeOK, Threads
    <2> QED BY ZenonT(60), <2>1, <2>2 DEF NodeExclusive
  <1>6. CASE PreRunLock BY SMTT(60), <1>6 DEF PreRunLock, Goto, Lock, queueVars, TypeOK,
      ThreadTypeOK, NodeTypeOK, QueueTypeOK, RunArgs, Threads, ThreadsOK,
      NodeExclusive, PreRunHolds, RunHolds
  <1>7. CASE PreRunCheck
    <2>1. ASSUME NEW ok \in BOOLEAN, ReturnError("prerun", ok) PROVE
        NodeExclusive' BY ZenonT(60), <1>7, <2>1, ExclusiveError DEF PreRunCheck,
        PreRunHolds
    <2>2. CASE ~\E ok \in BOOLEAN : ReturnError("prerun", ok)
      BY ZenonT(60), <1>7, <2>2, ExclusiveStay DEF PreRunCheck, Goto, queueVars,
         TypeOK, ThreadTypeOK, Threads, PreRunHolds, RunHolds
    <2> QED BY ZenonT(60), <2>1, <2>2
  <1>8. CASE PreRunSet
    <2>1. ASSUME NEW ok \in BOOLEAN, ReturnError("prerun", ok) PROVE
        NodeExclusive' BY Zenon, <1>8, <2>1, ExclusiveError DEF PreRunSet,
        PreRunHolds
    <2>2. CASE ~\E ok \in BOOLEAN : ReturnError("prerun", ok)
      BY ZenonT(60), <1>8, <2>2, ExclusiveStay DEF PreRunSet, Goto, queueVars,
         TypeOK, ThreadTypeOK, Threads, PreRunHolds, RunHolds
    <2> QED BY Zenon, <2>1, <2>2
  <1>9. ASSUME NEW hit \in BOOLEAN, PreRunBuilt(hit) PROVE NodeExclusive' BY ZenonT(60),
      <1>9, ExclusiveStay DEF PreRunBuilt, Goto, queueVars, TypeOK,
      ThreadTypeOK, Threads, PreRunHolds, RunHolds
  <1>10. CASE PreRunFailed
    <2>1. ASSUME NEW ok \in BOOLEAN, ReturnError("prerun", ok) PROVE
        NodeExclusive' BY Zenon, <1>10, <2>1, ExclusiveError DEF PreRunFailed,
        PreRunHolds
    <2>2. CASE ~\E ok \in BOOLEAN : ReturnError("prerun", ok)
      BY ZenonT(60), <1>10, <2>2, ExclusiveLeave DEF PreRunFailed, Unlock, Goto,
         queueVars, TypeOK, ThreadTypeOK, Threads, PreRunHolds, RunHolds
    <2> QED BY Zenon, <2>1, <2>2
  <1>11. CASE PreRunPush BY Zenon, <1>11, ExclusivePush
  <1>12. ASSUME NEW t \in Threads, VarChange(t) PROVE NodeExclusive' BY Zenon, <1>12,
      ExclusiveStay DEF VarChange, nodeVars, queueVars, threadVars,
      PreRunHolds, RunHolds
  <1>13. CASE RunPop BY ZenonT(60), <1>13, ExclusivePop
  <1>14. CASE RunSetCallback BY ZenonT(60), <1>14, ExclusiveStay DEF RunSetCallback, Goto,
      nodeVars, queueVars, TypeOK, ThreadTypeOK, Threads, PreRunHolds,
      RunHolds
  <1>15. CASE RunParse
    <2>1. ASSUME NEW ok \in BOOLEAN, ReturnError("run", ok) PROVE
        NodeExclusive' BY ZenonT(60), <1>15, <2>1, ExclusiveError DEF RunParse, RunHolds
    <2>2. CASE ~\E ok \in BOOLEAN : ReturnError("run", ok)
      BY ZenonT(60), <1>15, <2>2, ExclusiveStay DEF RunParse, Goto, queueVars,
         TypeOK, ThreadTypeOK, Threads, PreRunHolds, RunHolds
    <2> QED BY Zenon, <2>1, <2>2
  <1>16. CASE RunExecute
    <2>1. ASSUME NEW ok \in BOOLEAN, ReturnError("run", ok) PROVE
        NodeExclusive' BY Zenon, <1>16, <2>1, ExclusiveError DEF RunExecute, RunHolds
    <2>2. CASE ~\E ok \in BOOLEAN : ReturnError("run", ok)
      BY ZenonT(60), <1>16, <2>2, ExclusiveStay DEF RunExecute, Goto, queueVars,
         TypeOK, ThreadTypeOK, Threads, PreRunHolds, RunHolds
    <2> QED BY Zenon, <2>1, <2>2
  <1>17a. CASE RunClearFlag BY ZenonT(60), <1>17a, ExclusiveStay DEF RunClearFlag, Goto,
      queueVars, TypeOK, ThreadTypeOK, Threads, PreRunHolds, RunHolds
  <1>17. CASE RunUnlock BY ZenonT(60), <1>17, ExclusiveLeave DEF RunUnlock, Goto, Unlock,
      RunHolds, queueVars
  <1>18. ASSUME NEW t \in Loaders, MemEnough(t) PROVE NodeExclusive' BY ZenonT(60), <1>18,
      ExclusiveStay DEF MemEnough, Goto, nodeVars, queueVars, TypeOK,
      ThreadTypeOK, Threads, Loaders, PreRunHolds, RunHolds
  <1>19. ASSUME NEW t \in Loaders, MemInfoFails(t) PROVE NodeExclusive'
    <2>1. CASE t = "run"
      BY ZenonT(60), <1>19, <2>1, ExclusiveError DEF MemInfoFails, LoaderFails,
         RunHolds
    <2>2. CASE t # "run" BY ZenonT(60), <1>19, <2>2, ExclusiveStay DEF
        MemInfoFails, LoaderFails, Goto, queueVars, TypeOK, ThreadTypeOK,
        Threads, PreRunHolds, RunHolds, Loaders
    <2> QED BY ZenonT(60), <2>1, <2>2
  <1>20. ASSUME NEW t \in Loaders, MemShort(t) PROVE NodeExclusive' BY ZenonT(60), <1>20,
      ExclusiveStay DEF MemShort, Goto, nodeVars, queueVars, TypeOK,
      ThreadTypeOK, Threads, Loaders, PreRunHolds, RunHolds
  <1>21. ASSUME NEW t \in Loaders, NEW n \in Nodes, Release(t, n) PROVE
      NodeExclusive' BY ZenonT(60), <1>21, ExclusiveStay DEF Release, UnloadModel,
      nodeVars, queueVars, Loaders, PreRunHolds, RunHolds
  <1>21a. ASSUME NEW t \in Loaders, NEW n \in Nodes, ClearLoadFlag(t, n) PROVE
      NodeExclusive' BY Zenon, <1>21a, ExclusiveStay DEF ClearLoadFlag, queueVars,
      Loaders, PreRunHolds, RunHolds
  <1>22. ASSUME NEW t \in Loaders, Released(t) PROVE NodeExclusive' BY ZenonT(60), <1>22,
      ExclusiveStay DEF Released, Goto, nodeVars, queueVars, TypeOK,
      ThreadTypeOK, Threads, Loaders, PreRunHolds, RunHolds
  <1>23. ASSUME NEW t \in Loaders, Load(t) PROVE NodeExclusive' BY ZenonT(60), <1>23,
      ExclusiveStay DEF Load, Goto, queueVars, TypeOK, ThreadTypeOK, Threads,
      Loaders, PreRunHolds, RunHolds
  <1>24. ASSUME NEW t \in Loaders, LoadFails(t) PROVE NodeExclusive'
    <2>1. CASE t = "run"
      BY Zenon, <1>24, <2>1, ExclusiveError DEF LoadFails, LoaderFails,
         RunHolds
    <2>2. CASE t # "run" BY ZenonT(60), <1>24, <2>2, ExclusiveStay DEF LoadFails,
        LoaderFails, Goto, queueVars, TypeOK, ThreadTypeOK, Threads,
        PreRunHolds, RunHolds, Loaders
    <2> QED BY Zenon, <2>1, <2>2
  <1>25. ASSUME NEW n \in Nodes, ModelPop(n) PROVE NodeExclusive' BY Zenon, <1>25,
      ExclusiveStay DEF ModelPop, nodeVars, queueVars, threadVars,
      PreRunHolds, RunHolds
  <1>26. ASSUME NEW n \in Nodes, SyncComputeDone(n) PROVE NodeExclusive' BY Zenon,
      <1>26, ExclusiveStay DEF SyncComputeDone, nodeVars, queueVars,
      threadVars, PreRunHolds, RunHolds
  <1>27. ASSUME NEW n \in Nodes, AsyncComputeDone(n) PROVE NodeExclusive' BY ZenonT(60),
      <1>27, ExclusiveStay DEF AsyncComputeDone, nodeVars, queueVars,
      threadVars, PreRunHolds, RunHolds
  <1>28. ASSUME NEW n \in Nodes, ListenerPop(n) PROVE NodeExclusive' BY ZenonT(60), <1>28,
      ExclusiveStay DEF ListenerPop, nodeVars, queueVars, threadVars,
      PreRunHolds, RunHolds
  <1>29. ASSUME NEW n \in Nodes, NoComputeDone(n) PROVE NodeExclusive' BY Zenon,
      <1>29, ExclusiveStay DEF NoComputeDone, nodeVars, queueVars, threadVars,
      PreRunHolds, RunHolds
  <1>30. ASSUME NEW t \in SyncCallers, NEW g \in GraphIds, SyncCheck(t, g)
      PROVE NodeExclusive' BY ZenonT(60), <1>30 DEF SyncCheck, Goto, nodeVars, queueVars,
      TypeOK, ThreadTypeOK, Threads, NodeExclusive, PreRunHolds, RunHolds,
      SyncCallers
  <1>31. ASSUME NEW t \in SyncCallers, SyncSet(t) PROVE NodeExclusive' BY ZenonT(60),
      Zenon, <1>31, ExclusiveStay DEF SyncSet, Goto, queueVars, TypeOK,
      ThreadTypeOK, Threads, SyncCallers, PreRunHolds, RunHolds
  <1>32. ASSUME NEW t \in SyncCallers, NEW hit \in BOOLEAN, SyncPreRun(t, hit)
      PROVE NodeExclusive' BY ZenonT(60), <1>32, ExclusiveStay DEF SyncPreRun, Goto,
      queueVars, TypeOK, ThreadTypeOK, Threads, SyncCallers, PreRunHolds,
      RunHolds
  <1>33. ASSUME NEW t \in SyncCallers, SyncPreRunFailed(t) PROVE
      NodeExclusive' BY ZenonT(60), <1>33, ExclusiveStay DEF SyncPreRunFailed, Goto,
      queueVars, TypeOK, ThreadTypeOK, Threads, SyncCallers, PreRunHolds,
      RunHolds
  <1>34. ASSUME NEW t \in SyncCallers, SyncBuilt(t) PROVE NodeExclusive' BY ZenonT(60),
      Zenon, <1>34, ExclusiveStay DEF SyncBuilt, Goto, queueVars, TypeOK,
      ThreadTypeOK, Threads, SyncCallers, PreRunHolds, RunHolds
  <1>35. CASE SyncReset BY ZenonT(60), <1>35, ExclusiveStay DEF SyncReset, Goto, nodeVars,
      queueVars, TypeOK, ThreadTypeOK, Threads, PreRunHolds, RunHolds
  <1>36. CASE SyncInput BY ZenonT(60), <1>36, ExclusiveStay DEF SyncInput, Goto, nodeVars,
      queueVars, TypeOK, ThreadTypeOK, Threads, PreRunHolds, RunHolds
  <1>37. CASE SyncExecuteFails BY ZenonT(60), <1>37, ExclusiveStay DEF SyncExecuteFails,
      SyncReturn, Goto, queueVars, TypeOK, ThreadTypeOK, Threads, PreRunHolds,
      RunHolds
  <1>38. CASE SyncWait BY ZenonT(60), <1>38, ExclusiveStay DEF SyncWait, SyncReturn, Goto,
      queueVars, TypeOK, ThreadTypeOK, Threads, PreRunHolds, RunHolds
  <1>39. ASSUME NEW g \in GraphIds, RemoveCheck(g) PROVE NodeExclusive' BY ZenonT(60),
      <1>39 DEF RemoveCheck, Goto, nodeVars, queueVars, TypeOK, ThreadTypeOK,
      Threads, NodeExclusive, PreRunHolds, RunHolds
  <1>40. CASE RemoveUnlink BY ZenonT(60), <1>40, ExclusiveStay DEF RemoveUnlink, Goto,
      queueVars, TypeOK, ThreadTypeOK, Threads, PreRunHolds, RunHolds
  <1>41. CASE RemoveUnload BY ZenonT(60), <1>41, ExclusiveStay DEF RemoveUnload, Goto,
      UnloadModel, nodeVars, queueVars, TypeOK, ThreadTypeOK, Threads,
      PreRunHolds, RunHolds
  <1>42. CASE FinalStop BY ZenonT(60), <1>42, ExclusiveStay DEF FinalStop, Goto, nodeVars,
      TypeOK, ThreadTypeOK, Threads, PreRunHolds, RunHolds
  <1>43. CASE FinalJoin BY ZenonT(60), <1>43, ExclusiveStay DEF FinalJoin, Goto, nodeVars,
      queueVars, TypeOK, ThreadTypeOK, Threads, PreRunHolds, RunHolds
  <1>44. ASSUME NEW n \in Nodes, FinalUnload(n) PROVE NodeExclusive' BY Zenon, <1>44,
      ExclusiveStay DEF FinalUnload, UnloadModel, nodeVars, queueVars,
      PreRunHolds, RunHolds
  <1>45. CASE FinalClear BY ZenonT(60), <1>45, ExclusiveStay DEF FinalClear, Goto,
      queueVars, TypeOK, ThreadTypeOK, Threads, PreRunHolds, RunHolds
  <1>46. CASE UNCHANGED vars BY Zenon, <1>46, ExclusiveStay DEF vars, nodeVars,
      queueVars, threadVars, PreRunHolds, RunHolds
  <1> QED BY ZenonT(60), <1>1, <1>2, <1>3, <1>4, <1>5, <1>6, <1>7, <1>8, <1>9, <1>10,
      <1>11, <1>12, <1>13, <1>14, <1>15, <1>16, <1>17a, <1>17, <1>18, <1>19, <1>20,
      <1>21, <1>22, <1>23, <1>24, <1>25, <1>26, <1>27, <1>28, <1>29, <1>30,
      <1>31, <1>32, <1>33, <1>34, <1>35, <1>36, <1>37, <1>38, <1>39, <1>40,
      <1>41, <1>42, <1>43, <1>44, <1>45, <1>46, <1>21a DEF Next, PreRunStep,
      RunStep,
      LoadStep, ModelStep, SyncStep, RemoveStep, FinalStep, SyncCallers,
      Loaders, Threads

(***************************************************************************)
(* The token of RunAsyncListener.                                          *)
(***************************************************************************)
\* No RunGraph call is under way.
RunnerIdle == pc["runner"] = "idle"

\* Without RunGraph the runner never leaves its idle state.
LEMMA RunnerNext ==
  ASSUME "run" \notin Ops, TypeOK, RunnerIdle, [Next]_vars
  PROVE  RunnerIdle'
  <1> USE DEF RunnerIdle
  <1>1. CASE UNCHANGED vars BY ZenonT(60), <1>1 DEF vars, threadVars
  <1>2. CASE PreRunStep
    BY Zenon, <1>2 DEF PreRunStep, PreRunPop, ThreadExit, PreRunFind,
       PreRunLock, PreRunCheck, PreRunSet, PreRunFailed, PreRunPush,
       PreRunBuilt, ReturnError, Goto, TypeOK, ThreadTypeOK, Threads
  <1>3. ASSUME NEW t \in {"run", "builder"}, LoadStep(t) PROVE RunnerIdle' BY ZenonT(60),
      Zenon, <1>3 DEF LoadStep, MemEnough, MemInfoFails, MemShort, Release,
      ClearLoadFlag, Released, Load, LoadFails, LoaderFails, ReturnError, Goto,
      TypeOK,
      ThreadTypeOK, Threads
  <1>4. CASE RunStep
    BY ZenonT(60), <1>3, <1>4 DEF RunStep, RunPop, ThreadExit, RunSetCallback,
       RunParse, RunExecute, RunClearFlag, RunUnlock, ReturnError, Goto, TypeOK,
       ThreadTypeOK, Threads
  <1>5. ASSUME NEW t \in SyncCallers, SyncStep(t) PROVE RunnerIdle'
    <2>1. t # "runner" BY ZenonT(60), <1>5 DEF SyncStep, SyncSet, SyncPreRun,
        SyncPreRunFailed, SyncBuilt, SyncReset, SyncInput, SyncExecuteFails,
        SyncWait, LoadStep, MemEnough, MemInfoFails, MemShort, Release,
        ClearLoadFlag, Released, Load, LoadFails
    <2> QED BY ZenonT(60), <1>3, <1>5, <2>1 DEF SyncCallers, SyncStep, SyncSet,
        SyncPreRun, SyncPreRunFailed, SyncBuilt, Goto, TypeOK, ThreadTypeOK,
        Threads
  <1>6. ASSUME NEW t \in SyncCallers, NEW g \in GraphIds, SyncCheck(t, g)
        PROVE  RunnerIdle'
    BY ZenonT(60), <1>6 DEF SyncCallers, SyncCheck, SyncOp, Goto, TypeOK, ThreadTypeOK,
       Threads
  <1>7. CASE \/ RemoveStep \/ FinalStop \/ FinalStep
             \/ \E g \in GraphIds : RemoveCheck(g)
    BY Zenon, <1>7 DEF RemoveStep, RemoveUnlink, RemoveUnload, FinalStop,
       FinalStep, FinalJoin, FinalUnload, FinalClear, RemoveCheck, Goto,
       TypeOK, ThreadTypeOK, Threads
  <1>8. CASE \/ \E g \in GraphIds, n \in Nodes : AddGraph(g, n)
             \/ \E r \in Requests, g \in GraphIds : RunGraphAsync(r, g)
             \/ \E n \in Nodes : ModelStep(n)
             \/ \E t \in SyncCallers \cup {"prerun"} : VarChange(t)
    BY Zenon, <1>8 DEF AddGraph, RunGraphAsync, ModelStep, ModelPop,
       SyncComputeDone, AsyncComputeDone, ListenerPop, NoComputeDone,
       VarChange, threadVars
  <1> QED BY ZenonT(60), <1>1, <1>2, <1>4, <1>5, <1>6, <1>7, <1>8 DEF Next

\* A step that touches neither listener nor model queue, and by which
\* RunThread does not pass SetCallback, keeps the token with its request.
LEMMA TokenStay ==
  ASSUME TokenOK, UNCHANGED <<cb_sem, callback_, data, exec>>,
         CallbackSet' => CallbackSet /\ cur'["run"] = cur["run"]
                                     /\ req'["run"] = req["run"]
  PROVE  TokenOK'
  BY Zenon DEF TokenOK

\* Unloading a model drops what is queued for it: the token of that request is
\* lost, no other is affected.
LEMMA TokenUnload ==
  ASSUME TypeOK, TokenOK, NEW n,
         data' = [data EXCEPT ![n] = <<>>],
         UNCHANGED <<cb_sem, callback_, exec>>,
         CallbackSet' => CallbackSet /\ cur'["run"] = cur["run"]
                                     /\ req'["run"] = req["run"]
  PROVE  TokenOK'
  <1>1. \A m \in Nodes : data'[m] = data[m] \/ data'[m] = <<>>
    BY Zenon DEF TypeOK, ModelTypeOK
  <1>2. CallbackSet' => data'[cur["run"]] = <<>>
    BY SMTT(60) DEF TokenOK, TypeOK, ModelTypeOK
  <1> QED BY ZenonT(60), <1>1, <1>2 DEF TokenOK

\* So does the end of a model's work on a request.
LEMMA TokenDone ==
  ASSUME TypeOK, TokenOK, NEW n,
         exec' = [exec EXCEPT ![n] = NoReq],
         UNCHANGED <<cb_sem, callback_, data, pc, cur, req>>
  PROVE  TokenOK'
  <1>1. \A m \in Nodes : exec'[m] = exec[m] \/ exec'[m] = NoReq
    BY Zenon DEF TypeOK, ModelTypeOK
  <1>2. CallbackSet' => CallbackSet /\ exec'[cur["run"]] = NoReq
    BY SMTT(60) DEF TokenOK, CallbackSet, TypeOK, ModelTypeOK
  <1> QED BY ZenonT(60), <1>1, <1>2 DEF TokenOK

\* A sequence without an element is the empty one.
LEMMA EmptyQueue == ASSUME NEW S, NEW s \in Seq(S), Len(s) = 0 PROVE s = <<>>
  BY SMTT(60)

\* Every step keeps the token of a listener with the one request it was taken
\* for.
LEMMA TokenNext ==
  ASSUME TypeOK, ThreadsOK, RunnerIdle, TokenOK, [Next]_vars
  PROVE  TokenOK'
  <1>1. ASSUME NEW g \in GraphIds, NEW n \in Nodes, AddGraph(g, n) PROVE
      TokenOK' BY ZenonT(60), <1>1, TokenStay DEF AddGraph, listenerVars, modelVars,
      threadVars, CallbackSet
  <1>2. ASSUME NEW r \in Requests, NEW g \in GraphIds, RunGraphAsync(r, g)
      PROVE TokenOK' BY ZenonT(60), <1>2, TokenStay DEF RunGraphAsync, listenerVars,
      modelVars, threadVars, CallbackSet
  <1>3. CASE PreRunPop BY Zenon, <1>3, TokenStay DEF PreRunPop, Goto, listenerVars,
      modelVars, TypeOK, ThreadTypeOK, Threads, CallbackSet
  <1>4. ASSUME NEW t \in {"prerun", "run"}, ThreadExit(t) PROVE TokenOK' BY ZenonT(60),
      <1>4, TokenStay DEF ThreadExit, Goto, listenerVars, modelVars, TypeOK,
      ThreadTypeOK, Threads, CallbackSet
  <1>5. CASE PreRunFind BY ZenonT(60), <1>5, TokenStay DEF PreRunFind, Goto,
      listenerVars, modelVars, TypeOK, ThreadTypeOK, Threads, CallbackSet
  <1>6. CASE PreRunLock BY ZenonT(60), <1>6, TokenStay DEF PreRunLock, Goto, listenerVars,
      modelVars, TypeOK, ThreadTypeOK, Threads, CallbackSet
  <1>7. CASE PreRunCheck BY ZenonT(60), <1>7, TokenStay DEF PreRunCheck,
      ReturnError, Goto, listenerVars, modelVars, TypeOK, ThreadTypeOK,
      Threads, CallbackSet
  <1>8. CASE PreRunSet BY ZenonT(60), <1>8, TokenStay DEF PreRunSet, ReturnError,
      Goto, listenerVars, modelVars, TypeOK, ThreadTypeOK, Threads,
      CallbackSet
  <1>9. ASSUME NEW hit \in BOOLEAN, PreRunBuilt(hit) PROVE TokenOK' BY ZenonT(60), <1>9,
      TokenStay DEF PreRunBuilt, Goto, listenerVars, modelVars, TypeOK,
      ThreadTypeOK, Threads, CallbackSet
  <1>10. CASE PreRunFailed BY ZenonT(60), <1>10, TokenStay DEF PreRunFailed,
      ReturnError, Goto, listenerVars, modelVars, TypeOK, ThreadTypeOK,
      Threads, CallbackSet
  <1>11. CASE PreRunPush BY ZenonT(60), <1>11, TokenStay DEF PreRunPush, Goto,
      listenerVars, modelVars, TypeOK, ThreadTypeOK, Threads, CallbackSet
  <1>12. ASSUME NEW t \in Threads, VarChange(t) PROVE TokenOK' BY Zenon, <1>12,
      TokenStay DEF VarChange, listenerVars, modelVars, threadVars,
      CallbackSet
  <1>13. CASE RunPop BY ZenonT(60), <1>13, TokenStay DEF RunPop, Goto, listenerVars,
      modelVars, TypeOK, ThreadTypeOK, Threads, CallbackSet
  <1>14. CASE RunSetCallback
    <2> DEFINE n == cur["run"]
    <2>1. n \in Nodes /\ ~cb_sem[n]
      BY Zenon, <1>14 DEF RunSetCallback, SetCallback, ThreadsOK, RunHolds
    <2>2. data[n] = <<>> /\ exec[n] = NoReq BY Zenon, <2>1 DEF TokenOK
    <2>3. /\ cb_sem' = [cb_sem EXCEPT ![n] = TRUE]
          /\ callback_' = [callback_ EXCEPT ![n] = req["run"]]
          /\ UNCHANGED <<data, exec, cur, req>>
      BY Zenon, <1>14 DEF RunSetCallback, SetCallback, modelVars
    <2>4. /\ \A m \in Nodes :
                cb_sem[m] => cb_sem'[m] /\ callback_'[m] = callback_[m]
          /\ cb_sem'[n] /\ callback_'[n] = req["run"]
      BY ZenonT(60), <2>1, <2>3 DEF TypeOK, ListenerTypeOK
    <2> QED BY ZenonT(60), <2>1, <2>2, <2>3, <2>4 DEF TokenOK
  <1>15. CASE RunParse BY Zenon, <1>15, TokenStay DEF RunParse, ReturnError, Goto,
      listenerVars, modelVars, TypeOK, ThreadTypeOK, Threads, CallbackSet
  <1>16. CASE RunExecute
    <2>1. /\ ~CallbackSet' /\ CallbackSet
          /\ cur["run"] \in Nodes /\ UNCHANGED <<cb_sem, callback_, exec>>
      BY ZenonT(60), <1>16 DEF RunExecute, ReturnError, Goto, listenerVars, TypeOK,
         ThreadTypeOK, Threads, ThreadsOK, RunHolds, CallbackSet
    <2>2. CASE UNCHANGED data BY Zenon, <2>1, <2>2 DEF TokenOK
    <2>3. CASE data' = [data EXCEPT ![cur["run"]] =
                          Append(data[cur["run"]], req["run"])]
      <3>1. data[cur["run"]] = <<>> BY Zenon, <2>1 DEF TokenOK
      <3>2. Append(<<>>, req["run"]) = <<req["run"]>> BY SMTT(60)
      <3>3. data' = [data EXCEPT ![cur["run"]] = <<req["run"]>>]
        BY ZenonT(60), <2>3, <3>1, <3>2
      <3> QED BY ZenonT(60), <2>1, <3>3 DEF TokenOK, TypeOK, ModelTypeOK
    <2> QED BY ZenonT(60), <1>16, <2>2, <2>3 DEF RunExecute
  <1>17a. CASE RunClearFlag BY Zenon, <1>17a, TokenStay DEF RunClearFlag, Goto, listenerVars,
      modelVars, TypeOK, ThreadTypeOK, Threads, CallbackSet
  <1>17. CASE RunUnlock BY Zenon, <1>17, TokenStay DEF RunUnlock, Goto, listenerVars,
      modelVars, TypeOK, ThreadTypeOK, Threads, CallbackSet
  <1>18. ASSUME NEW t \in Loaders, MemEnough(t) PROVE TokenOK' BY ZenonT(60), <1>18,
      TokenStay DEF MemEnough, Goto, listenerVars, modelVars, TypeOK,
      ThreadTypeOK, Threads, Loaders, CallbackSet
  <1>19. ASSUME NEW t \in Loaders, MemInfoFails(t) PROVE TokenOK' BY ZenonT(60),
      <1>19, TokenStay DEF MemInfoFails, LoaderFails, ReturnError, Goto,
      listenerVars, modelVars, TypeOK, ThreadTypeOK, Threads, Loaders,
      CallbackSet
  <1>20. ASSUME NEW t \in Loaders, MemShort(t) PROVE TokenOK' BY Zenon, <1>20,
      TokenStay DEF MemShort, Goto, listenerVars, modelVars, TypeOK,
      ThreadTypeOK, Threads, Loaders, CallbackSet
  <1>21. ASSUME NEW t \in Loaders, NEW n \in Nodes, Release(t, n) PROVE
      TokenOK'
    <2>1. /\ UNCHANGED <<cb_sem, callback_, pc, cur, req, exec>>
          /\ UNCHANGED data \/ data' = [data EXCEPT ![n] = <<>>]
      BY Zenon, <1>21 DEF Release, UnloadModel, EndModel, listenerVars,
         modelVars
    <2> QED BY ZenonT(60), <2>1, TokenStay, TokenUnload DEF CallbackSet
  <1>21a. ASSUME NEW t \in Loaders, NEW n \in Nodes, ClearLoadFlag(t, n) PROVE
      TokenOK' BY Zenon, <1>21a, TokenStay DEF ClearLoadFlag, listenerVars, modelVars,
      CallbackSet
  <1>22. ASSUME NEW t \in Loaders, Released(t) PROVE TokenOK' BY ZenonT(60), <1>22,
      TokenStay DEF Released, Goto, listenerVars, modelVars, TypeOK,
      ThreadTypeOK, Threads, Loaders, CallbackSet
  <1>23. ASSUME NEW t \in Loaders, Load(t) PROVE TokenOK'
    <2>1. /\ UNCHANGED <<cb_sem, callback_, cur, req, exec>>
          /\ UNCHANGED data \/ data' = [data EXCEPT ![cur[t]] = <<>>]
      BY Zenon, <1>23 DEF Load, LoadOnline, EndModel, listenerVars
    <2>2. CallbackSet' => CallbackSet
      BY ZenonT(60), <1>23 DEF Load, Goto, TypeOK, ThreadTypeOK, Threads, Loaders,
         CallbackSet
    <2> QED BY Zenon, <2>1, <2>2, TokenStay, TokenUnload
  <1>24. ASSUME NEW t \in Loaders, LoadFails(t) PROVE TokenOK'
    <2>1. UNCHANGED <<cb_sem, callback_, cur, req>>
      BY Zenon, <1>24 DEF LoadFails, listenerVars
    <2>2. UNCHANGED exec
      BY Zenon, <1>24 DEF LoadFails, LoadOnline, UnloadModel, EndModel, modelVars
    <2>3. UNCHANGED data \/ data' = [data EXCEPT ![cur[t]] = <<>>]
      BY Zenon, <1>24 DEF LoadFails, LoadOnline, UnloadModel, EndModel, modelVars
    <2>4. CallbackSet' => CallbackSet
      BY ZenonT(60), <1>24 DEF LoadFails, LoaderFails, ReturnError, Goto, TypeOK,
         ThreadTypeOK, Threads, Loaders, CallbackSet
    <2> QED BY Zenon, <2>1, <2>2, <2>3, <2>4, TokenStay, TokenUnload
  <1>25. ASSUME NEW n \in Nodes, ModelPop(n) PROVE TokenOK'
    <2>1. data[n] \in Seq(Requests \cup {SyncData}) /\ data[n] # <<>>
      BY Zenon, <1>25 DEF ModelPop, TypeOK, ModelTypeOK
    <2>2. /\ Len(data[n]) = 1 /\ exec[n] = NoReq
          /\ cb_sem[n] /\ callback_[n] = data[n][1]
      BY Zenon, <2>1 DEF TokenOK
    <2>3. Head(data[n]) = data[n][1] /\ Tail(data[n]) = <<>>
      <3>1. /\ Tail(data[n]) \in Seq(Requests \cup {SyncData})
            /\ Len(Tail(data[n])) = 0
        BY SMTT(60), <2>1, <2>2
      <3>2. Tail(data[n]) = <<>> BY Zenon, <3>1, EmptyQueue
      <3>3. Head(data[n]) = data[n][1] BY SMTT(60)
      <3> QED BY Zenon, <3>2, <3>3
    <2>4. /\ exec' = [exec EXCEPT ![n] = data[n][1]]
          /\ data' = [data EXCEPT ![n] = <<>>]
          /\ UNCHANGED <<cb_sem, callback_>>
          /\ UNCHANGED threadVars
      BY Zenon, <1>25, <2>3 DEF ModelPop, listenerVars
    <2>5. CallbackSet => cur["run"] # n
      BY Zenon, <2>1 DEF TokenOK
    <2>6. \A m \in Nodes :
            IF m = n THEN exec'[m] = data[n][1] /\ data'[m] = <<>>
            ELSE exec'[m] = exec[m] /\ data'[m] = data[m]
      BY Zenon, <2>4 DEF TypeOK, ModelTypeOK
    <2>7. CallbackSet' => CallbackSet /\ cur["run"] \in Nodes
      BY ZenonT(60), <2>4 DEF CallbackSet, threadVars, ThreadsOK, RunHolds
    <2> QED BY SMTT(60), <2>2, <2>4, <2>5, <2>6, <2>7 DEF TokenOK, threadVars
  <1>26. ASSUME NEW n \in Nodes, SyncComputeDone(n) PROVE TokenOK' BY ZenonT(60),
      <1>26, TokenDone DEF SyncComputeDone, listenerVars, threadVars
  <1>27. ASSUME NEW n \in Nodes, AsyncComputeDone(n) PROVE TokenOK'
    <2>1. UNCHANGED <<cb_sem, callback_, data, pc, cur, req>>
      BY ZenonT(60), <1>27 DEF AsyncComputeDone, listenerVars, threadVars
    <2>2. CASE UNCHANGED exec BY ZenonT(60), <2>1, <2>2, TokenStay DEF CallbackSet
    <2>3. CASE exec' = [exec EXCEPT ![n] = NoReq]
      BY Zenon, <2>1, <2>3, TokenDone
    <2> QED BY Zenon, <1>27, <2>2, <2>3 DEF AsyncComputeDone
  <1>28. ASSUME NEW n \in Nodes, ListenerPop(n) PROVE TokenOK'
    <2>1. data[n] = <<>> /\ (CallbackSet => cur["run"] # n)
      BY Zenon, <1>28 DEF ListenerPop, TokenOK
    <2>2. /\ cb_sem' = [cb_sem EXCEPT ![n] = FALSE]
          /\ exec' = [exec EXCEPT ![n] = NoReq]
          /\ UNCHANGED <<callback_, data, pc, cur, req>>
      BY Zenon, <1>28 DEF ListenerPop, threadVars
    <2>3. \A m \in Nodes : IF m = n THEN exec'[m] = NoReq
                           ELSE cb_sem'[m] = cb_sem[m] /\ exec'[m] = exec[m]
      BY ZenonT(60), <2>2 DEF TypeOK, ListenerTypeOK, ModelTypeOK
    <2>4. CallbackSet' => CallbackSet /\ cur["run"] \in Nodes
      BY Zenon, <2>2 DEF CallbackSet, ThreadsOK, RunHolds
    <2> QED BY SMTT(60), <2>1, <2>2, <2>3, <2>4 DEF TokenOK
  <1>29. ASSUME NEW n \in Nodes, NoComputeDone(n) PROVE TokenOK' BY ZenonT(60),
      <1>29, TokenDone DEF NoComputeDone, listenerVars, threadVars
  <1>30. ASSUME NEW t \in SyncCallers, NEW g \in GraphIds, SyncCheck(t, g)
      PROVE TokenOK' BY ZenonT(60), <1>30, TokenStay DEF SyncCheck, Goto,
      listenerVars, modelVars, TypeOK, ThreadTypeOK, Threads,
      SyncCallers, CallbackSet
  <1>31. ASSUME NEW t \in SyncCallers, SyncSet(t) PROVE TokenOK' BY ZenonT(60),
      <1>31, TokenStay DEF SyncSet, Goto, listenerVars, modelVars, TypeOK,
      ThreadTypeOK, Threads, SyncCallers, CallbackSet
  <1>32. ASSUME NEW t \in SyncCallers, NEW hit \in BOOLEAN, SyncPreRun(t, hit)
      PROVE TokenOK' BY ZenonT(60), <1>32, TokenStay DEF SyncPreRun, Goto, listenerVars,
      modelVars, TypeOK, ThreadTypeOK, Threads, SyncCallers, CallbackSet
  <1>33. ASSUME NEW t \in SyncCallers, SyncPreRunFailed(t) PROVE TokenOK' BY ZenonT(60),
      <1>33, TokenStay DEF SyncPreRunFailed, Goto, listenerVars, modelVars,
      TypeOK, ThreadTypeOK, Threads, SyncCallers, CallbackSet
  <1>34. ASSUME NEW t \in SyncCallers, SyncBuilt(t) PROVE TokenOK' BY ZenonT(60),
      <1>34, TokenStay DEF SyncBuilt, Goto, listenerVars, modelVars, TypeOK,
      ThreadTypeOK, Threads, SyncCallers, CallbackSet
  <1>35. CASE SyncReset BY Zenon, <1>35 DEF SyncReset, RunnerIdle
  <1>36. CASE SyncInput BY Zenon, <1>36 DEF SyncInput, RunnerIdle
  <1>37. CASE SyncExecuteFails BY ZenonT(60), <1>37 DEF SyncExecuteFails, RunnerIdle
  <1>38. CASE SyncWait BY ZenonT(60), <1>38 DEF SyncWait, RunnerIdle
  <1>39. ASSUME NEW g \in GraphIds, RemoveCheck(g) PROVE TokenOK' BY ZenonT(60), <1>39,
      TokenStay DEF RemoveCheck, Goto, listenerVars, modelVars, TypeOK,
      ThreadTypeOK, Threads, CallbackSet
  <1>40. CASE RemoveUnlink BY ZenonT(60), <1>40, TokenStay DEF RemoveUnlink, Goto,
      listenerVars, modelVars, TypeOK, ThreadTypeOK, Threads, CallbackSet
  <1>41. CASE RemoveUnload
    <2>1. /\ UNCHANGED <<cb_sem, callback_, cur, req, exec>>
          /\ UNCHANGED data \/ data' = [data EXCEPT ![cur["remover"]] = <<>>]
      BY Zenon, <1>41 DEF RemoveUnload, UnloadModel, EndModel,
         listenerVars, modelVars
    <2>2. CallbackSet' => CallbackSet
      BY ZenonT(60), <1>41 DEF RemoveUnload, Goto, TypeOK, ThreadTypeOK, Threads,
         CallbackSet
    <2> QED BY ZenonT(60), <2>1, <2>2, TokenStay, TokenUnload
  <1>42. CASE FinalStop BY ZenonT(60), <1>42, TokenStay DEF FinalStop, Goto, listenerVars,
      modelVars, TypeOK, ThreadTypeOK, Threads, CallbackSet
  <1>43. CASE FinalJoin BY ZenonT(60), <1>43, TokenStay DEF FinalJoin, Goto, listenerVars,
      modelVars, TypeOK, ThreadTypeOK, Threads, CallbackSet
  <1>44. ASSUME NEW n \in Nodes, FinalUnload(n) PROVE TokenOK'
    <2>1. /\ UNCHANGED <<cb_sem, callback_, pc, cur, req, exec>>
          /\ UNCHANGED data \/ data' = [data EXCEPT ![n] = <<>>]
      BY ZenonT(60), <1>44 DEF FinalUnload, UnloadModel, EndModel,
         listenerVars, modelVars
    <2> QED BY ZenonT(60), <2>1, TokenStay, TokenUnload DEF CallbackSet
  <1>45. CASE FinalClear BY Zenon, <1>45, TokenStay DEF FinalClear, Goto,
      listenerVars, modelVars, TypeOK, ThreadTypeOK, Threads, CallbackSet
  <1>46. CASE UNCHANGED vars BY Zenon, <1>46, TokenStay DEF vars, listenerVars,
      threadVars, modelVars, CallbackSet
  <1> QED BY ZenonT(60), <1>1, <1>2, <1>3, <1>4, <1>5, <1>6, <1>7, <1>8, <1>9, <1>10,
      <1>11, <1>12, <1>13, <1>14, <1>15, <1>16, <1>17a, <1>17, <1>18, <1>19, <1>20,
      <1>21, <1>22, <1>23, <1>24, <1>25, <1>26, <1>27, <1>28, <1>29, <1>30,
      <1>31, <1>32, <1>33, <1>34, <1>35, <1>36, <1>37, <1>38, <1>39, <1>40,
      <1>41, <1>42, <1>43, <1>44, <1>45, <1>46, <1>21a DEF Next, PreRunStep,
      RunStep,
      LoadStep, ModelStep, SyncStep, RemoveStep, FinalStep, SyncCallers,
      Loaders, Threads

\* GraphNode::Lock and Unlock, called on different threads with a queue in
\* between and on every error path, let at most one request at a time past
\* Lock on a node.
THEOREM Exclusive == Spec => []NodeExclusive
  <1>1. Init => NodeExclusive
    BY SMTT(60) DEF Init, NodeExclusive, PreRunHolds, RunHolds, Threads
  <1>2. TypeOK /\ ThreadsOK /\ NodeExclusive /\ [Next]_vars => NodeExclusive'
    BY Zenon, ExclusiveNext
  <1> QED BY <1>1, <1>2, TypeAndThreads, PTL DEF Spec

\* As long as RunGraph is not used beside RunGraphAsync, the callback a model
\* calls is that of the request whose data it has computed:
\* RunAsyncListener::SetCallback never overwrites the callback of a request
\* that is queued or being computed, whatever fails, is unloaded, removed or
\* finalized meanwhile.
THEOREM AnswersTheOwner ==
  ASSUME "run" \notin Ops
  PROVE  Spec => []AnswersOwner
  <1>1. Init => RunnerIdle /\ TokenOK
    BY SMTT(60) DEF Init, RunnerIdle, TokenOK, CallbackSet, Threads
  <1>2. TypeOK /\ ThreadsOK /\ RunnerIdle /\ TokenOK /\ [Next]_vars
          => (RunnerIdle /\ TokenOK)'
    BY Zenon, RunnerNext, TokenNext
  <1>3. TypeOK /\ TokenOK => AnswersOwner
    <2> SUFFICES ASSUME TypeOK, TokenOK, NEW n \in Nodes, NEW r \in Requests,
                        r = exec[n] \/ \E i \in DOMAIN data[n] : data[n][i] = r
                 PROVE  callback_[n] = r /\ cb_sem[n]
      BY Zenon DEF AnswersOwner
    <2>1. CASE r = exec[n] BY ZenonT(60), <2>1, ConstAssumption DEF TokenOK
    <2>2. CASE \E i \in DOMAIN data[n] : data[n][i] = r
      <3>1. data[n] \in Seq(Requests \cup {SyncData})
        BY Zenon DEF TypeOK, ModelTypeOK
      <3>2. data[n] # <<>> BY SMTT(60), <2>2, <3>1
      <3>3. Len(data[n]) = 1 /\ cb_sem[n] /\ callback_[n] = data[n][1]
        BY Zenon, <3>2 DEF TokenOK
      <3> QED BY SMTT(60), <2>2, <3>1, <3>3
    <2> QED BY Zenon, <2>1, <2>2
  <1> QED BY <1>1, <1>2, <1>3, TypeAndThreads, PTL DEF Spec

=============================================================================
