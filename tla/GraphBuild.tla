----------------------------- MODULE GraphBuild -----------------------------
(***************************************************************************)
(* The build of a known-shape graph (ModelBuilder::BuildModelForGetTask):  *)
(* logical streams, then memory, then the real streams and events.  The    *)
(* memory is laid out for the logical streams, before events are dropped   *)
(* and streams are split, so its safety depends on what the later passes   *)
(* keep of the order; the properties below relate the final streams,       *)
(* events and addresses to the graph.                                      *)
(***************************************************************************)
EXTENDS StreamAllocator

CONSTANTS Graphs,              \* the graphs to build
          MEM_ALIGN_SIZE, kMaxLifeTime

Mem == INSTANCE BlockMemAssigner

VARIABLES
  g,           \* the graph; g.single and g.hcomPar are enable_single_stream_
               \* and hcom_parallel_
  pc,          \* the next pass, "done" or "failed"
  logical,     \* the logical stream of each node
  mem,         \* tensors with their addresses, and the dependency memo
  t,           \* the state of the stream allocator
  split        \* split_streams

vars == <<g, pc, logical, mem, t, split>>

NoMem == [tensors |-> {}, memOffset |-> 0, memo |-> <<>>]

NoStreams == [str |-> <<>>, num |-> 0, ev |-> {}, evNum |-> 0, lab |-> <<>>, act |-> <<>>,
              added |-> <<>>]

Init ==
  /\ g \in Graphs
  /\ pc = "AssignLogicalStreams"
  /\ logical = <<>>
  /\ mem = NoMem
  /\ t = NoStreams
  /\ split = <<>>

Fail == pc' = "failed" /\ UNCHANGED <<logical, mem, t, split>>

\* A labelled node cannot be built with a single stream.
AssignLogicalStreams ==
  /\ pc = "AssignLogicalStreams"
  /\ \/ /\ g.single /\ \E n \in LNodes(g) : g.label[n] # NoLabel
        /\ Fail
     \/ /\ ~(g.single /\ \E n \in LNodes(g) : g.label[n] # NoLabel)
        /\ \E c \in LogicalAssign(g) :
             /\ logical' = c.str
             /\ t' = [NoStreams EXCEPT !.num = c.next]
        /\ pc' = "AssignMemory"
        /\ UNCHANGED <<mem, split>>
  /\ UNCHANGED g

\* The binary and the max block assigner, on the sizes of the graph.
AssignMemory ==
  /\ pc = "AssignMemory"
  /\ IF Mem!AllMemorySize(g) = <<>>
       THEN pc' = "InsertSyncEvents" /\ mem' = [mem EXCEPT !.memo = [n \in LNodes(g) |-> <<>>]]
       ELSE /\ mem' = [bin |-> Mem!AssignMemoryWithReuse(g, logical, Mem!BinaryRanges(g)),
                       max |-> Mem!AssignMemoryWithReuse(g, logical, Mem!MaxRanges(g))]
            /\ pc' = "ReuseBlocksByLifeTime"
  /\ UNCHANGED <<g, logical, t, split>>

ReuseBlocks ==
  /\ pc = "ReuseBlocksByLifeTime"
  /\ mem' = [bin |-> Mem!ReuseBlocksByLifeTime(g, logical, mem.bin),
             max |-> Mem!ReuseBlocksByLifeTime(g, logical, mem.max)]
  /\ pc' = "ResizeMemoryBlocks"
  /\ UNCHANGED <<g, logical, t, split>>

SetOffsets ==
  LET a == Mem!HybridAssign(Mem!ResizeMemoryBlocks(mem.bin), Mem!ResizeMemoryBlocks(mem.max))
  IN /\ pc = "ResizeMemoryBlocks"
     /\ mem' = [tensors |-> Mem!SetOpMemOffset(a), memOffset |-> a.memOffset, memo |-> a.memo]
     /\ pc' = "InsertSyncEvents"
     /\ UNCHANGED <<g, logical, t, split>>

\* SetActiveStreamsByLabel, then InsertSyncEvents.
InsertEvents ==
  LET t1 == SetActiveStreamsByLabel(g, logical, t.num)
  IN /\ pc = "InsertSyncEvents"
     /\ IF InsertSyncEventsFails(g, t1)
          THEN Fail
          ELSE /\ t' = InsertSyncEvents(g, t1)
               /\ pc' = "OptimizeSyncEvents"
               /\ UNCHANGED <<logical, mem, split>>
     /\ UNCHANGED g

OptimizeEvents ==
  /\ pc = "OptimizeSyncEvents"
  /\ t' = OptimizeSyncEvents(g, t)
  /\ pc' = "SplitStreams"
  /\ UNCHANGED <<g, logical, mem, split>>

Split ==
  LET x == SplitStreams(g, t)
  IN /\ pc = "SplitStreams"
     /\ \/ /\ g.single \/ t.num = 0
           /\ split' = [s \in 0 .. t.num - 1 |-> {}]
           /\ pc' = "UpdateActiveStreams"
           /\ UNCHANGED <<logical, mem, t>>
        \/ /\ ~(g.single \/ t.num = 0) /\ ~x.ok
           /\ Fail
        \/ /\ ~(g.single \/ t.num = 0) /\ x.ok
           /\ t' = [t EXCEPT !.str = x.str, !.num = x.last + 1, !.ev = x.ev, !.evNum = x.evNum]
           /\ split' = x.split
           /\ pc' = "UpdateActiveStreams"
           /\ UNCHANGED <<logical, mem>>
     /\ UNCHANGED g

UpdateActive ==
  LET t1 == UpdateActiveStreams(g, t, split)
  IN /\ pc = "UpdateActiveStreams"
     /\ IF CheckStreamActivedFails(t1)
          THEN Fail
          ELSE /\ t' = t1
               /\ pc' = "RefreshContinuousEvents"
               /\ UNCHANGED <<logical, mem, split>>
     /\ UNCHANGED g

RefreshEvents ==
  /\ pc = "RefreshContinuousEvents"
  /\ t' = FillInvalidStreams(RefreshContinuousEvents(g, t))
  /\ pc' = "done"
  /\ UNCHANGED <<g, logical, mem, split>>

Next ==
  \/ AssignLogicalStreams
  \/ AssignMemory
  \/ ReuseBlocks
  \/ SetOffsets
  \/ InsertEvents
  \/ OptimizeEvents
  \/ Split
  \/ UpdateActive
  \/ RefreshEvents

Spec == Init /\ [][Next]_vars

-----------------------------------------------------------------------------
(* Properties.                                                             *)

\* Every variable has its type.
TypeOK ==
  /\ pc \in {"AssignLogicalStreams", "AssignMemory", "ReuseBlocksByLifeTime",
             "ResizeMemoryBlocks", "InsertSyncEvents", "OptimizeSyncEvents", "SplitStreams",
             "UpdateActiveStreams", "RefreshContinuousEvents", "done", "failed"}
  /\ pc \notin {"AssignLogicalStreams", "failed"} =>
       /\ DOMAIN logical = LNodes(g)
       /\ \A n \in LNodes(g) : logical[n] \in Nat \cup {kInvalidStream}
  /\ pc = "done" =>
       /\ \A n \in LNodes(g) : t.str[n] \in 0 .. t.num - 1
       /\ {e.id : e \in t.ev} = 0 .. t.evNum - 1
       /\ \A e \in t.ev : e.send \in LNodes(g) /\ e.recv \in LNodes(g)

Done == pc = "done"

HasTask(n) == logical[n] # kInvalidStream

\* The nodes of one continuous stream label follow each other in their stream.
ContinuousAdjacent ==
  \A a, b \in LNodes(g) : \A k \in a .. b :
    (g.cont[a] = g.cont[b] /\ g.cont[a] # NoContinuous /\ logical[k] = logical[a])
      => g.cont[k] = g.cont[a] /\ logical[b] = logical[a]

\* A switch with labels of one stream and labels of several streams: its list
\* of streams is overwritten with the streams of the inserted nodes.
MixedSwitch ==
  \E n \in LNodes(g) : IsSwitch(g, n) /\ \E l, k \in ToSet(g.acts[n]) :
    Cardinality(t.lab[l]) = 1 /\ Cardinality(t.lab[k]) > 1

Regular == ContinuousAdjacent /\ ~MixedSwitch

\* OptimizeSyncEvents drops the events a StreamSwitch sends to nodes it does
\* not activate, after it has dropped those that they made redundant: the order
\* of the switch, and of the nodes before it in its stream, before such a node
\* and those behind it is given up.
GivenUp(a, b) ==
  \E e \in g.data \cup g.ctrl :
    /\ g.kind[e[1]] = "StreamSwitch" /\ g.label[e[2]] \notin ToSet(g.acts[e[1]])
    /\ logical[a] = logical[e[1]] /\ a <= e[1]
    /\ logical[b] = logical[e[2]] /\ e[2] <= b

\* Every edge of the graph is respected: when the device runs streams side by
\* side, no node starts before the nodes it reads from or is controlled by are
\* done, but for edges out of Enter nodes, which get no event, and what is
\* given up behind a StreamSwitch.  The events left by OptimizeSyncEvents and
\* SplitStreams suffice, and two nodes of one logical stream still run in their
\* order after SplitStreams has spread them over several streams.
EdgesOrdered ==
  Done /\ Regular =>
    /\ \A e \in g.data \cup g.ctrl :
         /\ HasTask(e[1])
         /\ ~(g.kind[e[1]] = "Enter" /\ g.kind[e[2]] # "StreamActive")
         /\ ~GivenUp(e[1], e[2])
         => e \in HappensBefore(g, t)
    /\ \A a, b \in LNodes(g) :
         HasTask(a) /\ logical[a] = logical[b] /\ a < b => <<a, b>> \in HappensBefore(g, t)

\* No node waits for itself: stream order, events and activations together
\* have no cycle, so the device never hangs on the events of the model.
NoEventCycle ==
  Done => \A n \in AllNodes(g, t) : <<n, n>> \notin HappensBefore(g, t)

\* The nodes that use the memory of a tensor.
Users(x) == {x.node} \cup (IF x.mem = "output" THEN DataSuccs(g, x.node) ELSE {})

Overlap(x, y) == x # y /\ x.from < y.to /\ y.from < x.to

\* The saved stream dependencies say only what the graph's streams and edges
\* guarantee.  AddDependLife can save more than that: see MemorySafe's run
\* without this condition.
MemoTruthful ==
  \A n \in DOMAIN mem.memo : \A s \in DOMAIN mem.memo[n] :
    mem.memo[n][s] = n \/ <<mem.memo[n][s], n>> \in HappensBefore(g, t)

\* Of two tensors that share memory one is out of use before the other is
\* written: everyone who uses the one is ordered before the node that writes
\* the other, by the streams and events the graph ends up with.
MemorySafe ==
  Done => \A x, y \in mem.tensors :
    Overlap(x, y) =>
      \/ \A u \in Users(x) : <<u, y.node>> \in HappensBefore(g, t)
      \/ \A u \in Users(y) : <<u, x.node>> \in HappensBefore(g, t)

\* MemorySafe holds for every graph whose saved stream dependencies
\* (BlockMemAssigner's AddDependLife) say no more than is guaranteed.
MemorySafeIfTruthful == Done /\ Regular /\ MemoTruthful => MemorySafe

\* The streams node a starts: those on its list, and those on the lists of the
\* inserted nodes that it starts.
Started(a) ==
  LET own == t.act[a]
  IN own \cup UNION {t.added[i].act : i \in {i \in DOMAIN t.added : t.added[i].stream \in own}}

\* A branch runs when it is activated and only then.  The node that activates
\* a label starts every stream that holds a node of the label, those that
\* SplitStreams added included, a switch starts at most one stream per label,
\* and a stream that a label activates holds no other node that must run.
ActivatedByOwner ==
  /\ Done /\ Regular => \A a \in LNodes(g) :
       /\ \A n \in LNodes(g) :
            HasTask(n) /\ g.label[n] \in ToSet(g.acts[a]) => t.str[n] \in Started(a)
       /\ IsSwitch(g, a) => Cardinality(t.act[a]) <= Len(g.acts[a])
  /\ Done => \A a, b \in LNodes(g) :
       /\ HasTask(a) /\ HasTask(b)
       /\ ~EngineConf[g.engine[a]].skip /\ ~EngineConf[g.engine[b]].skip
       /\ g.label[a] # g.label[b]
       => logical[a] # logical[b] /\ t.str[a] # t.str[b]

\* The build fails only for what it documents as an error, a stream label in a
\* single-stream build or a continuous stream label that does not fit (and
\* every variable keeps its range); a stream of several nodes then holds no
\* more nodes and events than the device's limit of tasks allows, but for the
\* two events that splitting itself adds.
BuildWithinLimits ==
  /\ TypeOK
  /\ pc = "failed" => \/ g.single /\ \E n \in LNodes(g) : g.label[n] # NoLabel
                      \/ \E n \in LNodes(g) : g.cont[n] # NoContinuous
  /\ Done /\ ~g.single /\ (\A n \in LNodes(g) : g.cont[n] = NoContinuous) =>
       \A s \in 0 .. t.num - 1 :
         LET on   == {n \in LNodes(g) : HasTask(n) /\ t.str[n] = s}
             used == FoldSet(LAMBDA n, sum : sum + NodeNum(t.ev, n), 0, on)
         IN Cardinality(on) > 1 => used <= 2 + Max({GetMaxNodeNumPerStream(g, n) : n \in on})

=============================================================================
