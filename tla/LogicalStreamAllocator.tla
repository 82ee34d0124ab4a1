----------------------- MODULE LogicalStreamAllocator -----------------------
(***************************************************************************)
(* The assignment of logical streams to the root graph                     *)
(* (ge/graph/build/logical_stream_allocator.cc): a list of passes, each    *)
(* filling in or changing the stream of the engine subgraphs.              *)
(*                                                                         *)
(* Every engine subgraph holds one node here, so that a node stands for    *)
(* its subgraph and an edge for a pair of end and placeholder.  g is the   *)
(* graph of BlockMemAssigner with, per node, an engine and a stream label; *)
(* the list of subgraphs is in topological order.  str[n] = -1 is          *)
(* kInvalidStream; next is Context::next_stream.                           *)
(***************************************************************************)
EXTENDS Integers, Sequences, FiniteSets, TLC, SequencesExt, FiniteSetsExt

CONSTANTS Engines,             \* engine ids, numbers in the order of their names
          EngineConf,          \* per engine: scheduler, skip, attach, independent
          MaxParallelNum,      \* per engine: max_parallel_num
          NoLabel              \* the empty stream label

kInvalidStream == -1

LNodes(g) == 0 .. g.n - 1

Preds(g, n) == {p \in LNodes(g) : <<p, n>> \in g.data \cup g.ctrl}

Succs(g, n) == {k \in LNodes(g) : <<n, k>> \in g.data \cup g.ctrl}

DataSuccs(g, n) == {k \in LNodes(g) : <<n, k>> \in g.data}

\* The nodes of S get streams from next on, a new one for each new key.
NumberByKey(S, key, next) ==
  [n \in S |-> next + Cardinality(
     {key[m] : m \in {m \in S : \A k \in S : key[k] = key[n] => m < k}})]

AddStreams(c, new) ==
  [c EXCEPT !.str = [n \in DOMAIN c.str |-> IF n \in DOMAIN new THEN new[n] ELSE c.str[n]],
            !.next = Max({c.next} \cup {new[n] + 1 : n \in DOMAIN new})]

\* Subgraphs of one stream label share a stream.
AssignByLabelPass(g, c) ==
  AddStreams(c, NumberByKey({n \in LNodes(g) : g.label[n] # NoLabel}, g.label, c.next))

\* An independent engine has a stream for each of its labels.
IndependentStreamPass(g, c) ==
  LET key == [n \in LNodes(g) |-> <<g.engine[n], g.label[n]>>]
  IN AddStreams(c, NumberByKey({n \in LNodes(g) : EngineConf[g.engine[n]].independent}, key, c.next))

-----------------------------------------------------------------------------
(* AssignByDependencyPass: d holds the streams counted per engine from 0,  *)
(* the subgraph whose stream a subgraph reuses (-1 for none), and for each *)
(* engine the next stream and the number of streams.                       *)

CouldReuse(g, d, sub, pred) ==
  LET conf  == EngineConf[g.engine[sub]]
      pconf == EngineConf[g.engine[pred]]
  IN /\ conf.scheduler = pconf.scheduler
     /\ ~pconf.independent
     /\ g.label[pred] = NoLabel
     /\ \A k \in Succs(g, pred) \ {sub} : g.engine[k] # g.engine[pred]
     /\ \/ g.engine[sub] = g.engine[pred]
        \/ conf.attach
        \/ d.reused[pred] # -1 /\ g.engine[d.reused[pred]] = g.engine[sub]

AssignNewStream(g, d, sub) ==
  LET e  == g.engine[sub]
      id == IF d.engNext[e] >= MaxParallelNum[e] THEN 0 ELSE d.engNext[e]
  IN [d EXCEPT !.str[sub] = id, !.engNext[e] = id + 1, !.engNum[e] = Max({@, id + 1})]

\* The predecessors are searched in the order of their addresses: any of the
\* reusable ones may be the first.
AssignOne(g, d, sub) ==
  LET reusable == {p \in Preds(g, sub) : CouldReuse(g, d, sub, p)}
      Root(p)  == IF d.reused[p] # -1 THEN d.reused[p] ELSE p
  IN IF d.str[sub] # kInvalidStream THEN {d}
     ELSE IF reusable = {} THEN {AssignNewStream(g, d, sub)}
     ELSE {[d EXCEPT !.str[sub] = d.str[p], !.reused[sub] = Root(p)] : p \in reusable}

\* The set of results: engines get consecutive ranges in the order of their
\* names, and a subgraph that reuses a stream follows the one it reuses.
AssignByDependencyPass(g, c) ==
  LET done  == {n \in LNodes(g) : c.str[n] # kInvalidStream}
      start == [str |-> c.str, reused |-> [n \in LNodes(g) |-> -1],
                engNext |-> [e \in Engines |-> 0], engNum |-> [e \in Engines |-> 0]]
      Step(ds, i) == UNION {AssignOne(g, d, i - 1) : d \in ds}
      First(d, e) == c.next + FoldSet(LAMBDA x, sum : sum + d.engNum[x], 0,
                                                   {x \in Engines : x < e})
      Update(d) ==
        LET Own(n) == IF n \in done THEN c.str[n] ELSE First(d, g.engine[n]) + d.str[n]
        IN [next |-> First(d, Max(Engines) + 1),
            str  |-> [n \in LNodes(g) |-> IF d.reused[n] # -1 THEN Own(d.reused[n]) ELSE Own(n)]]
  IN {Update(d) : d \in FoldLeftDomain(Step, {start}, [i \in 1 .. g.n |-> i])}

SingleStreamPass(g, c) ==
  [str |-> [n \in LNodes(g) |-> IF c.str[n] = kInvalidStream THEN c.next ELSE c.str[n]],
   next |-> c.next + 1]

-----------------------------------------------------------------------------
(* The passes over nodes.                                                  *)

NodeStreamUpdatePass(g, c) ==
  [c EXCEPT !.str = [n \in LNodes(g) |->
     IF EngineConf[g.engine[n]].skip /\ Preds(g, n) = {} THEN kInvalidStream ELSE c.str[n]]]

\* The data successors of the all-reduce nodes with several inputs, followed
\* as long as the stream labels allow.
AllReduceSuccs(g) ==
  LET roots == {n \in LNodes(g) : /\ g.kind[n] = "HcomAllReduce"
                                  /\ Cardinality({p \in LNodes(g) : <<p, n>> \in g.data}) > 1}
      Follow(root, S) ==
        {k \in UNION {DataSuccs(g, n) : n \in S} :
           \/ g.label[k] = g.label[root]
           \/ g.label[root] # NoLabel /\ g.label[k] = NoLabel}
      Below(root) == FoldLeft(LAMBDA S, i : S \cup Follow(root, S \cup {root}), {},
                              [i \in 1 .. g.n |-> i])
  IN UNION {Below(r) : r \in roots}

AllReduceParallelPass(g, c) ==
  LET succs  == {n \in AllReduceSuccs(g) : c.str[n] # kInvalidStream}
      new    == NumberByKey(succs, c.str, c.next)
      moved  == {n \in succs : g.kind[n] # "HcomAllReduce"}
  IN IF ~g.hcomPar THEN c
     ELSE [AddStreams(c, new) EXCEPT
             !.str = [n \in LNodes(g) |-> IF n \in moved THEN new[n] ELSE c.str[n]]]

GetSingleInoutStream(g, str, n) ==
  LET streams == {str[k] : k \in Preds(g, n) \cup Succs(g, n)} \ {kInvalidStream}
  IN IF Cardinality(streams) = 1 THEN CHOOSE s \in streams : TRUE ELSE kInvalidStream

UpdateForSkippedEnginePass(g, c) ==
  LET Free(n) == EngineConf[g.engine[n]].skip /\ g.label[n] = NoLabel /\ c.str[n] # kInvalidStream
      Step(str, i) ==
        LET n == i - 1
            s == GetSingleInoutStream(g, str, n)
        IN IF ~Free(n) THEN str
           ELSE IF \A p \in Preds(g, n) : str[p] = kInvalidStream
             THEN [str EXCEPT ![n] = kInvalidStream]
             ELSE IF Succs(g, n) # {} /\ s # kInvalidStream THEN [str EXCEPT ![n] = s] ELSE str
  IN [c EXCEPT !.str = FoldLeftDomain(Step, c.str, [i \in 1 .. g.n |-> i])]

\* Streams without nodes disappear.
RefreshContinuousStreams(g, c) ==
  LET used == {c.str[n] : n \in LNodes(g)} \ {kInvalidStream}
  IN [str  |-> [n \in LNodes(g) |-> IF c.str[n] = kInvalidStream THEN kInvalidStream
                                    ELSE Cardinality({s \in used : s < c.str[n]})],
      next |-> Cardinality(used)]

\* LogicalStreamAllocator::Assign: the set of possible results.
LogicalAssign(g) ==
  LET c0 == [str |-> [n \in LNodes(g) |-> kInvalidStream], next |-> 0]
      assigned == IF g.single THEN {SingleStreamPass(g, c0)}
                  ELSE AssignByDependencyPass(g, IndependentStreamPass(g, AssignByLabelPass(g, c0)))
      Rest(c) == LET c1 == NodeStreamUpdatePass(g, c)
                     c2 == IF g.single THEN c1 ELSE AllReduceParallelPass(g, c1)
                 IN RefreshContinuousStreams(g, UpdateForSkippedEnginePass(g, c2))
  IN {Rest(c) : c \in assigned}

=============================================================================
