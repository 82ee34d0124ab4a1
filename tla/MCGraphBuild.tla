---------------------------- MODULE MCGraphBuild ----------------------------
EXTENDS GraphBuild

CONSTANTS L1, L2,              \* stream labels
          C1                   \* a continuous stream label

\* 1 is a compute engine, 2 attaches to the stream of a predecessor, 3 is the
\* engine whose nodes have no task, 4 has streams of its own.
MCEngines == 1 .. 4

MCEngineConf ==
  [e \in MCEngines |-> [scheduler |-> 1, skip |-> e = 3, attach |-> e = 2, independent |-> e = 4]]

MCMaxParallelNum == [e \in MCEngines |-> IF e = 1 THEN 2 ELSE 1]

Pairs(n) == {e \in (0 .. n - 1) \X (0 .. n - 1) : e[1] < e[2]}

Node(n, v) == [k \in 0 .. n - 1 |-> v]

Plain(n) ==
  [n |-> n, data |-> {}, ctrl |-> {}, kind |-> Node(n, "Op"), label |-> Node(n, NoLabel),
   acts |-> Node(n, <<>>), cont |-> Node(n, NoContinuous), engine |-> Node(n, 1),
   size |-> Node(n, 2), ws |-> Node(n, 0), single |-> FALSE, hcomPar |-> FALSE]

\* Every graph of four nodes over two engines; a node without a task has no
\* memory.
Small ==
  {[Plain(4) EXCEPT !.data = E, !.engine = e,
                    !.size = [n \in 0 .. 3 |-> IF e[n] = 3 THEN 0 ELSE IF n = k THEN 6 ELSE 2]] :
     E \in SUBSET Pairs(4), e \in [0 .. 3 -> 1 .. 3], k \in 0 .. 1}

\* Five nodes, the output of the first being read by the second, with sizes
\* that let the blocks of one stream go into those of another.
Merging ==
  {[Plain(5) EXCEPT !.data = E \cup {<<0, 1>>}, !.engine = [Node(5, 1) EXCEPT ![k] = 2],
                    !.size = [Node(5, 2) EXCEPT ![0] = 6], !.ws = [Node(5, 0) EXCEPT ![k] = 2]] :
     E \in SUBSET (Pairs(5) \ {<<0, 1>>}), k \in 2 .. 4}

\* A node that activates two labels.
Labelled ==
  {[Plain(6) EXCEPT !.data = E, !.ctrl = {<<1, 2>>, <<1, 3>>}, !.kind[1] = k, !.acts[1] = <<L1, L2>>,
                    !.label = [Node(6, NoLabel) EXCEPT ![2] = L1, ![3] = L2, ![4] = a, ![5] = b]] :
     E \in SUBSET {<<0, 1>>, <<0, 2>>, <<2, 3>>, <<2, 4>>, <<3, 4>>, <<3, 5>>, <<4, 5>>},
     k \in {"StreamActive", "StreamSwitch", "StreamSwitchN"},
     a \in {L1, NoLabel}, b \in {L1, L2, NoLabel}}

\* A switch whose branch starts the second label in turn.
Nested ==
  {[Plain(6) EXCEPT !.data = E, !.ctrl = {<<1, 2>>, <<3, 4>>}, !.kind = [Node(6, "Op") EXCEPT ![1] = k, ![3] = "StreamActive"],
                    !.acts = [Node(6, <<>>) EXCEPT ![1] = <<L1>>, ![3] = <<L2>>],
                    !.label = [Node(6, NoLabel) EXCEPT ![2] = L1, ![3] = L1, ![4] = L2, ![5] = L2]] :
     E \in SUBSET {<<0, 1>>, <<0, 3>>, <<0, 4>>, <<0, 5>>, <<2, 3>>, <<2, 5>>, <<4, 5>>},
     k \in {"StreamSwitch", "StreamActive"}}

\* An all-reduce of two gradients.
AllReduce ==
  {[Plain(6) EXCEPT !.data = E \cup {<<0, 2>>, <<1, 2>>}, !.engine = [Node(6, 1) EXCEPT ![2] = 4],
                    !.kind[2] = "HcomAllReduce", !.hcomPar = h] :
     E \in SUBSET {<<0, 3>>, <<2, 3>>, <<2, 4>>, <<3, 4>>, <<3, 5>>, <<4, 5>>}, h \in BOOLEAN}

\* Nodes that have to stay on one stream together.
Continuous ==
  {[Plain(5) EXCEPT !.data = {<<0, 1>>, <<1, 2>>, <<2, 3>>, <<3, 4>>} \cup E,
                    !.cont = [n \in 0 .. 4 |-> IF n \in c THEN C1 ELSE NoContinuous]] :
     E \in SUBSET {<<0, 2>>, <<1, 4>>}, c \in SUBSET (0 .. 4)}

\* A build with a single stream.
Single ==
  {[Plain(4) EXCEPT !.data = E, !.label[3] = l, !.single = TRUE, !.size[0] = 6] :
     E \in SUBSET Pairs(4), l \in {NoLabel, L1}}

\* A loop: an Enter node before the node that starts it, the loop's first node
\* and its condition, the body, and a node behind the loop.
Loop ==
  {[Plain(6) EXCEPT !.data = E, !.ctrl = {<<0, 1>>, <<1, 2>>, <<3, 4>>} \cup C,
                    !.kind = [Node(6, "Op") EXCEPT ![0] = "Enter", ![1] = "StreamActive", ![3] = "StreamSwitch"],
                    !.acts = [Node(6, <<>>) EXCEPT ![1] = <<L1>>, ![3] = <<L2>>],
                    !.label = [Node(6, NoLabel) EXCEPT ![2] = L1, ![3] = L1, ![4] = L2],
                    !.engine[0] = e] :
     E \in SUBSET {<<0, 2>>, <<0, 4>>, <<2, 3>>, <<2, 4>>, <<2, 5>>}, C \in SUBSET {<<0, 5>>, <<3, 5>>}, e \in {1, 4}}

MCGraphs == Small \cup Merging \cup Labelled \cup Nested \cup AllReduce \cup Continuous \cup Single \cup Loop

\* 0, 1 and 2 run on one stream, 3 and 5 on another; 4 waits for both, 5 only
\* for 3.  The output of 0 is read by 1; 4 and 5 have workspaces.
MCMemoGraphs ==
  {[Plain(6) EXCEPT !.data = {<<0, 1>>} \cup E, !.ctrl = {<<1, 2>>, <<2, 4>>, <<3, 4>>, <<3, 5>>},
                    !.engine = [Node(6, 1) EXCEPT ![3] = 4, ![5] = 4],
                    !.size = [Node(6, 0) EXCEPT ![0] = 6],
                    !.ws = [Node(6, 0) EXCEPT ![4] = 2, ![5] = 2]] :
     E \in SUBSET {<<1, 2>>, <<2, 3>>, <<2, 5>>, <<4, 5>>}}
=============================================================================
