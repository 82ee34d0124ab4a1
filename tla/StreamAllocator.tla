--------------------------- MODULE StreamAllocator ---------------------------
(***************************************************************************)
(* The real streams and events of a graph                                  *)
(* (ge/graph/build/stream_allocator.cc, RefreshRealStream): events between *)
(* nodes of different streams, the removal of redundant events, the        *)
(* splitting of streams that hold too many nodes, and the streams a        *)
(* StreamActive or StreamSwitch node activates.                            *)
(*                                                                         *)
(* g is the graph of LogicalStreamAllocator with, per node, the labels its *)
(* ATTR_NAME_ACTIVE_LABEL_LIST names and a continuous stream label.  The   *)
(* state a pass hands on is a record:                                      *)
(*   str, num    the stream of each node, and stream_num_                  *)
(*   ev, evNum   the events [id, send, recv], node_to_send_events_ and     *)
(*               node_to_recv_events_, and event_num_                      *)
(*   lab         labeled_streams_                                          *)
(*   act         ATTR_NAME_ACTIVE_STREAM_LIST of each node                 *)
(*   added       the StreamActive nodes the allocator inserted; node       *)
(*               g.n + i - 1 is added[i]                                   *)
(* Not represented: subgraphs of functional nodes and iteration loops.     *)
(***************************************************************************)
EXTENDS LogicalStreamAllocator

CONSTANTS Labels,              \* stream labels
          NoContinuous,        \* no continuous stream label
          MaxTaskCount         \* external: rtGetMaxStreamAndTask

NodeSeqOf(g) == [i \in 1 .. g.n |-> i - 1]

kTaskNumPerNormalNode == 3

kTaskNumPerHcclNode == 245

\* The labels of StreamActive, StreamSwitch and StreamSwitchN nodes become
\* the streams of the nodes that carry them.
SetActiveStreamsByLabel(g, str, num) ==
  LET lab == [l \in Labels |-> {str[n] : n \in {n \in LNodes(g) : g.label[n] = l}}
                                 \ {kInvalidStream}]
  IN [str |-> str, num |-> num, ev |-> {}, evNum |-> 0, lab |-> lab, added |-> <<>>,
      act |-> [n \in LNodes(g) |-> UNION {lab[l] : l \in ToSet(g.acts[n])}]]

Activators(g, l) == {a \in LNodes(g) : l \in ToSet(g.acts[a])}

-----------------------------------------------------------------------------
(* Events.                                                                 *)

\* The conditions under which InsertOneEventInTwoNodes adds no event.
NoEventNeeded(g, t, cur, next) ==
  \/ t.str[cur] = kInvalidStream
  \/ t.str[cur] = t.str[next]
  \/ g.kind[cur] = "Enter" /\ g.kind[next] # "StreamActive"
  \/ /\ t.str[next] # kInvalidStream
     /\ g.label[next] # NoLabel
     /\ \E a \in Activators(g, g.label[next]) : t.str[cur] = t.str[a] /\ cur <= a

\* An edge into a node without a stream is an error.
InsertSyncEventsFails(g, t) ==
  \E e \in g.data \cup g.ctrl : t.str[e[2]] = kInvalidStream /\ ~NoEventNeeded(g, t, e[1], e[2])

\* One event per edge, data edges of a node before its control edges.
InsertSyncEvents(g, t) ==
  LET Edges(E, c) == {[send |-> e[1], recv |-> e[2], ctrl |-> c] :
                        e \in {e \in E : ~NoEventNeeded(g, t, e[1], e[2])}}
      new == Edges(g.data, 0) \cup Edges(g.ctrl, 1)
      Key(e) == (e.send * 2 + e.ctrl) * g.n + e.recv
  IN [t EXCEPT !.ev = {[id |-> Cardinality({f \in new : Key(f) < Key(e)}),
                        send |-> e.send, recv |-> e.recv] : e \in new},
               !.evNum = Cardinality(new)]

BadOptimizeBySendEvents(t) ==
  [t EXCEPT !.ev = {e \in t.ev :
     ~ \E f \in t.ev : /\ f.send = e.send
                       /\ t.str[f.recv] = t.str[e.recv]
                       /\ f.recv > e.recv \/ (f.recv = e.recv /\ f.id < e.id)}]

\* Of the events from one node to one stream only the first is kept.
OptimizeBySendEvents(t) ==
  [t EXCEPT !.ev = {e \in t.ev :
     ~ \E f \in t.ev : /\ f.send = e.send
                       /\ t.str[f.recv] = t.str[e.recv]
                       /\ f.recv < e.recv \/ (f.recv = e.recv /\ f.id < e.id)}]

\* Of the events from one stream to one node only the last is kept.
OptimizeByRecvEvents(t) ==
  [t EXCEPT !.ev = {e \in t.ev :
     ~ \E f \in t.ev : /\ f.recv = e.recv
                       /\ t.str[f.send] = t.str[e.send]
                       /\ f.send > e.send \/ (f.send = e.send /\ f.id > e.id)}]

\* The activators of stream s, and from them level by level the activators of
\* their streams, until one is found that starts after send.
RECURSIVE ActivatedAfter(_, _, _, _, _)
ActivatedAfter(g, t, send, actives, visited) ==
  LET Hit(a) == \E p \in Preds(g, a) : \/ t.str[p] = t.str[send] /\ p >= send
                                       \/ send \in Preds(g, p)
      next == UNION {{b \in LNodes(g) : t.str[a] \in t.act[b]} : a \in actives}
  IN CASE actives = {} -> FALSE
       [] actives \cap visited # {} -> FALSE
       [] OTHER -> \/ \E a \in actives : Hit(a)
                   \/ ActivatedAfter(g, t, send, next, visited \cup actives)

IsRecvNodeActivatedBySendNode(g, t, send, recv) ==
  /\ g.label[recv] # NoLabel
  /\ ActivatedAfter(g, t, send, {a \in LNodes(g) : t.str[recv] \in t.act[a]}, {recv})

OptimizeByStreamActivate(g, t) ==
  [t EXCEPT !.ev = {e \in t.ev : ~IsRecvNodeActivatedBySendNode(g, t, e.send, e.recv)}]

RemoveSwitchEvents(g, t) ==
  [t EXCEPT !.ev = {e \in t.ev : g.kind[e.send] # "StreamSwitch"}]

OptimizeSyncEvents(g, t) ==
  RemoveSwitchEvents(g, OptimizeByStreamActivate(g, OptimizeByRecvEvents(OptimizeBySendEvents(t))))

-----------------------------------------------------------------------------
(* Splitting.                                                              *)

GetMaxNodeNumPerStream(g, n) ==
  LET per == IF g.kind[n] = "HcomAllReduce" THEN kTaskNumPerHcclNode ELSE kTaskNumPerNormalNode
  IN Max({1, MaxTaskCount \div per})

\* AddNodeNum: a node counts with the events it sends and receives.
NodeNum(ev, n) ==
  1 + Cardinality({e \in ev : e.send = n}) + Cardinality({e \in ev : e.recv = n})

BadNeedSpiltNewStream(nodeNum, max, isFirst) == ~isFirst /\ nodeNum > kTaskNumPerNormalNode * max

NeedSpiltNewStream(nodeNum, max, isFirst) == ~isFirst /\ nodeNum > max

BadNodeBefore(seen, i) == seen[i]

\* AddEventId: the node before the first one that moves sends the event.
NodeBefore(seen, i) == seen[i - 1]

\* One node of the loop over all nodes.  x adds to the state, per logical
\* stream: count, the nodes counted since the last split; newId, the stream
\* later nodes go to; nodes, the nodes seen; split, the new streams.
SplitOne(g, x, n) ==
  LET s     == x.str[n]
      count == x.count[s] + NodeNum(x.ev, n)
      max   == GetMaxNodeNumPerStream(g, n)
      l     == g.cont[n]
      group == SelectSeq(NodeSeqOf(g), LAMBDA k : k <= n /\ g.cont[k] = l /\ x.str[k] # kInvalidStream)
      split == NeedSpiltNewStream(count, max, x.count[s] = 0)
      moved == IF l = NoContinuous THEN {n} ELSE ToSet(group)
      seen  == Append(x.nodes[s], n)
      head  == Min(moved)
      at    == {i \in DOMAIN seen : seen[i] = head}
      last  == x.last + 1
      again == IF l = NoContinuous THEN 0
               ELSE FoldSet(LAMBDA k, sum : sum + NodeNum(x.ev, k), 0, moved)
      pre   == NodeBefore(seen, CHOOSE i \in at : TRUE)
  IN IF ~x.ok \/ s = kInvalidStream THEN x
     ELSE IF l # NoContinuous /\ Cardinality(moved) > max THEN [x EXCEPT !.ok = FALSE]
     ELSE IF ~split
       THEN [x EXCEPT !.count[s] = count, !.nodes[s] = seen, !.str[n] = x.newId[s]]
     ELSE IF at \subseteq {1} THEN [x EXCEPT !.ok = FALSE]
     ELSE [x EXCEPT !.count[s] = NodeNum(x.ev, n) + again,
                    !.nodes[s] = seen,
                    !.last = last,
                    !.newId[s] = last,
                    !.split[s] = @ \cup {last},
                    !.str = [k \in moved |-> last] @@ @,
                    !.ev = @ \cup {[id |-> x.evNum, send |-> pre, recv |-> head]},
                    !.evNum = @ + 1]

\* The result also tells whether it failed, and the new streams of each stream.
SplitStreams(g, t) ==
  LET S == 0 .. t.num - 1
      start == [str |-> t.str, ev |-> t.ev, evNum |-> t.evNum, ok |-> TRUE, last |-> t.num - 1,
                count |-> [s \in S |-> 0], newId |-> [s \in S |-> s],
                nodes |-> [s \in S |-> <<>>], split |-> [s \in S |-> {}]]
  IN FoldLeft(LAMBDA x, n : SplitOne(g, x, n), start, NodeSeqOf(g))

-----------------------------------------------------------------------------
(* Activation.                                                             *)

IsSwitch(g, n) == g.kind[n] \in {"StreamSwitch", "StreamSwitchN"}

BadUpdateLabelStreams(lab, split) == lab

\* A split stream keeps its label.
UpdateLabelStreams(lab, split) ==
  [l \in Labels |-> lab[l] \cup UNION {split[s] : s \in lab[l] \cap DOMAIN split}]

\* A switch can start one stream per label: a label with several streams gets
\* a StreamActive node on a stream of its own, and the switch starts that.
UpdateActiveStreamsForSwitchNode(g, t, n) ==
  LET many == SelectSeq(g.acts[n], LAMBDA l : Cardinality(t.lab[l]) > 1)
      new  == [i \in DOMAIN many |-> [switch |-> n, stream |-> t.num + i - 1, act |-> t.lab[many[i]]]]
  IN IF many = <<>> THEN t
     ELSE [t EXCEPT !.added = @ \o new,
                    !.num = @ + Len(many),
                    !.act[n] = {new[i].stream : i \in DOMAIN new}]

UpdateActiveStreamsForActiveNode(t, split, n) ==
  [t EXCEPT !.act[n] = @ \cup UNION {split[s] : s \in @ \cap DOMAIN split}]

\* The node's own stream is on its list.
CheckStreamActivedFails(t) ==
  \/ \E n \in DOMAIN t.act : t.str[n] \in t.act[n]
  \/ \E i \in DOMAIN t.added : t.added[i].stream \in t.added[i].act

UpdateActiveStreams(g, t, split) ==
  LET Step(acc, n) == IF IsSwitch(g, n) THEN UpdateActiveStreamsForSwitchNode(g, acc, n)
                      ELSE UpdateActiveStreamsForActiveNode(acc, split, n)
  IN FoldLeft(Step, [t EXCEPT !.lab = UpdateLabelStreams(@, split)], NodeSeqOf(g))

\* Event ids without gaps, in the order of the sending nodes.
RefreshContinuousEvents(g, t) ==
  LET New(e) == Cardinality({f \in t.ev : f.send < e.send \/ (f.send = e.send /\ f.id < e.id)})
  IN [t EXCEPT !.ev = {[e EXCEPT !.id = New(e)] : e \in t.ev},
               !.evNum = Cardinality(t.ev)]

\* Nodes that were left without a stream go to stream 0.
FillInvalidStreams(t) ==
  [t EXCEPT !.str = [n \in DOMAIN t.str |-> IF t.str[n] = kInvalidStream THEN 0 ELSE t.str[n]],
            !.num = IF t.num = 0 THEN 1 ELSE t.num]

-----------------------------------------------------------------------------
(* What the device makes of it, external to this repository: a stream runs *)
(* its nodes in order, a node waits for the events it receives and sends   *)
(* its events when it is done, and a stream that is on the list of some    *)
(* node starts when that node has run.                                     *)

AllNodes(g, t) == 0 .. g.n + Len(t.added) - 1

StreamOf(g, t, n) == IF n < g.n THEN t.str[n] ELSE t.added[n - g.n + 1].stream

ActiveList(g, t, n) == IF n < g.n THEN t.act[n] ELSE t.added[n - g.n + 1].act

\* The pairs <<a, b>> such that a is done before b starts.
HappensBefore(g, t) ==
  LET N == AllNodes(g, t)
      Direct(a, b) ==
        \/ StreamOf(g, t, a) = StreamOf(g, t, b) /\ a < b /\ StreamOf(g, t, a) # kInvalidStream
        \/ \E e \in t.ev : e.send = a /\ e.recv = b
        \/ StreamOf(g, t, b) \in ActiveList(g, t, a)
      Through(z, R) == R \cup {p \in N \X N : <<p[1], z>> \in R /\ <<z, p[2]>> \in R}
  IN FoldSet(Through, {p \in N \X N : Direct(p[1], p[2])}, N)

=============================================================================
