-------------------------- MODULE BlockMemAssigner --------------------------
(***************************************************************************)
(* The block memory assigner of the graph build (ge/graph/build/memory):   *)
(* every output and every workspace of the nodes gets a block, a block is  *)
(* handed on inside a stream when its last reader is done, blocks whose    *)
(* life times cannot meet are laid into each other, and the blocks left    *)
(* over get addresses.                                                     *)
(*                                                                         *)
(* The whole assigner runs in one thread over a fixed graph, so it is      *)
(* written as operators: m is the assigner object, r its block list while  *)
(* blocks are laid into each other, and an operator returns the new value. *)
(*                                                                         *)
(* A graph g has the nodes 0 .. g.n-1, numbered in topological order as    *)
(* OpDesc::GetId() numbers them, data edges g.data and control edges       *)
(* g.ctrl, and per node a kind, an output size and a workspace size (0 for *)
(* none).  str gives the logical stream of each node, -1 being             *)
(* kInvalidStream.  Not represented: several outputs of a node, outputs    *)
(* that share their input's memory, continuous and atomic memory, batch    *)
(* labels and the P2P memory type.                                         *)
(***************************************************************************)
EXTENDS Integers, Sequences, FiniteSets, TLC, SequencesExt, FiniteSetsExt

CONSTANTS MEM_ALIGN_SIZE,    \* 512 bytes; a small number of units here
          kMaxLifeTime       \* the life end of a tensor nobody releases

NodeSeq(g) == [i \in 1 .. g.n |-> i - 1]

Consumers(g, n) == {k \in 0 .. g.n - 1 : <<n, k>> \in g.data}

InNodes(g, n) == {k \in 0 .. g.n - 1 : <<k, n>> \in g.data \cup g.ctrl}

InSeq(g, S) == SelectSeq(NodeSeq(g), LAMBDA k : k \in S)

AlignMemOffset(size) ==
  IF size <= 0 THEN size
               ELSE ((size + MEM_ALIGN_SIZE - 1) \div MEM_ALIGN_SIZE) * MEM_ALIGN_SIZE

-----------------------------------------------------------------------------
(* The block sizes on offer.                                               *)

\* All sizes in ascending order, the empty ones left out.
AllMemorySize(g) ==
  LET all == [i \in 1 .. 2 * g.n |-> IF i <= g.n THEN g.size[i - 1] ELSE g.ws[i - g.n - 1]]
  IN SelectSeq(SortSeq(all, <), LAMBDA x : x # 0)

\* Ranges that hold too few sizes are merged into the next one.
PlanRanges(limit, ranges) ==
  LET Step(acc, i) ==
        LET range == ranges[i] \o acc.temp
        IN IF range = <<>> THEN acc
           ELSE IF Len(range) < limit /\ i < Len(ranges)
             THEN [acc EXCEPT !.temp = range]
             ELSE [done |-> Append(acc.done, range), temp |-> <<>>]
  IN FoldLeftDomain(Step, [done |-> <<>>, temp |-> <<>>], ranges).done

\* The largest size of each power-of-two range.
BinaryRanges(g) ==
  LET all   == AllMemorySize(g)
      least == IF Last(all) > MEM_ALIGN_SIZE THEN MEM_ALIGN_SIZE ELSE all[1]
      count == Max({1, Min({k \in 0 .. Last(all) : least * 2 ^ k >= Last(all)})})
      In(i) == SelectSeq(all, LAMBDA x : /\ x <= least * 2 ^ i
                                         /\ i = 1 \/ x > least * 2 ^ (i - 1))
      plan  == PlanRanges(Len(all) \div count, [i \in 1 .. count |-> In(i)])
  IN [i \in DOMAIN plan |-> Max(ToSet(plan[i]))]

MaxRanges(g) == <<Last(AllMemorySize(g))>>

GetBlockSize(size, ranges) ==
  LET fit == {i \in DOMAIN ranges : size <= ranges[i]}
  IN IF fit = {} THEN size ELSE ranges[Min(fit)]

-----------------------------------------------------------------------------
(* Applying and releasing blocks, node after node.                         *)

\* users lists the tensors the block has held, the last one being the current.
NewBlock(size, stream, reuse) ==
  [users |-> <<>>, size |-> size, stream |-> stream, reuse |-> reuse, same |-> TRUE,
   ref |-> 0, children |-> <<>>, childOffset |-> 0, deleted |-> FALSE,
   depend |-> <<>>, head |-> 0]

AddNodeTypeIndex(b, n, mem, size) ==
  [b EXCEPT !.users = Append(@, [node |-> n, mem |-> mem, size |-> size, end |-> kMaxLifeTime])]

GetLifeBegin(b) == b.users[1].node

GetLifeEnd(b) == Last(b.users).end

SetLifeTimeEnd(b, time) == [b EXCEPT !.users[Len(b.users)].end = time]

IsPreReuse(g, n) == Consumers(g, n) # {}

IsPostReuse(g, b) ==
  \A i \in DOMAIN b.users : b.users[i].mem = "output" => g.kind[b.users[i].node] # "Enter"

BadReleaseMemory(m, i, sameStream) ==
  LET b == [m.blocks[i] EXCEPT !.ref = @ - 1, !.same = TRUE]
  IN IF m.blocks[i].ref <= 0 \/ ~m.blocks[i].reuse THEN m
     ELSE IF b.ref = 0 /\ b.same
       THEN [m EXCEPT !.blocks[i] = SetLifeTimeEnd(b, m.lifeTime),
                      !.reusable[b.stream] = Append(@, i)]
       ELSE [m EXCEPT !.blocks[i] = b]

\* A block read on another stream is never handed on: same_stream_.
ReleaseMemory(m, i, sameStream) ==
  LET b == [m.blocks[i] EXCEPT !.ref = @ - 1, !.same = @ /\ sameStream]
  IN IF m.blocks[i].ref <= 0 \/ ~m.blocks[i].reuse THEN m
     ELSE IF b.ref = 0 /\ b.same
       THEN [m EXCEPT !.blocks[i] = SetLifeTimeEnd(b, m.lifeTime),
                      !.reusable[b.stream] = Append(@, i)]
       ELSE [m EXCEPT !.blocks[i] = b]

\* The block index is left in m.got.
ApplyMemory(m, g, str, n, mem, size, reuse) ==
  LET s       == str[n]
      want    == GetBlockSize(size, m.ranges)
      free    == m.reusable[s]
      fits    == {k \in DOMAIN free : /\ IsPostReuse(g, m.blocks[free[k]])
                                      /\ m.blocks[free[k]].size = want}
      hit     == IF reuse /\ fits # {} THEN Max(fits) ELSE 0
      barred  == {free[k] : k \in {k \in DOMAIN free : /\ reuse
                                                       /\ k > hit
                                                       /\ ~IsPostReuse(g, m.blocks[free[k]])}}
      blocks  == FoldSet(LAMBDA i, bs : [bs EXCEPT ![i].reuse = FALSE], m.blocks, barred)
  IN IF hit # 0
       THEN [m EXCEPT !.blocks = [blocks EXCEPT ![free[hit]] = AddNodeTypeIndex(@, n, mem, size)],
                      !.reusable[s] = RemoveAt(@, hit),
                      !.got = free[hit]]
       ELSE [m EXCEPT !.blocks = Append(blocks, AddNodeTypeIndex(NewBlock(want, s, reuse), n, mem, size)),
                      !.got = Len(blocks) + 1]

\* An output without readers is released like a workspace, at the next node.
ApplyOutMemory(m, g, str, n) ==
  LET readers == Cardinality(Consumers(g, n))
      a       == ApplyMemory(m, g, str, n, "output", g.size[n], IsPreReuse(g, n))
      c       == [a EXCEPT !.blocks[a.got].ref = @ + readers, !.out[n] = a.got]
  IN IF g.size[n] = 0 THEN m
     ELSE IF readers = 0
       THEN [c EXCEPT !.blocks[c.got].ref = IF @ # 0 THEN @ ELSE 1,
                      !.workspace[str[n]] = Append(@, c.got)]
       ELSE c

ApplyWorkspace(m, g, str, n) ==
  LET a == ApplyMemory(m, g, str, n, "workspace", g.ws[n], TRUE)
  IN IF g.ws[n] = 0 THEN m
     ELSE [a EXCEPT !.blocks[a.got].ref = @ + 1, !.workspace[str[n]] = Append(@, a.got)]

ReleaseInputNodeOutMemory(m, g, str, n) ==
  LET Step(acc, p) ==
        IF m.out[p] = 0 THEN acc
        ELSE ReleaseMemory(acc, m.out[p], str[n] = acc.blocks[m.out[p]].stream)
  IN FoldLeft(Step, m, InSeq(g, {p \in 0 .. g.n - 1 : <<p, n>> \in g.data}))

ReleaseWorkspace(m, s) ==
  LET Step(acc, i) == ReleaseMemory(acc, i, TRUE)
  IN [FoldLeft(Step, m, m.workspace[s]) EXCEPT !.workspace[s] = <<>>]

AssignNode(m, g, str, n) ==
  LET m1 == ReleaseWorkspace([m EXCEPT !.lifeTime = n], str[n])
      m2 == ApplyOutMemory(m1, g, str, n)
      m3 == ApplyWorkspace(m2, g, str, n)
  IN ReleaseInputNodeOutMemory(m3, g, str, n)

-----------------------------------------------------------------------------
(* Laying blocks into each other by their life times.                      *)

AlignSize(b) == AlignMemOffset(Max({b.users[i].size : i \in DOMAIN b.users}))

CanNotLifeReuse(b) == ~b.reuse \/ b.deleted

\* For node: the latest node of each stream it is known to come after (dep),
\* looked up in and saved to memo, total_node_depend_stream_life_.  The map of
\* the caller is filled on the way down and saved whole for every node met.
RECURSIVE AddDependLife(_, _, _, _)
AddDependLife(g, str, node, acc) ==
  LET Peer(a, p) ==
        IF str[p] < 0 \/ (str[p] \in DOMAIN a.dep /\ a.dep[str[p]] >= p) THEN a
        ELSE AddDependLife(g, str, p, [a EXCEPT !.dep = (str[p] :> p) @@ @])
      r == FoldLeft(Peer, acc, InSeq(g, InNodes(g, node)))
  IN IF acc.memo[node] # <<>>
       THEN [acc EXCEPT !.dep = @ @@ acc.memo[node]]
       ELSE [r EXCEPT !.memo[node] = @ @@ r.dep]

\* r with the stream dependencies of block j worked out, once per block.
AddDependLifeBegin(g, str, r, j) ==
  LET b == r.blocks[j]
      a == AddDependLife(g, str, GetLifeBegin(b), [dep |-> <<>>, memo |-> r.memo])
  IN IF b.depend # <<>> THEN r
     ELSE [r EXCEPT !.memo = a.memo,
                    !.blocks[j].depend = (b.stream :> GetLifeBegin(b)) @@ a.dep]

GetDependLifeBegin(b, s) == IF s \in DOMAIN b.depend THEN b.depend[s] ELSE 0

CrossLifeTime(x, y) ==
  CASE x.node < y.node -> x.end >= y.node
    [] x.node = y.node -> TRUE
    [] x.node > y.node -> y.end >= x.node

\* The tensors of block i and of the blocks laid into it, and whether all of
\* these stay on its stream.
RECURSIVE GetLifeList(_, _)
GetLifeList(blocks, i) ==
  LET b    == blocks[i]
      kids == {GetLifeList(blocks, k) : k \in ToSet(b.children)}
  IN [users |-> ToSet(b.users) \cup UNION {k.users : k \in kids},
      alike |-> \A k \in ToSet(b.children) : /\ b.same /\ blocks[k].same
                                             /\ blocks[k].stream = b.stream
                                             /\ GetLifeList(blocks, k).alike]

CanIntervalLifeReuse(blocks, parent, child) ==
  LET p     == blocks[parent]
      c     == blocks[child]
      list  == GetLifeList(blocks, child)
      lives == ToSet(p.users) \cup list.users
  IN /\ p.stream = c.stream /\ p.same /\ c.same
     /\ ~CrossLifeTime(p.users[1], c.users[1])
     /\ ~CrossLifeTime(Last(p.users), Last(c.users))
     /\ list.alike
     /\ \A x \in lives : x.node > 0
     /\ \A x, y \in lives : x # y => ~CrossLifeTime(x, y)

\* this and block are the code's names for the earlier and the later block.
AddLifeReuseBlock(g, str, r, this, block) ==
  LET a      == r.blocks[this]
      b      == r.blocks[block]
      parent == IF a.childOffset + AlignSize(b) <= AlignSize(a) + MEM_ALIGN_SIZE THEN this
                ELSE IF b.childOffset + AlignSize(a) <= AlignSize(b) + MEM_ALIGN_SIZE THEN block
                ELSE 0
      child  == IF parent = this THEN block ELSE this
      leaf   == r.blocks[child].children = <<>>
      r1     == IF leaf THEN AddDependLifeBegin(g, str, r, block) ELSE r
      apart  == /\ leaf
                /\ GetDependLifeBegin(r1.blocks[block], a.stream) > GetLifeEnd(a)
  IN IF CanNotLifeReuse(a) \/ CanNotLifeReuse(b) \/ parent = 0 THEN r
     ELSE IF ~apart /\ ~CanIntervalLifeReuse(r1.blocks, parent, child) THEN r1
       ELSE [r1 EXCEPT !.blocks[parent].children = Append(@, child),
                       !.blocks[parent].childOffset = @ + AlignSize(r.blocks[child]),
                       !.blocks[child].deleted = TRUE]

\* Every pair of blocks, the earlier one first; one range means one block size.
ReuseBlocksByLifeTime(g, str, m) ==
  LET k     == Len(m.blocks)
      pairs == SelectSeq([x \in 1 .. k * k |-> <<((x - 1) \div k) + 1, ((x - 1) % k) + 1>>],
                         LAMBDA p : p[1] < p[2])
      Step(r, p) ==
        LET barred == [r EXCEPT !.blocks[p[1]].reuse = @ /\ IsPostReuse(g, r.blocks[p[1]])]
        IN IF r.blocks[p[1]].deleted THEN r
           ELSE AddLifeReuseBlock(g, str, barred, p[1], p[2])
      start == [blocks |-> m.blocks, memo |-> [n \in 0 .. g.n - 1 |-> <<>>]]
  IN IF Len(m.ranges) <= 1 THEN start ELSE FoldLeft(Step, start, pairs)

-----------------------------------------------------------------------------
(* Addresses.                                                              *)

\* Resize, SetHeadOffset and SetTailOffset of block i and all blocks inside it.
RECURSIVE BlockSize(_, _)
BlockSize(blocks, i) ==
  LET Add(sum, k) == sum + BlockSize(blocks, k)
      inside == FoldLeft(Add, 0, blocks[i].children)
      own    == Max({blocks[i].users[u].size : u \in DOMAIN blocks[i].users})
  IN AlignMemOffset(Max({inside, own}))

RECURSIVE SetHeadOffset(_, _, _)
SetHeadOffset(blocks, i, offset) ==
  LET Step(acc, k) == [blocks |-> SetHeadOffset(acc.blocks, k, acc.offset),
                       offset |-> acc.offset + BlockSize(blocks, k)]
      start == [blocks |-> [blocks EXCEPT ![i].head = offset], offset |-> offset]
  IN FoldLeft(Step, start, blocks[i].children).blocks

ResizeMemoryBlocks(r) ==
  LET Step(acc, i) ==
        IF r.blocks[i].deleted THEN acc
        ELSE [acc EXCEPT !.blocks = SetHeadOffset(@, i, acc.memOffset),
                         !.memOffset = @ + BlockSize(r.blocks, i)]
  IN FoldLeftDomain(Step, [blocks |-> r.blocks, memo |-> r.memo, memOffset |-> 0], r.blocks)

\* The blocks after the last node, for one choice of block sizes.
AssignMemoryWithReuse(g, str, ranges) ==
  LET streams == {str[n] : n \in 0 .. g.n - 1}
      m0 == [blocks |-> <<>>, reusable |-> [s \in streams |-> <<>>],
             workspace |-> [s \in streams |-> <<>>], out |-> [n \in 0 .. g.n - 1 |-> 0],
             ranges |-> ranges, lifeTime |-> 0, got |-> 0]
      Step(m, n) == AssignNode(m, g, str, n)
  IN FoldLeft(Step, m0, NodeSeq(g))

\* Both assigners run; the binary one is kept unless the other needs less.
HybridAssign(bin, max) == IF bin.memOffset <= max.memOffset THEN bin ELSE max

\* The address range of every tensor: SetOpMemOffset.
SetOpMemOffset(a) ==
  UNION {{[node |-> u.node, mem |-> u.mem, from |-> a.blocks[i].head,
           to |-> a.blocks[i].head + u.size] : u \in ToSet(a.blocks[i].users)}
         : i \in DOMAIN a.blocks}

=============================================================================
