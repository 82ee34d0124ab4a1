-------------------------- MODULE CachingAllocator --------------------------
(***************************************************************************)
(* CachingAllocator (ge/graph/manager/graph_caching_allocator.cc): device  *)
(* memory is taken from the runtime in regions of a few sizes, cut into    *)
(* blocks that are linked in address order, merged again when they are     *)
(* freed, and given back to the runtime when memory is short.              *)
(*                                                                         *)
(* Blocks are objects with an identity, so that a link to a deleted block  *)
(* can be told from a link to a live one.  The mutex makes each of Free,   *)
(* FindFreeBlock, AddToBlockBin and FreeCachedBlocks one step; a Malloc    *)
(* takes several of them, and threads interleave in between.  Nobody calls *)
(* the allocator while MemManager initialises or finalises it.             *)
(*                                                                         *)
(* A definition named Bad... is the definition after it with a mistake a   *)
(* programmer could make; it is no part of the specification and serves to *)
(* show that a property notices the mistake.                               *)
(***************************************************************************)
EXTENDS Integers, Sequences, FiniteSets

CONSTANTS Threads,          \* callers of Malloc
          BlockIds,         \* Block objects
          Sizes,            \* sizes Malloc is asked for, in bytes
          kRoundBlockSize,  \* 512 in the code
          bin_ranges,       \* the upper size of each bin, ascending
          DevBases, DevEnd, \* addresses rtMalloc may return; end of the device
          Hints,            \* org_ptr arguments of Malloc
          Faults,           \* what may fail: "rtFree", "new"
          NoBlock, NoAddr

kNumBins == Len(bin_ranges)
Bins == 1..kNumBins

ASSUME CachingAssumption ==
  /\ Sizes \subseteq Nat
  /\ kRoundBlockSize \in Nat \ {0}
  /\ bin_ranges \in Seq(Nat \ {0}) /\ bin_ranges # <<>>
  /\ \A i \in 1..Len(bin_ranges) : bin_ranges[i] % kRoundBlockSize = 0
  /\ \A i, j \in 1..Len(bin_ranges) : i < j => bin_ranges[i] < bin_ranges[j]
  /\ DevBases \subseteq Nat \ {0}
  /\ DevEnd \in Nat
  /\ Hints \subseteq Nat
  /\ Faults \subseteq {"rtFree", "new"}
  /\ NoBlock \notin BlockIds
  /\ NoAddr \notin Nat

VARIABLES
  heap,              \* the Block objects and free_block_bins_
  allocated_blocks_, \* address -> Block
  granted,           \* the size each allocated address was asked for
  held,              \* regions taken from the runtime: base -> size, 0 if none
  stuck,             \* regions for which FreeMemory has failed
  phase,             \* "run"; "reset" and "final" while FreeBlocks runs for
                     \* Initialize and Finalize; "gone" after Finalize
  pc, want, org,     \* step, size and org_ptr of each Malloc
  region             \* memory_addr in TryExtendCache

callVars == <<pc, want, org, region>>
userVars == <<heap, allocated_blocks_, granted>>
vars == <<userVars, held, stuck, phase, callVars>>

(***************************************************************************)
(* Sizes.                                                                  *)
(***************************************************************************)
GetBinIndex(n) ==
  LET fits == {i \in Bins : n <= bin_ranges[i]} IN
  IF fits = {} THEN kNumBins ELSE CHOOSE i \in fits : \A j \in fits : i <= j

GetAllocationSize(n) == bin_ranges[GetBinIndex(n)]

\* Rounds down.
BadGetBlockSize(n) ==
  IF n = 0 THEN kRoundBlockSize
  ELSE kRoundBlockSize * (n \div kRoundBlockSize)

GetBlockSize(n) ==
  IF n = 0 THEN kRoundBlockSize
  ELSE kRoundBlockSize * ((n + kRoundBlockSize - 1) \div kRoundBlockSize)

\* kSplitThreshold is 0.75.
ShouldSplit(h, b, n) == 4 * n <= 3 * h.size[b]

(***************************************************************************)
(* Blocks.                                                                 *)
(***************************************************************************)
EmptyHeap ==
  [live |-> {}, ptr |-> [b \in BlockIds |-> 0], size |-> [b \in BlockIds |-> 0],
   allocated |-> [b \in BlockIds |-> FALSE],
   prev |-> [b \in BlockIds |-> NoBlock], next |-> [b \in BlockIds |-> NoBlock],
   bin |-> [b \in BlockIds |-> 1], bins |-> [i \in Bins |-> {}]]

IsSplit(h, b) == h.prev[b] # NoBlock \/ h.next[b] # NoBlock

CanMerge(h, b) == b # NoBlock /\ ~h.allocated[b] /\ IsSplit(h, b)

\* delete: the fields of a block that is gone are blank.
Delete(h, S) ==
  [live |-> h.live \ S,
   ptr |-> [b \in BlockIds |-> IF b \in S THEN 0 ELSE h.ptr[b]],
   size |-> [b \in BlockIds |-> IF b \in S THEN 0 ELSE h.size[b]],
   allocated |-> [b \in BlockIds |-> b \notin S /\ h.allocated[b]],
   prev |-> [b \in BlockIds |-> IF b \in S THEN NoBlock ELSE h.prev[b]],
   next |-> [b \in BlockIds |-> IF b \in S THEN NoBlock ELSE h.next[b]],
   bin |-> [b \in BlockIds |-> IF b \in S THEN 1 ELSE h.bin[b]],
   bins |-> h.bins]

\* A new free block for the region at p, in the bin of its size.
NewBlock(h, b, p, n) ==
  LET i == GetBinIndex(n) IN
  [live |-> h.live \cup {b},
   ptr |-> [h.ptr EXCEPT ![b] = p],
   size |-> [h.size EXCEPT ![b] = n],
   allocated |-> [h.allocated EXCEPT ![b] = FALSE],
   prev |-> [h.prev EXCEPT ![b] = NoBlock],
   next |-> [h.next EXCEPT ![b] = NoBlock],
   bin |-> [h.bin EXCEPT ![b] = i],
   bins |-> [h.bins EXCEPT ![i] = @ \cup {b}]]

\* dst takes over the memory and the links of its neighbour src.
Relink(h, dst, src) ==
  LET before == h.prev[dst] = src IN
  [live |-> h.live,
   ptr |-> [h.ptr EXCEPT ![dst] = IF before THEN h.ptr[src] ELSE @],
   size |-> [h.size EXCEPT ![dst] = @ + h.size[src]],
   allocated |-> h.allocated,
   prev |-> [b \in BlockIds |->
               IF before /\ b = dst THEN h.prev[src]
               ELSE IF ~before /\ b = h.next[src] THEN dst ELSE h.prev[b]],
   next |-> [b \in BlockIds |->
               IF before /\ b = h.prev[src] THEN dst
               ELSE IF ~before /\ b = dst THEN h.next[src] ELSE h.next[b]],
   bin |-> h.bin,
   bins |-> [h.bins EXCEPT ![h.bin[dst]] = @ \ {src}]]

MergeBlocks(h, dst, src) ==
  IF CanMerge(h, dst) /\ CanMerge(h, src)
  THEN Delete(Relink(h, dst, src), {src})
  ELSE h

\* Forgets to put the block into its bin.
WorseFreeBlock(h, b) ==
  MergeBlocks(MergeBlocks([h EXCEPT !.allocated[b] = FALSE], b, h.prev[b]),
              b, h.next[b])

FreeBlock(h, b) ==
  LET freed == [h EXCEPT !.allocated[b] = FALSE]
      left == MergeBlocks(freed, b, h.prev[b])
      both == MergeBlocks(left, b, h.next[b])
  IN [both EXCEPT !.bins[h.bin[b]] = @ \cup {b}]

\* new_block takes the first n bytes of b, and b goes back to the bin.
SplitBlock(h, b, n, i, new_block) ==
  [live |-> h.live \cup {new_block},
   ptr |-> [h.ptr EXCEPT ![new_block] = h.ptr[b], ![b] = @ + n],
   size |-> [h.size EXCEPT ![new_block] = n, ![b] = @ - n],
   allocated |-> [h.allocated EXCEPT ![new_block] = FALSE],
   prev |-> [h.prev EXCEPT ![new_block] = h.prev[b], ![b] = new_block],
   next |-> [c \in BlockIds |->
               IF c = new_block THEN b
               ELSE IF c = h.prev[b] THEN new_block ELSE h.next[c]],
   bin |-> [h.bin EXCEPT ![new_block] = i],
   bins |-> [h.bins EXCEPT ![i] = @ \cup {b}]]

\* What lower_bound finds in bin i, in the order of BlockComparator, for the key
\* (n, o - 1).
Candidates(h, n, o, i) ==
  {b \in h.bins[i] : \/ h.size[b] > n
                     \/ h.size[b] = n /\ (o = NoAddr \/ h.ptr[b] >= o - 1)}
IsLowerBound(h, b, S) ==
  \A c \in S \ {b} :
    h.size[b] < h.size[c] \/ (h.size[b] = h.size[c] /\ h.ptr[b] < h.ptr[c])

\* Blocks that are a whole region and free: what FreeCachedBlocks gives back.
Unsplit(h) ==
  {b \in h.live : ~IsSplit(h, b) /\ \E i \in Bins : b \in h.bins[i]}

\* S is the part of them for which FreeMemory succeeded.
DropCached(h, S) ==
  Delete([h EXCEPT !.bins = [i \in Bins |-> h.bins[i] \ S]], S)

(***************************************************************************)
(* The runtime (rtMalloc and rtFree behind MemoryAllocator).               *)
(***************************************************************************)
Fits(r, n) ==
  /\ held[r] = 0
  /\ r + n <= DevEnd
  /\ \A q \in DevBases : held[q] > 0 => q + held[q] <= r \/ r + n <= q

FreeCachedBlocks(S) ==
  /\ S \subseteq Unsplit(heap)
  /\ "rtFree" \in Faults \/ S = Unsplit(heap)
  /\ held' = [r \in DevBases |->
                IF \E b \in S : heap.ptr[b] = r THEN 0 ELSE held[r]]
  /\ stuck' = stuck \cup {heap.ptr[b] : b \in Unsplit(heap) \ S}

(***************************************************************************)
(* Malloc.                                                                 *)
(***************************************************************************)
Init ==
  /\ heap = EmptyHeap
  /\ allocated_blocks_ = [p \in {} |-> NoBlock]
  /\ granted = [p \in {} |-> 0]
  /\ held = [r \in DevBases |-> 0]
  /\ stuck = {}
  /\ phase = "run"
  /\ pc = [t \in Threads |-> "idle"]
  /\ want = [t \in Threads |-> 0]
  /\ org = [t \in Threads |-> NoAddr]
  /\ region = [t \in Threads |-> NoAddr]

Put(f, p, v) == [q \in DOMAIN f \cup {p} |-> IF q = p THEN v ELSE f[q]]
Without(f, p) == [q \in DOMAIN f \ {p} |-> f[q]]

Allocate(h, b, s) ==
  /\ heap' = [h EXCEPT !.allocated[b] = TRUE]
  /\ allocated_blocks_' = Put(allocated_blocks_, h.ptr[b], b)
  /\ granted' = Put(granted, h.ptr[b], s)

\* FindFreeBlock, when there is a block to take.  The block stays whole when
\* there is no memory for new_block.
FindFreeBlock(s, o) ==
  LET n == GetBlockSize(s)
      i == GetBinIndex(n)
      S == Candidates(heap, n, o, i) IN
  \E b \in S :
    LET h == [heap EXCEPT !.bins[i] = @ \ {b}] IN
    /\ IsLowerBound(heap, b, S)
    /\ \/ /\ ~ShouldSplit(heap, b, n) \/ "new" \in Faults
          /\ Allocate(h, b, s)
       \/ /\ ShouldSplit(heap, b, n)
          /\ \E new_block \in BlockIds \ heap.live :
               Allocate(SplitBlock(h, b, n, i, new_block), new_block, s)

NotFound(s, o) ==
  LET n == GetBlockSize(s) IN Candidates(heap, n, o, GetBinIndex(n)) = {}

Goto(t, l) == pc' = [pc EXCEPT ![t] = l] /\ UNCHANGED <<want, org>>
Return(t) ==
  /\ pc' = [pc EXCEPT ![t] = "idle"]
  /\ want' = [want EXCEPT ![t] = 0]
  /\ org' = [org EXCEPT ![t] = NoAddr]

Malloc(t, s, o) ==
  /\ phase = "run" /\ pc[t] = "idle"
  /\ \/ FindFreeBlock(s, o) /\ UNCHANGED callVars
     \/ /\ NotFound(s, o)
        /\ pc' = [pc EXCEPT ![t] = "extend"]
        /\ want' = [want EXCEPT ![t] = s]
        /\ org' = [org EXCEPT ![t] = o]
        /\ UNCHANGED <<userVars, region>>
  /\ UNCHANGED <<held, stuck, phase>>

\* MallocMemory in TryExtendCache, before and after the cached blocks have been
\* given back: the runtime has a region of that size, or it has not.
MallocMemory(t) ==
  LET n == GetAllocationSize(GetBlockSize(want[t])) IN
  /\ pc[t] \in {"extend", "retry"}
  /\ \/ \E r \in DevBases :
          /\ Fits(r, n)
          /\ held' = [held EXCEPT ![r] = n]
          /\ region' = [region EXCEPT ![t] = r]
          /\ Goto(t, "add")
     \/ /\ IF pc[t] = "extend" THEN Goto(t, "release") ELSE Return(t)
        /\ UNCHANGED <<held, region>>
  /\ UNCHANGED <<userVars, stuck, phase>>

Release(t) ==
  /\ pc[t] = "release"
  /\ \E S \in SUBSET Unsplit(heap) :
       /\ FreeCachedBlocks(S)
       /\ heap' = DropCached(heap, S)
  /\ Goto(t, "retry")
  /\ UNCHANGED <<allocated_blocks_, granted, phase, region>>

AddToBlockBin(t) ==
  LET n == GetAllocationSize(GetBlockSize(want[t])) IN
  /\ pc[t] = "add"
  /\ \E b \in BlockIds \ heap.live :
       heap' = NewBlock(heap, b, region[t], n)
  /\ region' = [region EXCEPT ![t] = NoAddr]
  /\ Goto(t, "again")
  /\ UNCHANGED <<allocated_blocks_, granted, held, stuck, phase>>

\* There is no memory for the block: the region goes back to the runtime.
AddFails(t) ==
  /\ pc[t] = "add"
  /\ "new" \in Faults
  /\ \/ held' = [held EXCEPT ![region[t]] = 0] /\ UNCHANGED stuck
     \/ "rtFree" \in Faults /\ stuck' = stuck \cup {region[t]} /\ UNCHANGED held
  /\ region' = [region EXCEPT ![t] = NoAddr]
  /\ Return(t)
  /\ UNCHANGED <<userVars, phase>>

\* The second FindFreeBlock of Malloc; without a block Malloc returns nullptr.
FindAgain(t) ==
  /\ pc[t] = "again"
  /\ \/ FindFreeBlock(want[t], org[t])
     \/ NotFound(want[t], org[t]) /\ UNCHANGED userVars
  /\ Return(t)
  /\ UNCHANGED <<held, stuck, phase, region>>

(***************************************************************************)
(* Free, Initialize and Finalize.                                          *)
(***************************************************************************)
FreeAddr(p) ==
  /\ p \in DOMAIN allocated_blocks_
  /\ heap' = FreeBlock(heap, allocated_blocks_[p])
  /\ allocated_blocks_' = Without(allocated_blocks_, p)
  /\ granted' = Without(granted, p)

\* An address that is not in the map is refused.
Free(p) ==
  /\ phase = "run"
  /\ FreeAddr(p)
  /\ UNCHANGED <<held, stuck, phase, callVars>>

\* Initialize (again) and Finalize begin with FreeBlocks.
FreeBlocksBegin(ph) ==
  /\ phase = "run"
  /\ \A t \in Threads : pc[t] = "idle"
  /\ phase' = ph
  /\ UNCHANGED <<userVars, held, stuck, callVars>>

\* One turn of its loop over allocated_blocks_.
FreeBlocksNext(p) ==
  /\ phase \in {"reset", "final"}
  /\ FreeAddr(p)
  /\ UNCHANGED <<held, stuck, phase, callVars>>

\* FreeCachedBlocks; Finalize also deletes the bins, and nobody knows the
\* blocks that are still in them.
FreeBlocksEnd ==
  /\ phase \in {"reset", "final"}
  /\ DOMAIN allocated_blocks_ = {}
  /\ \E S \in SUBSET Unsplit(heap) :
       /\ FreeCachedBlocks(S)
       /\ heap' = IF phase = "final" THEN EmptyHeap ELSE DropCached(heap, S)
  /\ phase' = IF phase = "final" THEN "gone" ELSE "run"
  /\ UNCHANGED <<allocated_blocks_, granted, callVars>>

\* MemManager::Initialize makes a new allocator.
Initialize ==
  /\ phase = "gone"
  /\ phase' = "run"
  /\ UNCHANGED <<userVars, held, stuck, callVars>>

Next ==
  \/ \E t \in Threads :
       \/ \E s \in Sizes, o \in Hints \cup {NoAddr} : Malloc(t, s, o)
       \/ MallocMemory(t) \/ Release(t) \/ AddToBlockBin(t) \/ AddFails(t)
       \/ FindAgain(t)
  \/ \E p \in DOMAIN allocated_blocks_ : Free(p) \/ FreeBlocksNext(p)
  \/ \E ph \in {"reset", "final"} : FreeBlocksBegin(ph)
  \/ FreeBlocksEnd \/ Initialize

Spec == Init /\ [][Next]_vars

(***************************************************************************)
(* Properties.                                                             *)
(***************************************************************************)
Heap ==
  [live : SUBSET BlockIds, ptr : [BlockIds -> Nat], size : [BlockIds -> Nat],
   allocated : [BlockIds -> BOOLEAN],
   prev : [BlockIds -> BlockIds \cup {NoBlock}],
   next : [BlockIds -> BlockIds \cup {NoBlock}],
   bin : [BlockIds -> Bins], bins : [Bins -> SUBSET BlockIds]]

\* The ranges of the variables; an address is in allocated_blocks_ as long as
\* its caller has it, and the map leads to the allocated block at that address.
TypeOK ==
  /\ heap \in Heap
  /\ DOMAIN granted = DOMAIN allocated_blocks_
  /\ \A p \in DOMAIN allocated_blocks_ :
       /\ allocated_blocks_[p] \in heap.live
       /\ heap.ptr[allocated_blocks_[p]] = p
       /\ heap.allocated[allocated_blocks_[p]]
       /\ granted[p] \in Sizes \cup {0}
  /\ held \in [DevBases -> Nat]
  /\ stuck \subseteq DevBases
  /\ phase \in {"run", "reset", "final", "gone"}
  /\ pc \in [Threads ->
               {"idle", "extend", "release", "retry", "add", "again"}]
  /\ want \in [Threads -> Sizes \cup {0}]
  /\ org \in [Threads -> Hints \cup {NoAddr}]
  /\ region \in [Threads -> DevBases \cup {NoAddr}]

Cover(h, a) == {b \in h.live : h.ptr[b] <= a /\ a < h.ptr[b] + h.size[b]}

\* Each block in use is the one the map has for its address.
Mapped ==
  \A b \in heap.live :
    heap.allocated[b] =>
      /\ heap.ptr[b] \in DOMAIN allocated_blocks_
      /\ allocated_blocks_[heap.ptr[b]] = b

\* What the callers rely on: the memory Malloc returns is at least as large as
\* was asked for, lies in one region that the runtime has given and that is not
\* given back, and shares no byte with any other memory that is not freed yet,
\* however blocks were split and merged around it.  No address is given out
\* twice (Mapped).
NoOverlap ==
  /\ Mapped
  /\ \A p \in DOMAIN granted :
       /\ \E r \in DevBases : r <= p /\ p + granted[p] <= r + held[r]
       /\ \A q \in DOMAIN granted \ {p} :
            p + granted[p] <= q \/ q + granted[q] <= p

\* SplitBlock and MergeBlocks keep prev and next: both ends of a link are live
\* blocks, agree on the link and touch in memory.
LinksOK ==
  \A b \in heap.live :
    /\ heap.next[b] # NoBlock =>
         /\ heap.next[b] \in heap.live
         /\ heap.prev[heap.next[b]] = b
         /\ heap.ptr[heap.next[b]] = heap.ptr[b] + heap.size[b]
    /\ heap.prev[b] # NoBlock =>
         heap.prev[b] \in heap.live /\ heap.next[heap.prev[b]] = b

\* Every byte of a region belongs to exactly one block, and a block is in use
\* or in its bin, where FindFreeBlock and FreeCachedBlocks will find it.  The
\* regions no block describes are those TryExtendCache is about to add, and
\* those whose FreeMemory failed.  FreeBlock leaves no two free neighbours, so
\* that a region can go back once all its parts are free, and Finalize gives
\* everything back but what FreeMemory could not free.
Accounted ==
  /\ \A b \in heap.live : \A i \in Bins :
       b \in heap.bins[i] <=> ~heap.allocated[b] /\ i = heap.bin[b]
  /\ \A r \in DevBases :
       /\ held[r] > 0
       /\ \A t \in Threads : region[t] # r
       => \/ \A a \in r..(r + held[r] - 1) : Cardinality(Cover(heap, a)) = 1
          \/ r \in stuck /\ \A a \in r..(r + held[r] - 1) : Cover(heap, a) = {}
  /\ \A b \in heap.live :
       heap.next[b] # NoBlock =>
         heap.allocated[b] \/ heap.allocated[heap.next[b]]
  /\ phase = "gone" => \A r \in DevBases : held[r] > 0 => r \in stuck

(***************************************************************************)
(* What makes NoOverlap and LinksOK inductive.                             *)
(***************************************************************************)
Apart(p, m, q, n) == p + m <= q \/ q + n <= p

\* No block of h has a byte of the n bytes at p.
Clear(h, p, n) == \A b \in h.live : Apart(h.ptr[b], h.size[b], p, n)

Disjoint(h) ==
  \A b, c \in h.live : b # c => Apart(h.ptr[b], h.size[b], h.ptr[c], h.size[c])

\* Links are as LinksOK says, and linked blocks belong to one bin.
Linked(h) ==
  \A b \in h.live :
    /\ h.size[b] > 0
    /\ h.next[b] # NoBlock =>
         /\ h.next[b] \in h.live
         /\ h.prev[h.next[b]] = b
         /\ h.ptr[h.next[b]] = h.ptr[b] + h.size[b]
         /\ h.bin[h.next[b]] = h.bin[b]
    /\ h.prev[b] # NoBlock =>
         h.prev[b] \in h.live /\ h.next[h.prev[b]] = b

\* What is in a bin is free, and belongs there.
Binned(h) ==
  \A i \in Bins : \A b \in h.bins[i] :
    b \in h.live /\ ~h.allocated[b] /\ h.bin[b] = i

HeapInv(h) == h \in Heap /\ Disjoint(h) /\ Linked(h) /\ Binned(h)

\* Block b lies in region r (g is held), and has a neighbour on each side on
\* which it does not reach the end of the region.
InRegion(h, g, b, r) ==
  /\ r <= h.ptr[b] /\ h.ptr[b] + h.size[b] <= r + g[r]
  /\ h.prev[b] = NoBlock <=> h.ptr[b] = r
  /\ h.next[b] = NoBlock <=> h.ptr[b] + h.size[b] = r + g[r]

RegionsApart(g) ==
  \A q, r \in DevBases :
    q # r /\ g[q] > 0 /\ g[r] > 0 => Apart(q, g[q], r, g[r])

Placed(h, g) ==
  RegionsApart(g) /\ \A b \in h.live : \E r \in DevBases : InRegion(h, g, b, r)

\* A region that TryExtendCache is about to add belongs to one thread and has
\* no block yet.
PendingInv ==
  \A t \in Threads :
    pc[t] = "add" =>
      /\ region[t] \in DevBases
      /\ held[region[t]] = GetAllocationSize(GetBlockSize(want[t]))
      /\ \A u \in Threads \ {t} : pc[u] = "add" => region[u] # region[t]
      /\ Clear(heap, region[t], held[region[t]])

\* A caller has a block of at least the size that was asked for, and a block
\* in use has a caller.
MapInv ==
  /\ \A p \in DOMAIN granted : granted[p] <= heap.size[allocated_blocks_[p]]
  /\ Mapped

IInv == TypeOK /\ HeapInv(heap) /\ Placed(heap, held) /\ PendingInv /\ MapInv

=============================================================================
