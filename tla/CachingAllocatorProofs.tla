------------------------ MODULE CachingAllocatorProofs ------------------------
(*****************************************************************************)
(* The memory CachingAllocator hands out never overlaps and its block lists  *)
(* stay sound, for any number of threads, blocks, sizes and bins and any     *)
(* device memory.  Every step keeps the invariant, one lemma per step; the   *)
(* theorems are at the end.                                                  *)
(*****************************************************************************)
EXTENDS CachingAllocatorBlocks

(***************************************************************************)
(* The map of what callers have.                                           *)
(***************************************************************************)
MapOK ==
  /\ DOMAIN granted = DOMAIN allocated_blocks_
  /\ \A p \in DOMAIN allocated_blocks_ :
       /\ allocated_blocks_[p] \in heap.live
       /\ heap.ptr[allocated_blocks_[p]] = p
       /\ heap.allocated[allocated_blocks_[p]]
       /\ granted[p] \in Sizes \cup {0}
  /\ MapInv

\* Two blocks do not begin at one address.
LEMMA PtrInjective ==
  ASSUME NEW h, HeapInv(h), NEW b \in h.live, NEW c \in h.live,
         h.ptr[b] = h.ptr[c]
  PROVE  b = c
  <1>1. b \in BlockIds /\ c \in BlockIds /\ h \in Heap BY Zenon DEF HeapInv, Heap
  <1>2. /\ h.ptr[b] \in Nat /\ h.size[b] \in Nat
        /\ h.ptr[c] \in Nat /\ h.size[c] \in Nat
    BY Zenon, <1>1 DEF Heap
  <1>3. h.size[b] > 0 /\ h.size[c] > 0 BY Zenon DEF HeapInv, Linked
  <1>4. b # c => Apart(h.ptr[b], h.size[b], h.ptr[c], h.size[c])
    BY Zenon DEF HeapInv, Disjoint
  <1> QED BY SMTT(60), <1>2, <1>3, <1>4 DEF Apart

\* A step that leaves the blocks in use alone leaves the map right.
LEMMA MapKeeps ==
  ASSUME MapOK, HeapInv(heap), HeapInv(heap'), Keeps(heap, heap'),
         UNCHANGED <<allocated_blocks_, granted>>
  PROVE  MapOK'
  <1>1. heap.live \subseteq BlockIds /\ heap'.live \subseteq BlockIds
    BY Zenon DEF HeapInv, Heap
  <1>2. ASSUME NEW p \in DOMAIN allocated_blocks_
        PROVE  /\ allocated_blocks_[p] \in heap'.live
               /\ heap'.ptr[allocated_blocks_[p]] = p
               /\ heap'.allocated[allocated_blocks_[p]]
               /\ granted[p] <= heap'.size[allocated_blocks_[p]]
    BY ZenonT(60), <1>1 DEF MapOK, MapInv, Keeps
  <1>3. ASSUME NEW b \in heap'.live, heap'.allocated[b]
        PROVE  /\ heap'.ptr[b] \in DOMAIN allocated_blocks_
               /\ allocated_blocks_[heap'.ptr[b]] = b
    BY ZenonT(60), <1>1, <1>3 DEF MapOK, MapInv, Mapped, Keeps
  <1> QED BY ZenonT(60), <1>2, <1>3 DEF MapOK, MapInv, Mapped

\* FindFreeBlock enters block a, which it has just marked.
LEMMA MapAdds ==
  ASSUME MapOK, HeapInv(heap), HeapInv(heap'),
         NEW a \in heap'.live, Adds(heap, heap', a),
         NEW s \in Sizes \cup {0}, s <= heap'.size[a],
         allocated_blocks_' = Put(allocated_blocks_, heap'.ptr[a], a),
         granted' = Put(granted, heap'.ptr[a], s)
  PROVE  MapOK'
  <1> DEFINE P == heap'.ptr[a]
  <1>1. heap.live \subseteq BlockIds /\ heap'.live \subseteq BlockIds
    BY Zenon DEF HeapInv, Heap
  <1>2. /\ DOMAIN allocated_blocks_' = DOMAIN allocated_blocks_ \cup {P}
        /\ DOMAIN granted' = DOMAIN granted \cup {P}
        /\ allocated_blocks_'[P] = a /\ granted'[P] = s
        /\ \A p \in DOMAIN allocated_blocks_ \ {P} :
             allocated_blocks_'[p] = allocated_blocks_[p]
        /\ \A p \in DOMAIN granted \ {P} : granted'[p] = granted[p]
    BY Zenon DEF Put
  <1>3. ASSUME NEW p \in DOMAIN allocated_blocks_'
        PROVE  /\ allocated_blocks_'[p] \in heap'.live
               /\ heap'.ptr[allocated_blocks_'[p]] = p
               /\ heap'.allocated[allocated_blocks_'[p]]
               /\ granted'[p] \in Sizes \cup {0}
               /\ granted'[p] <= heap'.size[allocated_blocks_'[p]]
    <2>1. CASE p = P BY ZenonT(60), <1>1, <1>2, <2>1 DEF Adds
    <2>2. CASE p # P
      <3>1. p \in DOMAIN allocated_blocks_ /\ p \in DOMAIN granted
        BY Zenon, <1>2, <2>2 DEF MapOK
      <3> QED BY SMTT(60), <1>1, <1>2, <2>2, <3>1 DEF MapOK, MapInv, Adds
    <2> QED BY ZenonT(60), <2>1, <2>2
  <1>4. ASSUME NEW b \in heap'.live, heap'.allocated[b]
        PROVE  /\ heap'.ptr[b] \in DOMAIN allocated_blocks_'
               /\ allocated_blocks_'[heap'.ptr[b]] = b
    <2>1. CASE b = a BY Zenon, <1>2, <2>1
    <2>2. CASE b # a
      <3>1. heap'.ptr[b] # P BY Zenon, <2>2, PtrInjective
      <3>2. b \in heap.live /\ heap.allocated[b] /\ heap'.ptr[b] = heap.ptr[b]
        BY Zenon, <1>1, <1>4, <2>2 DEF Adds
      <3> QED BY SMTT(60), <1>2, <3>1, <3>2 DEF MapOK, MapInv, Mapped
    <2> QED BY ZenonT(60), <2>1, <2>2
  <1>5. DOMAIN granted' = DOMAIN allocated_blocks_' BY Zenon, <1>2 DEF MapOK
  <1> QED BY ZenonT(60), <1>3, <1>4, <1>5 DEF MapOK, MapInv, Mapped

\* Free takes out the block of address q.
LEMMA MapFrees ==
  ASSUME MapOK, HeapInv(heap), HeapInv(heap'),
         NEW q \in DOMAIN allocated_blocks_,
         KeepsOthers(heap, heap', allocated_blocks_[q]),
         allocated_blocks_' = Without(allocated_blocks_, q),
         granted' = Without(granted, q)
  PROVE  MapOK'
  <1>1. heap.live \subseteq BlockIds /\ heap'.live \subseteq BlockIds
    BY Zenon DEF HeapInv, Heap
  <1>2. /\ DOMAIN allocated_blocks_' = DOMAIN allocated_blocks_ \ {q}
        /\ DOMAIN granted' = DOMAIN granted \ {q}
        /\ \A p \in DOMAIN allocated_blocks_ \ {q} :
             allocated_blocks_'[p] = allocated_blocks_[p]
        /\ \A p \in DOMAIN granted \ {q} : granted'[p] = granted[p]
    BY Zenon DEF Without
  <1>3. ASSUME NEW p \in DOMAIN allocated_blocks_'
        PROVE  /\ allocated_blocks_'[p] \in heap'.live
               /\ heap'.ptr[allocated_blocks_'[p]] = p
               /\ heap'.allocated[allocated_blocks_'[p]]
               /\ granted'[p] \in Sizes \cup {0}
               /\ granted'[p] <= heap'.size[allocated_blocks_'[p]]
    <2>1. p \in DOMAIN allocated_blocks_ \ {q} /\ p \in DOMAIN granted \ {q}
      BY Zenon, <1>2 DEF MapOK
    <2>2. allocated_blocks_[p] # allocated_blocks_[q] BY ZenonT(60), <2>1 DEF MapOK
    <2> QED BY SMTT(60), <1>1, <1>2, <2>1, <2>2 DEF MapOK, MapInv, KeepsOthers
  <1>4. ASSUME NEW b \in heap'.live, heap'.allocated[b]
        PROVE  /\ heap'.ptr[b] \in DOMAIN allocated_blocks_'
               /\ allocated_blocks_'[heap'.ptr[b]] = b
    <2>1. /\ b \in heap.live /\ heap.allocated[b] /\ heap'.ptr[b] = heap.ptr[b]
          /\ b # allocated_blocks_[q]
      BY Zenon, <1>1, <1>4 DEF KeepsOthers
    <2>2. /\ heap.ptr[b] \in DOMAIN allocated_blocks_
          /\ allocated_blocks_[heap.ptr[b]] = b
      BY Zenon, <2>1 DEF MapOK, MapInv, Mapped
    <2> QED BY ZenonT(60), <1>2, <2>1, <2>2
  <1>5. DOMAIN granted' = DOMAIN allocated_blocks_' BY Zenon, <1>2 DEF MapOK
  <1> QED BY ZenonT(60), <1>3, <1>4, <1>5 DEF MapOK, MapInv, Mapped

(***************************************************************************)
(* The steps.                                                              *)
(***************************************************************************)
CallOK ==
  /\ held \in [DevBases -> Nat]
  /\ stuck \subseteq DevBases
  /\ phase \in {"run", "reset", "final", "gone"}
  /\ pc \in [Threads ->
               {"idle", "extend", "release", "retry", "add", "again"}]
  /\ want \in [Threads -> Sizes \cup {0}]
  /\ org \in [Threads -> Hints \cup {NoAddr}]
  /\ region \in [Threads -> DevBases \cup {NoAddr}]

LEMMA Parts ==
  IInv <=> /\ HeapInv(heap) /\ Placed(heap, held)
           /\ PendingInv /\ MapOK /\ CallOK
  BY Zenon DEF IInv, TypeOK, MapOK, CallOK, HeapInv

LEMMA PartsNext ==
  ASSUME HeapInv(heap'), Placed(heap', held'), PendingInv', MapOK', CallOK'
  PROVE  IInv'
  BY Zenon DEF IInv, TypeOK, MapOK, CallOK, HeapInv

\* The region of a pending Malloc has a positive size.
LEMMA PendingSize ==
  ASSUME CallOK, NEW t \in Threads
  PROVE  /\ GetBlockSize(want[t]) \in Nat
         /\ GetAllocationSize(GetBlockSize(want[t])) \in Nat
         /\ GetAllocationSize(GetBlockSize(want[t])) > 0
  <1>1. want[t] \in Sizes \cup {0} BY Zenon DEF CallOK
  <1>2. \A s \in Sizes \cup {0} : s \in Nat BY SMTT(60), CachingAssumption
  <1>3. want[t] \in Nat BY Zenon, <1>1, <1>2
  <1> QED BY ZenonT(60), <1>3, Rounded, AllocationSize

\* Blocks that change inside their regions do not touch pending ones.
LEMMA PendingKeeps ==
  ASSUME CallOK, PendingInv, ClearStays(heap, heap'),
         UNCHANGED <<held, pc, want, region>>
  PROVE  PendingInv'
  <1> SUFFICES ASSUME NEW t \in Threads, pc[t] = "add"
               PROVE  Clear(heap', region[t], held[region[t]])
    BY Zenon DEF PendingInv
  <1>1. /\ region[t] \in DevBases
        /\ held[region[t]] = GetAllocationSize(GetBlockSize(want[t]))
        /\ Clear(heap, region[t], held[region[t]])
    BY Zenon DEF PendingInv
  <1>2. region[t] \in Nat /\ held[region[t]] \in Nat /\ held[region[t]] > 0
    BY Zenon, <1>1, PendingSize, CachingAssumption
  <1> QED BY ZenonT(60), <1>1, <1>2 DEF ClearStays

LEMMA FindStep ==
  ASSUME HeapInv(heap), Placed(heap, held), held \in [DevBases -> Nat], MapOK,
         NEW s \in Sizes \cup {0}, NEW o, FindFreeBlock(s, o)
  PROVE  /\ HeapInv(heap') /\ Placed(heap', held) /\ ClearStays(heap, heap')
         /\ MapOK'
  <1>1. s \in Nat BY SMTT(60), CachingAssumption
  <1>2. PICK n \in Nat : n = GetBlockSize(s) /\ n >= s /\ n > 0
    BY Zenon, <1>1, Rounded
  <1>3. PICK i \in Bins : i = GetBinIndex(n) BY ZenonT(60), BinIndex
  <1>4. PICK b \in Candidates(heap, n, o, i) :
          \E x : /\ Removes(heap, x, b, i)
                 /\ \/ Allocate(x, b, s)
                    \/ /\ ShouldSplit(heap, b, n)
                       /\ \E a \in BlockIds \ heap.live :
                            \E y : /\ Splits(x, y, b, n, i, a)
                                   /\ Allocate(y, a, s)
    BY Zenon, <1>2, <1>3 DEF FindFreeBlock, Removes, Splits
  <1>5. b \in heap.bins[i] /\ heap.size[b] >= n /\ b \in BlockIds
        /\ heap.size[b] \in Nat
    <2>1. b \in heap.bins[i] /\ (heap.size[b] > n \/ heap.size[b] = n)
      BY Zenon DEF Candidates
    <2>2. b \in BlockIds /\ heap.size[b] \in Nat BY Zenon, <2>1 DEF HeapInv, Heap
    <2> QED BY SMTT(60), <2>1, <2>2
  <1>6. PICK x : /\ Removes(heap, x, b, i)
                 /\ \/ Allocate(x, b, s)
                    \/ /\ ShouldSplit(heap, b, n)
                       /\ \E a \in BlockIds \ heap.live :
                            \E y : /\ Splits(x, y, b, n, i, a)
                                   /\ Allocate(y, a, s)
    BY ZenonT(60), <1>4
  <1>7. CASE Allocate(x, b, s)
    <2>1. Marks(x, heap', b) BY ZenonT(60), <1>7 DEF Allocate, Marks
    <2>2. /\ HeapInv(heap') /\ Placed(heap', held) /\ ClearStays(heap, heap')
          /\ Adds(heap, heap', b)
          /\ b \in heap'.live /\ heap'.ptr[b] = x.ptr[b]
          /\ heap'.size[b] = heap.size[b]
      BY SMTT(60), <1>5, <1>6, <2>1, TakeWhole
    <2>3. /\ allocated_blocks_' = Put(allocated_blocks_, heap'.ptr[b], b)
          /\ granted' = Put(granted, heap'.ptr[b], s)
      BY Zenon, <1>7, <2>2 DEF Allocate
    <2>4. s <= heap'.size[b] BY SMTT(60), <1>1, <1>2, <1>5, <2>2
    <2> QED BY ZenonT(60), <2>2, <2>3, <2>4, MapAdds
  <1>8. CASE /\ ShouldSplit(heap, b, n)
             /\ \E a \in BlockIds \ heap.live :
                  \E y : Splits(x, y, b, n, i, a) /\ Allocate(y, a, s)
    <2>1. PICK a \in BlockIds \ heap.live :
            \E y : Splits(x, y, b, n, i, a) /\ Allocate(y, a, s)
      BY Zenon, <1>8
    <2>2. PICK y : Splits(x, y, b, n, i, a) /\ Allocate(y, a, s) BY ZenonT(60), <2>1
    <2>3. n < heap.size[b] BY SMTT(60), <1>2, <1>5, <1>8 DEF ShouldSplit
    <2>4. Marks(y, heap', a) BY Zenon, <2>2 DEF Allocate, Marks
    <2>5. /\ HeapInv(heap') /\ Placed(heap', held) /\ ClearStays(heap, heap')
          /\ Adds(heap, heap', a)
          /\ a \in heap'.live /\ heap'.ptr[a] = y.ptr[a] /\ heap'.size[a] = n
      BY SMTT(60), <1>2, <1>5, <1>6, <2>2, <2>3, <2>4, TakePart
    <2>6. /\ allocated_blocks_' = Put(allocated_blocks_, heap'.ptr[a], a)
          /\ granted' = Put(granted, heap'.ptr[a], s)
      BY ZenonT(60), <2>2, <2>5 DEF Allocate
    <2>7. s <= heap'.size[a] BY ZenonT(60), <1>1, <1>2, <2>5
    <2> QED BY ZenonT(60), <2>5, <2>6, <2>7, MapAdds
  <1> QED BY ZenonT(60), <1>6, <1>7, <1>8

LEMMA FreeStep ==
  ASSUME HeapInv(heap), Placed(heap, held), held \in [DevBases -> Nat], MapOK,
         NEW p, FreeAddr(p)
  PROVE  /\ HeapInv(heap') /\ Placed(heap', held) /\ ClearStays(heap, heap')
         /\ MapOK'
  <1>1. p \in DOMAIN allocated_blocks_ /\ allocated_blocks_[p] \in heap.live
    BY Zenon DEF FreeAddr, MapOK
  <1>2. Frees(heap, heap', allocated_blocks_[p]) BY Zenon DEF FreeAddr, Frees
  <1>3. /\ HeapInv(heap') /\ Placed(heap', held) /\ ClearStays(heap, heap')
        /\ KeepsOthers(heap, heap', allocated_blocks_[p])
    BY ZenonT(60), <1>1, <1>2, FreeBlockInv
  <1>4. MapOK' BY Zenon, <1>1, <1>3, MapFrees DEF FreeAddr
  <1> QED BY Zenon, <1>3, <1>4

LEMMA MallocInv ==
  ASSUME IInv, NEW t \in Threads, NEW s \in Sizes,
         NEW o \in Hints \cup {NoAddr}, Malloc(t, s, o)
  PROVE  IInv'
  <1>0. /\ HeapInv(heap) /\ Placed(heap, held)
        /\ PendingInv /\ MapOK /\ CallOK
    BY Zenon, Parts
  <1>1. CallOK' BY SMTT(60), <1>0 DEF Malloc, CallOK, callVars
  <1>2. CASE FindFreeBlock(s, o) /\ UNCHANGED callVars
    <2>1. /\ HeapInv(heap') /\ Placed(heap', held) /\ ClearStays(heap, heap')
          /\ MapOK'
      BY Zenon, <1>0, <1>2, FindStep DEF CallOK
    <2>2. UNCHANGED <<held, pc, want, region>> BY ZenonT(60), <1>2 DEF Malloc, callVars
    <2>3. PendingInv' BY Zenon, <1>0, <2>1, <2>2, PendingKeeps
    <2> QED BY ZenonT(60), <1>1, <2>1, <2>2, <2>3, PartsNext
  <1>3. CASE /\ pc' = [pc EXCEPT ![t] = "extend"]
             /\ want' = [want EXCEPT ![t] = s]
             /\ UNCHANGED <<userVars, region>>
    <2>1. UNCHANGED <<heap, allocated_blocks_, granted, held, region>>
      BY Zenon, <1>3 DEF Malloc, userVars
    <2>2. \A u \in Threads :
            pc'[u] = "add" => pc[u] = "add" /\ want'[u] = want[u]
      BY Zenon, <1>0, <1>3 DEF CallOK, Malloc
    <2>3. PendingInv' BY ZenonT(60), <1>0, <2>1, <2>2 DEF PendingInv
    <2>4. MapOK' BY Zenon, <1>0, <2>1 DEF MapOK, MapInv, Mapped
    <2> QED BY ZenonT(60), <1>0, <1>1, <2>1, <2>3, <2>4, PartsNext
  <1> QED BY ZenonT(60), <1>2, <1>3 DEF Malloc

LEMMA MallocMemoryInv ==
  ASSUME IInv, NEW t \in Threads, MallocMemory(t)
  PROVE  IInv'
  <1>0. /\ HeapInv(heap) /\ Placed(heap, held)
        /\ PendingInv /\ MapOK /\ CallOK
    BY ZenonT(60), Parts
  <1> DEFINE n == GetAllocationSize(GetBlockSize(want[t]))
  <1>1. n \in Nat /\ n > 0 BY Zenon, <1>0, PendingSize
  <1>2. UNCHANGED <<heap, allocated_blocks_, granted>>
    BY ZenonT(60) DEF MallocMemory, userVars
  <1>3. MapOK' BY ZenonT(60), <1>0, <1>2 DEF MapOK, MapInv, Mapped
  <1>4. CASE \E r \in DevBases :
               /\ Fits(r, n)
               /\ held' = [held EXCEPT ![r] = n]
               /\ region' = [region EXCEPT ![t] = r]
               /\ Goto(t, "add")
    <2> HIDE DEF n
    <2>1. PICK r \in DevBases :
               /\ Fits(r, n)
               /\ held' = [held EXCEPT ![r] = n]
               /\ region' = [region EXCEPT ![t] = r]
               /\ Goto(t, "add")
      BY ZenonT(60), <1>4
    <2>2. CallOK'
      BY ZenonT(60), <1>0, <1>1, <2>1 DEF CallOK, Goto, MallocMemory
    <2>3. /\ held[r] = 0 /\ r \in Nat /\ held'[r] = n
          /\ \A q \in DevBases : q # r => held'[q] = held[q]
          /\ \A q \in DevBases : held[q] \in Nat /\ q \in Nat
          /\ \A q \in DevBases : held[q] > 0 => Apart(q, held[q], r, n)
      BY ZenonT(60), <1>0, <2>1, CachingAssumption DEF CallOK, Fits, Apart
    <2>4. RegionsApart(held')
      BY ZenonT(60), <1>0, <1>1, <2>3 DEF Placed, RegionsApart, Apart
    <2>5. ASSUME NEW b \in heap.live, NEW q \in DevBases,
                 InRegion(heap, held, b, q)
          PROVE  /\ q # r
                 /\ InRegion(heap, held', b, q)
                 /\ Apart(heap.ptr[b], heap.size[b], r, n)
      <3>1. heap.ptr[b] \in Nat /\ heap.size[b] \in Nat /\ heap.size[b] > 0
        BY Zenon, <1>0 DEF HeapInv, Heap, Linked
      <3>2. /\ q \in Nat /\ held[q] \in Nat
            /\ q <= heap.ptr[b] /\ heap.ptr[b] + heap.size[b] <= q + held[q]
        BY ZenonT(60), <2>3, <2>5 DEF InRegion
      <3>3. held[q] > 0 BY SMTT(60), <3>1, <3>2
      <3>4. q # r BY SMTT(60), <2>3, <3>3
      <3>5. InRegion(heap, held', b, q) BY ZenonT(60), <2>3, <2>5, <3>4 DEF InRegion
      <3>6. Apart(q, held[q], r, n) BY ZenonT(60), <2>3, <3>3
      <3>7. Apart(heap.ptr[b], heap.size[b], r, n)
        <4>1. r \in Nat BY Zenon, <2>3
        <4> QED BY SMTT(60), <1>1, <3>1, <3>2, <3>6, <4>1 DEF Apart
      <3> QED BY ZenonT(60), <3>4, <3>5, <3>7
    <2>6. Placed(heap', held')
      BY ZenonT(60), <1>0, <1>2, <2>4, <2>5 DEF Placed
    <2>7. Clear(heap, r, n) BY Zenon, <1>0, <2>5 DEF Clear, Placed
    <2>8. PendingInv'
      <3> SUFFICES ASSUME NEW u \in Threads, pc'[u] = "add"
                   PROVE  /\ region'[u] \in DevBases
                          /\ held'[region'[u]] =
                               GetAllocationSize(GetBlockSize(want'[u]))
                          /\ \A v \in Threads \ {u} :
                               pc'[v] = "add" => region'[v] # region'[u]
                          /\ Clear(heap', region'[u], held'[region'[u]])
        BY Zenon DEF PendingInv
      <3>1. /\ region'[t] = r /\ want' = want
            /\ \A v \in Threads \ {t} :
                 region'[v] = region[v] /\ (pc'[v] = "add" => pc[v] = "add")
        BY Zenon, <1>0, <2>1 DEF CallOK, Goto
      <3>2. ASSUME NEW v \in Threads \ {t}, pc'[v] = "add"
            PROVE  /\ region'[v] \in DevBases /\ region'[v] # r
                   /\ held'[region'[v]] =
                        GetAllocationSize(GetBlockSize(want'[v]))
                   /\ Clear(heap', region'[v], held'[region'[v]])
        <4>1. /\ region[v] \in DevBases
              /\ held[region[v]] = GetAllocationSize(GetBlockSize(want[v]))
              /\ Clear(heap, region[v], held[region[v]])
          BY ZenonT(60), <1>0, <3>1, <3>2 DEF PendingInv
        <4>2. held[region[v]] > 0 BY Zenon, <1>0, <4>1, PendingSize
        <4>3. region[v] # r BY SMTT(60), <2>3, <4>2
        <4> QED BY ZenonT(60), <1>2, <2>3, <3>1, <4>1, <4>3
      <3>3. CASE u = t
        BY ZenonT(60), <1>2, <2>3, <2>7, <3>1, <3>2, <3>3 DEF n
      <3>4. CASE u # t
        <4>1. \A v \in Threads \ {u, t} :
                pc'[v] = "add" => region'[v] # region'[u]
          BY ZenonT(60), <1>0, <3>1, <3>4 DEF PendingInv
        <4> QED BY ZenonT(60), <3>1, <3>2, <3>4, <4>1
      <3> QED BY ZenonT(60), <3>3, <3>4
    <2> QED BY ZenonT(60), <1>0, <1>2, <1>3, <2>2, <2>6, <2>8, PartsNext
  <1>5. CASE /\ IF pc[t] = "extend" THEN Goto(t, "release") ELSE Return(t)
             /\ UNCHANGED <<held, region>>
    <2>1. CallOK' BY ZenonT(60), <1>0, <1>5 DEF CallOK, Goto, Return, MallocMemory
    <2>2. \A u \in Threads :
            pc'[u] = "add" => pc[u] = "add" /\ want'[u] = want[u]
      BY ZenonT(60), <1>0, <1>5 DEF CallOK, Goto, Return
    <2>3. PendingInv' BY Zenon, <1>0, <1>2, <1>5, <2>2 DEF PendingInv
    <2> QED BY ZenonT(60), <1>0, <1>2, <1>3, <1>5, <2>1, <2>3, PartsNext
  <1> QED BY ZenonT(60), <1>4, <1>5 DEF MallocMemory

\* FreeCachedBlocks gives back whole regions only.
LEMMA UnsplitBase ==
  ASSUME NEW h, HeapInv(h), NEW g, Placed(h, g), NEW b \in Unsplit(h)
  PROVE  h.ptr[b] \in DevBases
  BY Zenon DEF Unsplit, IsSplit, Placed, InRegion

LEMMA ReleaseStep ==
  ASSUME HeapInv(heap), Placed(heap, held), CallOK, PendingInv,
         NEW S, FreeCachedBlocks(S), NEW k, Drops(heap, k, S)
  PROVE  /\ HeapInv(k) /\ Placed(k, held') /\ Keeps(heap, k)
         /\ ClearStays(heap, k)
         /\ held' \in [DevBases -> Nat] /\ stuck' \subseteq DevBases
         /\ \A t \in Threads :
              pc[t] = "add" => held'[region[t]] = held[region[t]]
  <1>1. S \subseteq Unsplit(heap) BY Zenon DEF FreeCachedBlocks
  <1>2. GivesBack(heap, held, held', S) BY Zenon DEF FreeCachedBlocks, GivesBack
  <1>3. held \in [DevBases -> Nat] BY ZenonT(60) DEF CallOK
  <1>4. /\ HeapInv(k) /\ Placed(k, held') /\ Keeps(heap, k)
        /\ ClearStays(heap, k)
        /\ held' \in [DevBases -> Nat]
        /\ \A q \in DevBases :
             held[q] > 0 /\ Clear(heap, q, held[q]) => held'[q] = held[q]
    BY SMTT(60), <1>1, <1>2, <1>3, DropInv
  <1>5. stuck' \subseteq DevBases
    BY ZenonT(60), UnsplitBase DEF FreeCachedBlocks, CallOK
  <1>6. ASSUME NEW t \in Threads, pc[t] = "add"
        PROVE  held'[region[t]] = held[region[t]]
    <2>1. /\ region[t] \in DevBases
          /\ held[region[t]] = GetAllocationSize(GetBlockSize(want[t]))
          /\ Clear(heap, region[t], held[region[t]])
      BY Zenon, <1>6 DEF PendingInv
    <2>2. held[region[t]] > 0 BY Zenon, <2>1, PendingSize
    <2> QED BY ZenonT(60), <1>4, <2>1, <2>2
  <1> QED BY ZenonT(60), <1>4, <1>5, <1>6

\* PendingInv after the cached blocks have been given back.
LEMMA PendingReleased ==
  ASSUME CallOK, PendingInv, ClearStays(heap, heap'),
         \A t \in Threads : pc[t] = "add" => held'[region[t]] = held[region[t]],
         \A t \in Threads : pc'[t] = "add" => pc[t] = "add",
         UNCHANGED <<want, region>>
  PROVE  PendingInv'
  <1> SUFFICES ASSUME NEW t \in Threads, pc'[t] = "add"
               PROVE  /\ region[t] \in DevBases
                      /\ held'[region[t]] =
                           GetAllocationSize(GetBlockSize(want[t]))
                      /\ \A u \in Threads \ {t} :
                           pc'[u] = "add" => region[u] # region[t]
                      /\ Clear(heap', region[t], held'[region[t]])
    BY Zenon DEF PendingInv
  <1>1. /\ pc[t] = "add" /\ region[t] \in DevBases
        /\ held[region[t]] = GetAllocationSize(GetBlockSize(want[t]))
        /\ Clear(heap, region[t], held[region[t]])
        /\ \A u \in Threads \ {t} : pc[u] = "add" => region[u] # region[t]
    BY Zenon DEF PendingInv
  <1>2. region[t] \in Nat /\ held[region[t]] \in Nat /\ held[region[t]] > 0
    BY ZenonT(60), <1>1, PendingSize, CachingAssumption
  <1>3. Clear(heap', region[t], held[region[t]])
    BY Zenon, <1>1, <1>2 DEF ClearStays
  <1> QED BY ZenonT(60), <1>1, <1>3

LEMMA ReleaseInv ==
  ASSUME IInv, NEW t \in Threads, Release(t)
  PROVE  IInv'
  <1>0. /\ HeapInv(heap) /\ Placed(heap, held)
        /\ PendingInv /\ MapOK /\ CallOK
    BY Zenon, Parts
  <1>1. PICK S : FreeCachedBlocks(S) /\ heap' = DropCached(heap, S)
    BY Zenon DEF Release
  <1>2. Drops(heap, heap', S) BY Zenon, <1>1 DEF Drops
  <1>3. /\ HeapInv(heap') /\ Placed(heap', held') /\ Keeps(heap, heap')
        /\ ClearStays(heap, heap')
        /\ held' \in [DevBases -> Nat] /\ stuck' \subseteq DevBases
        /\ \A u \in Threads :
             pc[u] = "add" => held'[region[u]] = held[region[u]]
    BY ZenonT(60), <1>0, <1>1, <1>2, ReleaseStep
  <1>4. /\ \A u \in Threads : pc'[u] = "add" => pc[u] = "add"
        /\ UNCHANGED <<allocated_blocks_, granted, want, region>>
    BY ZenonT(60), <1>0 DEF Release, Goto, CallOK
  <1>5. CallOK' BY Zenon, <1>0, <1>3 DEF Release, Goto, CallOK
  <1>6. PendingInv' BY ZenonT(60), <1>0, <1>3, <1>4, PendingReleased
  <1>7. MapOK' BY Zenon, <1>0, <1>3, <1>4, MapKeeps
  <1> QED BY ZenonT(60), <1>3, <1>5, <1>6, <1>7, PartsNext

LEMMA AddToBlockBinInv ==
  ASSUME IInv, NEW t \in Threads, AddToBlockBin(t)
  PROVE  IInv'
  <1>0. /\ HeapInv(heap) /\ Placed(heap, held)
        /\ PendingInv /\ MapOK /\ CallOK
    BY Zenon, Parts
  <1>1. /\ region[t] \in DevBases /\ pc[t] = "add"
        /\ held[region[t]] = GetAllocationSize(GetBlockSize(want[t]))
        /\ Clear(heap, region[t], held[region[t]])
        /\ \A u \in Threads \ {t} : pc[u] = "add" => region[u] # region[t]
    BY ZenonT(60), <1>0 DEF AddToBlockBin, PendingInv
  <1>2. held[region[t]] > 0 BY ZenonT(60), <1>0, <1>1, PendingSize
  <1>3. PICK b \in BlockIds \ heap.live :
          Creates(heap, heap', b, region[t], held[region[t]])
    BY ZenonT(60), <1>1 DEF AddToBlockBin, Creates
  <1>4. /\ HeapInv(heap') /\ Placed(heap', held) /\ Keeps(heap, heap')
        /\ \A q \in DevBases :
             q # region[t] /\ held[q] > 0 /\ Clear(heap, q, held[q]) =>
               Clear(heap', q, held[q])
    BY SMTT(60), <1>0, <1>1, <1>2, <1>3, CreateInv DEF CallOK
  <1>5. /\ \A u \in Threads : pc'[u] = "add" =>
             pc[u] = "add" /\ u # t /\ region'[u] = region[u]
        /\ UNCHANGED <<allocated_blocks_, granted, want, held>>
    BY Zenon, <1>0 DEF AddToBlockBin, Goto, CallOK
  <1>6. CallOK' BY ZenonT(60), <1>0 DEF AddToBlockBin, Goto, CallOK
  <1>7. ASSUME NEW u \in Threads, pc'[u] = "add"
        PROVE  /\ region'[u] \in DevBases
               /\ held[region'[u]] = GetAllocationSize(GetBlockSize(want[u]))
               /\ \A v \in Threads \ {u} :
                    pc'[v] = "add" => region'[v] # region'[u]
               /\ Clear(heap', region'[u], held[region'[u]])
    <2>1. pc[u] = "add" /\ u # t /\ region'[u] = region[u] BY ZenonT(60), <1>5, <1>7
    <2>2. /\ region[u] \in DevBases
          /\ held[region[u]] = GetAllocationSize(GetBlockSize(want[u]))
          /\ Clear(heap, region[u], held[region[u]])
          /\ \A v \in Threads \ {u} : pc[v] = "add" => region[v] # region[u]
      BY Zenon, <1>0, <2>1 DEF PendingInv
    <2>3. held[region[u]] > 0 BY ZenonT(60), <1>0, <2>2, PendingSize
    <2>4. region[u] # region[t] BY ZenonT(60), <1>1, <2>1
    <2>5. Clear(heap', region[u], held[region[u]])
      BY ZenonT(60), <1>4, <2>2, <2>3, <2>4
    <2> QED BY ZenonT(60), <1>5, <2>1, <2>2, <2>5
  <1>8. PendingInv' BY ZenonT(60), <1>5, <1>7 DEF PendingInv
  <1>9. MapOK' BY Zenon, <1>0, <1>4, <1>5, MapKeeps
  <1> QED BY ZenonT(60), <1>4, <1>5, <1>6, <1>8, <1>9, PartsNext

LEMMA AddFailsInv ==
  ASSUME IInv, NEW t \in Threads, AddFails(t)
  PROVE  IInv'
  <1>0. /\ HeapInv(heap) /\ Placed(heap, held)
        /\ PendingInv /\ MapOK /\ CallOK
    BY Zenon, Parts
  <1>1. /\ region[t] \in DevBases /\ pc[t] = "add"
        /\ held[region[t]] = GetAllocationSize(GetBlockSize(want[t]))
        /\ Clear(heap, region[t], held[region[t]])
        /\ \A u \in Threads \ {t} : pc[u] = "add" => region[u] # region[t]
    BY Zenon, <1>0 DEF AddFails, PendingInv
  <1>2. UNCHANGED <<heap, allocated_blocks_, granted, phase>>
    BY Zenon DEF AddFails, userVars
  <1>3. \A u \in Threads : pc'[u] = "add" =>
          /\ pc[u] = "add" /\ u # t
          /\ region'[u] = region[u] /\ want'[u] = want[u]
    BY ZenonT(60), <1>0 DEF AddFails, Return, CallOK
  <1>4. \A r \in DevBases :
          r # region[t] => held'[r] = held[r]
    BY ZenonT(60), <1>0 DEF AddFails, CallOK
  <1>5. \A r \in DevBases : held'[r] = held[r] \/ held'[r] = 0
    BY Zenon, <1>0 DEF AddFails, CallOK
  <1>6. CallOK'
    <2>1. held' \in [DevBases -> Nat] /\ stuck' \subseteq DevBases
      BY SMTT(60), <1>0, <1>1 DEF AddFails, CallOK
    <2> QED BY ZenonT(60), <1>0, <2>1 DEF AddFails, Return, CallOK
  <1>7. \A r \in DevBases : r \in Nat /\ held[r] \in Nat
    BY Zenon, <1>0, CachingAssumption DEF CallOK
  <1>8. RegionsApart(held')
    BY SMTT(60), <1>0, <1>5, <1>7 DEF Placed, RegionsApart
  <1>9. ASSUME NEW b \in heap.live
        PROVE  \E r \in DevBases : InRegion(heap, held', b, r)
    <2>1. PICK r \in DevBases : InRegion(heap, held, b, r) BY Zenon, <1>0 DEF Placed
    <2>2. heap.ptr[b] \in Nat /\ heap.size[b] \in Nat /\ heap.size[b] > 0
      BY Zenon, <1>0 DEF HeapInv, Heap, Linked
    <2>3. /\ r \in Nat /\ held[r] \in Nat
          /\ r <= heap.ptr[b] /\ heap.ptr[b] + heap.size[b] <= r + held[r]
      BY ZenonT(60), <1>7, <2>1 DEF InRegion
    <2>4. r # region[t]
      <3>1. Apart(heap.ptr[b], heap.size[b], region[t], held[region[t]])
        BY Zenon, <1>1 DEF Clear
      <3> QED BY SMTT(60), <2>2, <2>3, <3>1 DEF Apart
    <2> QED BY SMTT(60), <1>4, <2>1, <2>4 DEF InRegion
  <1>10. Placed(heap', held') BY Zenon, <1>2, <1>8, <1>9 DEF Placed
  <1>11. PendingInv'
    BY SMTT(60), <1>0, <1>1, <1>2, <1>3, <1>4 DEF PendingInv
  <1>12. MapOK' BY Zenon, <1>0, <1>2 DEF MapOK, MapInv, Mapped
  <1> QED BY ZenonT(60), <1>0, <1>2, <1>6, <1>10, <1>11, <1>12, PartsNext

LEMMA FindAgainInv ==
  ASSUME IInv, NEW t \in Threads, FindAgain(t)
  PROVE  IInv'
  <1>0. /\ HeapInv(heap) /\ Placed(heap, held)
        /\ PendingInv /\ MapOK /\ CallOK
    BY Zenon, Parts
  <1>1. want[t] \in Sizes \cup {0} BY ZenonT(60), <1>0 DEF CallOK
  <1>2. CallOK' BY Zenon, <1>0 DEF FindAgain, Return, CallOK
  <1>3. /\ UNCHANGED <<held, region>>
        /\ \A u \in Threads :
             pc'[u] = "add" => pc[u] = "add" /\ want'[u] = want[u]
    BY ZenonT(60), <1>0 DEF FindAgain, Return, CallOK
  <1>4. /\ HeapInv(heap') /\ Placed(heap', held) /\ ClearStays(heap, heap')
        /\ MapOK'
    <2>1. CASE FindFreeBlock(want[t], org[t])
      BY ZenonT(60), <1>0, <1>1, <2>1, FindStep DEF CallOK
    <2>2. CASE UNCHANGED userVars
      <3>1. UNCHANGED <<heap, allocated_blocks_, granted>>
        BY ZenonT(60), <2>2 DEF userVars
      <3>2. MapOK' BY Zenon, <1>0, <3>1 DEF MapOK, MapInv, Mapped
      <3> QED BY ZenonT(60), <1>0, <3>1, <3>2 DEF ClearStays
    <2> QED BY ZenonT(60), <2>1, <2>2 DEF FindAgain
  <1>5. ASSUME NEW u \in Threads, pc'[u] = "add"
        PROVE  /\ region[u] \in DevBases
               /\ held[region[u]] = GetAllocationSize(GetBlockSize(want'[u]))
               /\ \A v \in Threads \ {u} :
                    pc'[v] = "add" => region[v] # region[u]
               /\ Clear(heap', region[u], held[region[u]])
    <2>1. /\ region[u] \in DevBases /\ pc[u] = "add"
          /\ held[region[u]] = GetAllocationSize(GetBlockSize(want[u]))
          /\ Clear(heap, region[u], held[region[u]])
          /\ \A v \in Threads \ {u} : pc[v] = "add" => region[v] # region[u]
      BY ZenonT(60), <1>0, <1>3, <1>5 DEF PendingInv
    <2>2. region[u] \in Nat /\ held[region[u]] \in Nat /\ held[region[u]] > 0
      BY ZenonT(60), <1>0, <2>1, PendingSize, CachingAssumption
    <2>3. Clear(heap', region[u], held[region[u]])
      BY ZenonT(60), <1>4, <2>1, <2>2 DEF ClearStays
    <2> QED BY ZenonT(60), <1>3, <1>5, <2>1, <2>3
  <1>6. PendingInv' BY Zenon, <1>3, <1>5 DEF PendingInv
  <1> QED BY ZenonT(60), <1>2, <1>3, <1>4, <1>6, PartsNext

LEMMA FreeInv ==
  ASSUME IInv, NEW p, FreeAddr(p),
         UNCHANGED <<held, stuck, phase, pc, want, org, region>>
  PROVE  IInv'
  <1>0. /\ HeapInv(heap) /\ Placed(heap, held)
        /\ PendingInv /\ MapOK /\ CallOK
    BY ZenonT(60), Parts
  <1>1. /\ HeapInv(heap') /\ Placed(heap', held) /\ ClearStays(heap, heap')
        /\ MapOK'
    BY Zenon, <1>0, FreeStep DEF CallOK
  <1>2. CallOK' BY ZenonT(60), <1>0 DEF CallOK
  <1>3. PendingInv' BY Zenon, <1>0, <1>1, PendingKeeps
  <1> QED BY ZenonT(60), <1>1, <1>2, <1>3, PartsNext

\* A heap without blocks.
LEMMA EmptyHeapInv ==
  /\ HeapInv(EmptyHeap) /\ EmptyHeap.live = {}
  /\ \A g : RegionsApart(g) => Placed(EmptyHeap, g)
  <1>1. 1 \in Bins BY SMTT(60), CachingAssumption DEF Bins, kNumBins
  <1>2. EmptyHeap \in Heap BY Zenon, <1>1 DEF EmptyHeap, Heap
  <1>3. EmptyHeap.live = {} /\ \A i \in Bins : EmptyHeap.bins[i] = {}
    BY ZenonT(60) DEF EmptyHeap
  <1>4. HeapInv(EmptyHeap)
    BY ZenonT(60), <1>2, <1>3 DEF HeapInv, Disjoint, Linked, Binned
  <1> QED BY ZenonT(60), <1>3, <1>4 DEF Placed

LEMMA FreeBlocksEndInv ==
  ASSUME IInv, FreeBlocksEnd
  PROVE  IInv'
  <1>0. /\ HeapInv(heap) /\ Placed(heap, held)
        /\ PendingInv /\ MapOK /\ CallOK
    BY Zenon, Parts
  <1>1. PICK S : /\ FreeCachedBlocks(S)
                 /\ heap' = IF phase = "final" THEN EmptyHeap
                            ELSE DropCached(heap, S)
    BY Zenon DEF FreeBlocksEnd
  <1>2. PICK k : Drops(heap, k, S) BY ZenonT(60) DEF Drops
  <1>3. /\ HeapInv(k) /\ Placed(k, held') /\ Keeps(heap, k)
        /\ ClearStays(heap, k)
        /\ held' \in [DevBases -> Nat] /\ stuck' \subseteq DevBases
        /\ \A u \in Threads :
             pc[u] = "add" => held'[region[u]] = held[region[u]]
    BY ZenonT(60), <1>0, <1>1, <1>2, ReleaseStep
  <1>4. UNCHANGED <<allocated_blocks_, granted, pc, want, org, region>>
    BY Zenon DEF FreeBlocksEnd, callVars
  <1>5. CallOK' BY ZenonT(60), <1>0, <1>3, <1>4 DEF FreeBlocksEnd, CallOK
  <1>6. CASE phase # "final"
    <2>1. heap' = k BY ZenonT(60), <1>1, <1>2, <1>6 DEF Drops
    <2>2. /\ HeapInv(heap') /\ Placed(heap', held') /\ Keeps(heap, heap')
          /\ ClearStays(heap, heap')
      BY ZenonT(60), <1>3, <2>1
    <2>3. PendingInv' BY ZenonT(60), <1>0, <1>3, <1>4, <2>2, PendingReleased
    <2>4. MapOK' BY ZenonT(60), <1>0, <1>4, <2>2, MapKeeps
    <2> QED BY ZenonT(60), <1>5, <2>2, <2>3, <2>4, PartsNext
  <1>7. CASE phase = "final"
    <2>1. heap' = EmptyHeap BY ZenonT(60), <1>1, <1>7
    <2>2. HeapInv(heap') /\ Placed(heap', held') /\ heap'.live = {}
      BY ZenonT(60), <1>3, <2>1, EmptyHeapInv DEF Placed
    <2>3. ClearStays(heap, heap') BY ZenonT(60), <2>2 DEF ClearStays, Clear
    <2>4. PendingInv' BY ZenonT(60), <1>0, <1>3, <1>4, <2>3, PendingReleased
    <2>5. DOMAIN allocated_blocks_' = {} /\ DOMAIN granted' = {}
      BY ZenonT(60), <1>0, <1>4 DEF FreeBlocksEnd, MapOK
    <2>6. MapOK' BY Zenon, <2>2, <2>5 DEF MapOK, MapInv, Mapped
    <2> QED BY ZenonT(60), <1>5, <2>2, <2>4, <2>6, PartsNext
  <1> QED BY ZenonT(60), <1>6, <1>7

\* Steps of the phase alone, and stuttering.
LEMMA PhaseInv ==
  ASSUME IInv, phase' \in {"run", "reset", "final", "gone"},
         UNCHANGED <<heap, allocated_blocks_, granted, held, stuck,
                     pc, want, org, region>>
  PROVE  IInv'
  <1>0. /\ HeapInv(heap) /\ Placed(heap, held)
        /\ PendingInv /\ MapOK /\ CallOK
    BY ZenonT(60), Parts
  <1>1. CallOK' BY Zenon, <1>0 DEF CallOK
  <1>2. MapOK' BY Zenon, <1>0 DEF MapOK, MapInv, Mapped
  <1>3. PendingInv' BY Zenon, <1>0 DEF PendingInv
  <1> QED BY ZenonT(60), <1>0, <1>1, <1>2, <1>3, PartsNext

(***************************************************************************)
(* The theorems.                                                           *)
(***************************************************************************)
LEMMA InitInv == Init => IInv
  <1> SUFFICES ASSUME Init PROVE IInv
    BY Zenon
  <1>1. heap = EmptyHeap BY Zenon DEF Init
  <1>2. RegionsApart(held) BY SMTT(60) DEF Init, RegionsApart
  <1>3. HeapInv(heap) /\ Placed(heap, held) /\ heap.live = {}
    BY ZenonT(60), <1>1, <1>2, EmptyHeapInv
  <1>4. CallOK BY Zenon DEF Init, CallOK
  <1>5. PendingInv BY Zenon DEF Init, PendingInv
  <1>6. DOMAIN allocated_blocks_ = {} /\ DOMAIN granted = {} BY Zenon DEF Init
  <1>7. MapOK BY Zenon, <1>3, <1>6 DEF MapOK, MapInv, Mapped
  <1> QED BY ZenonT(60), <1>3, <1>4, <1>5, <1>7, Parts

LEMMA NextInv == IInv /\ [Next]_vars => IInv'
  <1> SUFFICES ASSUME IInv, [Next]_vars PROVE IInv'
    BY ZenonT(60)
  <1>1. ASSUME NEW t \in Threads, NEW s \in Sizes,
               NEW o \in Hints \cup {NoAddr}, Malloc(t, s, o)
        PROVE  IInv'
    BY Zenon, <1>1, MallocInv
  <1>2. ASSUME NEW t \in Threads, MallocMemory(t) PROVE IInv'
    BY ZenonT(60), <1>2, MallocMemoryInv
  <1>3. ASSUME NEW t \in Threads, Release(t) PROVE IInv'
    BY ZenonT(60), <1>3, ReleaseInv
  <1>4. ASSUME NEW t \in Threads, AddToBlockBin(t) PROVE IInv'
    BY Zenon, <1>4, AddToBlockBinInv
  <1>5. ASSUME NEW t \in Threads, AddFails(t) PROVE IInv'
    BY ZenonT(60), <1>5, AddFailsInv
  <1>6. ASSUME NEW t \in Threads, FindAgain(t) PROVE IInv'
    BY Zenon, <1>6, FindAgainInv
  <1>7. ASSUME NEW p, Free(p) \/ FreeBlocksNext(p) PROVE IInv'
    <2>1. /\ FreeAddr(p)
          /\ UNCHANGED <<held, stuck, phase, pc, want, org, region>>
      BY Zenon, <1>7 DEF Free, FreeBlocksNext, callVars
    <2> QED BY ZenonT(60), <2>1, FreeInv
  <1>8. ASSUME NEW ph \in {"reset", "final"}, FreeBlocksBegin(ph) PROVE IInv'
    BY ZenonT(60), <1>8, PhaseInv DEF FreeBlocksBegin, userVars, callVars
  <1>9. CASE FreeBlocksEnd BY ZenonT(60), <1>9, FreeBlocksEndInv
  <1>10. CASE Initialize
    BY ZenonT(60), <1>10, PhaseInv DEF Initialize, userVars, callVars
  <1>11. CASE UNCHANGED vars
    <2>1. phase \in {"run", "reset", "final", "gone"} BY Zenon DEF IInv, TypeOK
    <2> QED BY ZenonT(60), <1>11, <2>1, PhaseInv DEF vars, userVars, callVars
  <1> QED
    BY ZenonT(60), <1>1, <1>2, <1>3, <1>4, <1>5, <1>6, <1>7, <1>8, <1>9, <1>10, <1>11
    DEF Next

\* The invariant says what the callers rely on.
LEMMA InvNoOverlap == IInv => NoOverlap
  <1> SUFFICES ASSUME IInv PROVE NoOverlap
    BY Zenon
  <1>0. /\ HeapInv(heap) /\ Placed(heap, held)
        /\ PendingInv /\ MapOK /\ CallOK
    BY Zenon, Parts
  <1>1. ASSUME NEW p \in DOMAIN granted
        PROVE  /\ allocated_blocks_[p] \in heap.live
               /\ heap.ptr[allocated_blocks_[p]] = p
               /\ granted[p] <= heap.size[allocated_blocks_[p]]
               /\ granted[p] \in Nat /\ p \in Nat
               /\ heap.size[allocated_blocks_[p]] \in Nat
    <2>1. /\ allocated_blocks_[p] \in heap.live
          /\ heap.ptr[allocated_blocks_[p]] = p
          /\ granted[p] <= heap.size[allocated_blocks_[p]]
          /\ granted[p] \in Sizes \cup {0}
      BY ZenonT(60), <1>0 DEF MapOK, MapInv
    <2>2. \A s \in Sizes \cup {0} : s \in Nat BY SMTT(60), CachingAssumption
    <2>3. granted[p] \in Nat BY ZenonT(60), <2>1, <2>2
    <2>4. \A b \in heap.live : heap.ptr[b] \in Nat /\ heap.size[b] \in Nat
      BY Zenon, <1>0 DEF HeapInv, Heap
    <2> QED BY ZenonT(60), <2>1, <2>3, <2>4
  <1>2. ASSUME NEW p \in DOMAIN granted
        PROVE  \E r \in DevBases : r <= p /\ p + granted[p] <= r + held[r]
    <2>1. PICK r \in DevBases : InRegion(heap, held, allocated_blocks_[p], r)
      BY Zenon, <1>0, <1>1 DEF Placed
    <2>2. r \in Nat /\ held[r] \in Nat BY ZenonT(60), <1>0, CachingAssumption DEF CallOK
    <2> QED BY SMTT(60), <1>1, <2>1, <2>2 DEF InRegion
  <1>3. ASSUME NEW p \in DOMAIN granted, NEW q \in DOMAIN granted, p # q
        PROVE  p + granted[p] <= q \/ q + granted[q] <= p
    <2>1. allocated_blocks_[p] # allocated_blocks_[q] BY Zenon, <1>1, <1>3
    <2>2. Apart(p, heap.size[allocated_blocks_[p]],
                q, heap.size[allocated_blocks_[q]])
      BY ZenonT(60), <1>0, <1>1, <2>1 DEF HeapInv, Disjoint
    <2> QED BY SMTT(60), <1>1, <2>2 DEF Apart
  <1>4. Mapped BY Zenon, <1>0 DEF MapOK, MapInv
  <1> QED BY ZenonT(60), <1>2, <1>3, <1>4 DEF NoOverlap

\* What Malloc returns never overlaps, is as large as was asked for and lies in
\* memory the runtime has given, for any sizes, bins, threads and device, under
\* every interleaving of Malloc and Free and every failure of the runtime.
THEOREM MemoryNeverOverlaps == Spec => []NoOverlap
  <1>1. Init => IInv BY ZenonT(60), InitInv
  <1>2. IInv /\ [Next]_vars => IInv' BY Zenon, NextInv
  <1>3. IInv => NoOverlap BY Zenon, InvNoOverlap
  <1> QED BY <1>1, <1>2, <1>3, PTL DEF Spec

\* The lists of blocks that SplitBlock and MergeBlocks maintain stay sound, and
\* no link leads to a deleted block.
THEOREM LinksAlwaysOK == Spec => []LinksOK
  <1>1. Init => IInv BY Zenon, InitInv
  <1>2. IInv /\ [Next]_vars => IInv' BY Zenon, NextInv
  <1>3. IInv => LinksOK BY Zenon DEF IInv, HeapInv, Linked, LinksOK
  <1> QED BY <1>1, <1>2, <1>3, PTL DEF Spec

\* The ranges of the variables, and that the map leads to allocated blocks.
THEOREM CachingTypeOK == Spec => []TypeOK
  <1>1. Init => IInv BY Zenon, InitInv
  <1>2. IInv /\ [Next]_vars => IInv' BY Zenon, NextInv
  <1>3. IInv => TypeOK BY Zenon DEF IInv
  <1> QED BY <1>1, <1>2, <1>3, PTL DEF Spec

=============================================================================
