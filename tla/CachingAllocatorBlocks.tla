------------------------ MODULE CachingAllocatorBlocks ------------------------
(*****************************************************************************)
(* Rounding sizes, freeing and merging blocks, splitting a block, giving one *)
(* out, and adding and returning a region of device memory: what GetBlockSize,*)
(* GetBinIndex, MergeBlocks, FreeBlock, SplitBlock and the release of a region*)
(* keep of a heap that is in order.                                          *)
(*****************************************************************************)
EXTENDS CachingAllocator, TLAPS, WellFoundedInduction, NaturalsInduction

(***************************************************************************)
(* Sizes.                                                                  *)
(***************************************************************************)

\* GetBlockSize rounds up to a positive size.
LEMMA Rounded ==
  ASSUME NEW n \in Nat
  PROVE  GetBlockSize(n) \in Nat /\ GetBlockSize(n) >= n /\ GetBlockSize(n) > 0
  <1> DEFINE k == kRoundBlockSize
             q == (n + k - 1) \div k
  <1>1. k \in Nat /\ k > 0 BY SMTT(60), CachingAssumption
  <1>2. q \in Nat /\ k * q \in Nat /\ k * q > n - 1 BY SMTT(60), <1>1
  <1> QED BY SMTT(60), <1>1, <1>2 DEF GetBlockSize

\* GetBinIndex is an index of free_block_bins_.
LEMMA BinIndex ==
  ASSUME NEW n \in Nat
  PROVE  GetBinIndex(n) \in Bins
  <1> DEFINE fits == {i \in Bins : n <= bin_ranges[i]}
  <1>1. kNumBins \in Bins BY SMTT(60), CachingAssumption DEF kNumBins, Bins
  <1>2. CASE fits = {} BY Zenon, <1>1, <1>2 DEF GetBinIndex
  <1>3. CASE fits # {}
    <2>1. fits \subseteq Nat BY SMTT(60) DEF Bins
    <2>2. \E i \in fits : \A j \in fits : ~(<<j, i>> \in OpToRel(<, Nat))
      BY Zenon, <1>3, <2>1, NatLessThanWellFounded, WFMin
    <2>3. \A i, j \in Nat : j < i => <<j, i>> \in OpToRel(<, Nat)
      BY Zenon DEF OpToRel
    <2>4. \A i, j \in Nat : i <= j \/ j < i
      BY SMTT(60)
    <2>5. \E i \in fits : \A j \in fits : i <= j
      BY Zenon, <2>1, <2>2, <2>3, <2>4
    <2> QED BY Zenon, <1>3, <2>5 DEF GetBinIndex
  <1> QED BY Zenon, <1>2, <1>3

\* The size of a region is positive.
LEMMA AllocationSize ==
  ASSUME NEW n \in Nat
  PROVE  GetAllocationSize(n) \in Nat /\ GetAllocationSize(n) > 0
  <1>1. \A i \in Bins : bin_ranges[i] \in Nat /\ bin_ranges[i] > 0
    BY SMTT(60), CachingAssumption DEF Bins, kNumBins
  <1> QED BY Zenon, <1>1, BinIndex DEF GetAllocationSize

(***************************************************************************)
(* MergeBlocks and FreeBlock.                                              *)
(***************************************************************************)

\* The blocks in use are in k what they were in h, and h had no others.
Keeps(h, k) ==
  \A c \in BlockIds :
    /\ c \in k.live /\ k.allocated[c] <=> c \in h.live /\ h.allocated[c]
    /\ c \in h.live /\ h.allocated[c] =>
         k.ptr[c] = h.ptr[c] /\ k.size[c] = h.size[c]

\* Memory in which no block of h has a part has none of k.
ClearStays(h, k) ==
  \A p, n \in Nat : n > 0 /\ Clear(h, p, n) => Clear(k, p, n)

\* k is h after dst has taken over src.
Takes(h, k, dst, src) == k = Delete(Relink(h, dst, src), {src})

\* The heap after dst has taken over its neighbour src, field by field.
LEMMA MergeFields ==
  ASSUME NEW h \in Heap, NEW dst \in BlockIds, NEW src \in BlockIds, src # dst,
         NEW k, Takes(h, k, dst, src)
  PROVE  /\ k \in Heap
         /\ k.live = h.live \ {src}
         /\ \A i \in Bins : \A b \in BlockIds :
              b \in k.bins[i] <=>
                b \in h.bins[i] /\ ~(i = h.bin[dst] /\ b = src)
         /\ \A b \in BlockIds \ {src} :
              /\ k.allocated[b] = h.allocated[b]
              /\ k.bin[b] = h.bin[b]
  <1>1. 1 \in Bins BY SMTT(60), CachingAssumption DEF Bins, kNumBins
  <1>2. k \in Heap BY SMTT(60), <1>1 DEF Takes, Delete, Relink, Heap
  <1>3. k.live = h.live \ {src} BY Zenon DEF Takes, Delete, Relink
  <1>4. \A i \in Bins : \A b \in BlockIds :
          b \in k.bins[i] <=> b \in h.bins[i] /\ ~(i = h.bin[dst] /\ b = src)
    BY Zenon DEF Takes, Delete, Relink, Heap
  <1>5. \A b \in BlockIds \ {src} : k.allocated[b] = h.allocated[b]
    BY Zenon DEF Takes, Delete, Relink, Heap
  <1>6. \A b \in BlockIds \ {src} : k.bin[b] = h.bin[b]
    BY Zenon DEF Takes, Delete, Relink
  <1> QED BY Zenon, <1>2, <1>3, <1>4, <1>5, <1>6

\* Their addresses and sizes.
LEMMA MergeSizes ==
  ASSUME NEW h \in Heap, NEW dst \in BlockIds, NEW src \in BlockIds, src # dst,
         NEW k, Takes(h, k, dst, src)
  PROVE  /\ k.size[dst] = h.size[dst] + h.size[src]
         /\ k.ptr[dst] = IF h.prev[dst] = src THEN h.ptr[src] ELSE h.ptr[dst]
         /\ \A b \in BlockIds \ {src, dst} :
              k.size[b] = h.size[b] /\ k.ptr[b] = h.ptr[b]
  <1>1. k.size[dst] = h.size[dst] + h.size[src]
    BY Zenon DEF Takes, Delete, Relink, Heap
  <1>2. k.ptr[dst] = IF h.prev[dst] = src THEN h.ptr[src] ELSE h.ptr[dst]
    BY Zenon DEF Takes, Delete, Relink, Heap
  <1>3. \A b \in BlockIds \ {src, dst} : k.size[b] = h.size[b]
    BY Zenon DEF Takes, Delete, Relink, Heap
  <1>4. \A b \in BlockIds \ {src, dst} : k.ptr[b] = h.ptr[b]
    BY Zenon DEF Takes, Delete, Relink, Heap
  <1> QED BY Zenon, <1>1, <1>2, <1>3, <1>4

\* Their links, when src was in front of dst and when it was behind.
LEMMA MergeLinksPrev ==
  ASSUME NEW h \in Heap, NEW dst \in BlockIds, NEW src \in BlockIds, src # dst,
         NEW k, Takes(h, k, dst, src), h.prev[dst] = src
  PROVE  \A b \in BlockIds \ {src} :
           /\ k.prev[b] = IF b = dst THEN h.prev[src] ELSE h.prev[b]
           /\ k.next[b] = IF b = h.prev[src] THEN dst ELSE h.next[b]
  BY Zenon DEF Takes, Delete, Relink

LEMMA MergeLinksNext ==
  ASSUME NEW h \in Heap, NEW dst \in BlockIds, NEW src \in BlockIds, src # dst,
         NEW k, Takes(h, k, dst, src), h.prev[dst] # src
  PROVE  \A b \in BlockIds \ {src} :
           /\ k.prev[b] = IF b = h.next[src] THEN dst ELSE h.prev[b]
           /\ k.next[b] = IF b = dst THEN h.next[src] ELSE h.next[b]
  BY Zenon DEF Takes, Delete, Relink

\* dst takes over the block in front of it.
LEMMA MergePrev ==
  ASSUME NEW h, HeapInv(h), NEW g \in [DevBases -> Nat], Placed(h, g),
         NEW dst \in h.live, ~h.allocated[dst],
         NEW src \in BlockIds, src = h.prev[dst], ~h.allocated[src],
         NEW k, Takes(h, k, dst, src)
  PROVE  /\ HeapInv(k) /\ Placed(k, g) /\ Keeps(h, k) /\ ClearStays(h, k)
         /\ dst \in k.live /\ ~k.allocated[dst] /\ k.bin[dst] = h.bin[dst]
         /\ k.next[dst] = h.next[dst]
  <1>1. /\ h \in Heap /\ h.live \subseteq BlockIds
        /\ NoBlock \notin BlockIds /\ dst \in BlockIds
        /\ \A b \in BlockIds : h.ptr[b] \in Nat /\ h.size[b] \in Nat
    BY Zenon, CachingAssumption DEF HeapInv, Heap
  <1>2. Disjoint(h) /\ Linked(h) /\ Binned(h) BY Zenon DEF HeapInv
  <1>3. /\ src \in h.live /\ src # NoBlock
        /\ h.next[src] = dst /\ h.prev[dst] = src
        /\ h.ptr[dst] = h.ptr[src] + h.size[src]
        /\ h.bin[src] = h.bin[dst]
        /\ h.size[src] > 0 /\ h.size[dst] > 0
    BY SMTT(60), <1>1, <1>2 DEF Linked
  <1>4. src # dst BY SMTT(60), <1>1, <1>3
  <1>5. h.next[dst] # src
    BY SMTT(60), <1>1, <1>2, <1>3 DEF Linked
  <1>6. k \in Heap /\ k.live = h.live \ {src}
    BY SMTT(60), <1>1, <1>4, MergeFields
  <1>7. \A b \in BlockIds \ {src} :
          k.allocated[b] = h.allocated[b] /\ k.bin[b] = h.bin[b]
    BY SMTT(60), <1>1, <1>4, MergeFields
  <1>8. \A i \in Bins : \A b \in BlockIds :
          b \in k.bins[i] <=> b \in h.bins[i] /\ ~(i = h.bin[dst] /\ b = src)
    BY SMTT(60), <1>1, <1>4, MergeFields
  <1>9. /\ k.size[dst] = h.size[dst] + h.size[src] /\ k.ptr[dst] = h.ptr[src]
        /\ \A b \in BlockIds \ {src, dst} :
             k.size[b] = h.size[b] /\ k.ptr[b] = h.ptr[b]
    BY SMTT(60), <1>1, <1>4, <1>5, MergeSizes
  <1>10. \A b \in BlockIds \ {src} :
           /\ k.prev[b] = IF b = dst THEN h.prev[src] ELSE h.prev[b]
           /\ k.next[b] = IF b = h.prev[src] THEN dst ELSE h.next[b]
    BY SMTT(60), <1>1, <1>4, <1>5, MergeLinksPrev
  <1>11. Disjoint(k)
    <2> SUFFICES ASSUME NEW b \in k.live, NEW c \in k.live, b # c
                 PROVE  Apart(k.ptr[b], k.size[b], k.ptr[c], k.size[c])
      BY Zenon DEF Disjoint
    <2>1. b \in h.live \ {src} /\ c \in h.live \ {src} BY Zenon, <1>6
    <2>2. h.size[b] > 0 /\ h.size[c] > 0 BY ZenonT(60), <1>2, <2>1 DEF Linked
    <2>3. /\ Apart(h.ptr[b], h.size[b], h.ptr[c], h.size[c])
          /\ Apart(h.ptr[b], h.size[b], h.ptr[src], h.size[src])
          /\ Apart(h.ptr[c], h.size[c], h.ptr[src], h.size[src])
      BY ZenonT(60), <1>2, <1>3, <2>1 DEF Disjoint
    <2> QED BY SMTT(60), <1>1, <1>3, <1>9, <2>1, <2>2, <2>3 DEF Apart
  <1>12. Linked(k)
    <2> SUFFICES ASSUME NEW b \in k.live
                 PROVE  /\ k.size[b] > 0
                        /\ k.next[b] # NoBlock =>
                             /\ k.next[b] \in k.live
                             /\ k.prev[k.next[b]] = b
                             /\ k.ptr[k.next[b]] = k.ptr[b] + k.size[b]
                             /\ k.bin[k.next[b]] = k.bin[b]
                        /\ k.prev[b] # NoBlock =>
                             k.prev[b] \in k.live /\ k.next[k.prev[b]] = b
      BY ZenonT(60) DEF Linked
    <2>1. b \in h.live \ {src} BY ZenonT(60), <1>6
    <2>2. k.size[b] > 0 BY SMTT(60), <1>1, <1>2, <1>3, <1>9, <2>1 DEF Linked
    <2>3. k.next[b] # NoBlock =>
            /\ k.next[b] \in k.live
            /\ k.prev[k.next[b]] = b
            /\ k.bin[k.next[b]] = k.bin[b]
      BY SMTT(60), <1>1, <1>2, <1>3, <1>4, <1>5, <1>6, <1>7, <1>10, <2>1 DEF Linked
    <2>4. k.next[b] # NoBlock => k.ptr[k.next[b]] = k.ptr[b] + k.size[b]
      BY SMTT(60), <1>1, <1>2, <1>3, <1>4, <1>5, <1>9, <1>10, <2>1 DEF Linked
    <2>5. k.prev[b] # NoBlock =>
            k.prev[b] \in k.live /\ k.next[k.prev[b]] = b
      BY SMTT(60), <1>1, <1>2, <1>3, <1>4, <1>5, <1>6, <1>10, <2>1 DEF Linked
    <2> QED BY Zenon, <2>2, <2>3, <2>4, <2>5
  <1>13. Binned(k)
    <2> SUFFICES ASSUME NEW i \in Bins, NEW b \in k.bins[i]
                 PROVE  b \in k.live /\ ~k.allocated[b] /\ k.bin[b] = i
      BY Zenon DEF Binned
    <2>1. b \in BlockIds BY ZenonT(60), <1>6 DEF Heap
    <2>2. b \in h.live /\ ~h.allocated[b] /\ h.bin[b] = i /\ b # src
      BY SMTT(60), <1>2, <1>3, <1>8, <2>1 DEF Binned
    <2> QED BY ZenonT(60), <1>6, <1>7, <2>1, <2>2
  <1>14. Placed(k, g)
    <2> SUFFICES ASSUME NEW b \in k.live
                 PROVE  \E r \in DevBases : InRegion(k, g, b, r)
      BY ZenonT(60) DEF Placed
    <2>1. b \in h.live \ {src} /\ b \in BlockIds BY Zenon, <1>1, <1>6
    <2>2. PICK r \in DevBases : InRegion(h, g, b, r) BY ZenonT(60), <2>1 DEF Placed
    <2>3. PICK q \in DevBases : InRegion(h, g, src, q) BY ZenonT(60), <1>3 DEF Placed
    <2>4. /\ r \in Nat /\ q \in Nat /\ g[r] \in Nat /\ g[q] \in Nat
          /\ q # r /\ g[q] > 0 /\ g[r] > 0 => Apart(q, g[q], r, g[r])
      BY ZenonT(60), CachingAssumption DEF Placed, RegionsApart
    <2>5. CASE b = dst
      <3>1. q = r BY SMTT(60), <1>1, <1>3, <2>2, <2>3, <2>4, <2>5 DEF InRegion, Apart
      <3>2. /\ k.prev[b] = h.prev[src]
            /\ k.next[b] = h.next[dst]
        BY SMTT(60), <1>1, <1>2, <1>3, <1>4, <1>5, <1>10, <2>1, <2>5 DEF Linked
      <3> QED
        BY SMTT(60), <1>1, <1>3, <1>9, <2>1, <2>2, <2>3, <2>4, <2>5, <3>1, <3>2
        DEF InRegion
    <2>6. CASE b # dst
      <3>1. k.ptr[b] = h.ptr[b] /\ k.size[b] = h.size[b]
        BY ZenonT(60), <1>9, <2>1, <2>6
      <3>2. /\ k.prev[b] = NoBlock <=> h.prev[b] = NoBlock
            /\ k.next[b] = NoBlock <=> h.next[b] = NoBlock
        BY SMTT(60), <1>1, <1>2, <1>3, <1>10, <2>1, <2>6 DEF Linked
      <3> QED BY ZenonT(60), <2>2, <3>1, <3>2 DEF InRegion
    <2> QED BY ZenonT(60), <2>5, <2>6
  <1>15. Keeps(h, k)
    BY ZenonT(60), <1>1, <1>3, <1>6, <1>7, <1>9 DEF Keeps
  <1>16. ClearStays(h, k)
    <2> SUFFICES ASSUME NEW p \in Nat, NEW n \in Nat, n > 0, Clear(h, p, n),
                        NEW b \in k.live
                 PROVE  Apart(k.ptr[b], k.size[b], p, n)
      BY ZenonT(60) DEF ClearStays, Clear
    <2>1. b \in h.live \ {src} BY Zenon, <1>6
    <2>2. /\ Apart(h.ptr[b], h.size[b], p, n)
          /\ Apart(h.ptr[src], h.size[src], p, n)
      BY ZenonT(60), <1>3, <2>1 DEF Clear
    <2> QED BY SMTT(60), <1>1, <1>3, <1>9, <2>1, <2>2 DEF Apart
  <1>17. dst \in k.live /\ ~k.allocated[dst] /\ k.bin[dst] = h.bin[dst]
    BY ZenonT(60), <1>1, <1>4, <1>6, <1>7
  <1>18. k.next[dst] = h.next[dst]
    BY SMTT(60), <1>1, <1>2, <1>3, <1>4, <1>10 DEF Linked
  <1> QED
    BY ZenonT(60), <1>6, <1>11, <1>12, <1>13, <1>14, <1>15, <1>16, <1>17, <1>18 DEF HeapInv

\* dst takes over the block behind it.
LEMMA MergeNext ==
  ASSUME NEW h, HeapInv(h), NEW g \in [DevBases -> Nat], Placed(h, g),
         NEW dst \in h.live, ~h.allocated[dst],
         NEW src \in BlockIds, src = h.next[dst], ~h.allocated[src],
         NEW k, Takes(h, k, dst, src)
  PROVE  /\ HeapInv(k) /\ Placed(k, g) /\ Keeps(h, k) /\ ClearStays(h, k)
         /\ dst \in k.live /\ ~k.allocated[dst] /\ k.bin[dst] = h.bin[dst]
  <1>1. /\ h \in Heap /\ h.live \subseteq BlockIds
        /\ NoBlock \notin BlockIds /\ dst \in BlockIds
        /\ \A b \in BlockIds : h.ptr[b] \in Nat /\ h.size[b] \in Nat
    BY Zenon, CachingAssumption DEF HeapInv, Heap
  <1>2. Disjoint(h) /\ Linked(h) /\ Binned(h) BY Zenon DEF HeapInv
  <1>3. /\ src \in h.live /\ src # NoBlock
        /\ h.next[dst] = src /\ h.prev[src] = dst
        /\ h.ptr[src] = h.ptr[dst] + h.size[dst]
        /\ h.bin[src] = h.bin[dst]
        /\ h.size[src] > 0 /\ h.size[dst] > 0
    BY Zenon, <1>1, <1>2 DEF Linked
  <1>4. src # dst BY SMTT(60), <1>1, <1>3
  <1>5. h.prev[dst] # src
    BY SMTT(60), <1>1, <1>2, <1>3 DEF Linked
  <1>6. k \in Heap /\ k.live = h.live \ {src}
    BY SMTT(60), <1>1, <1>4, MergeFields
  <1>7. \A b \in BlockIds \ {src} :
          k.allocated[b] = h.allocated[b] /\ k.bin[b] = h.bin[b]
    BY SMTT(60), <1>1, <1>4, MergeFields
  <1>8. \A i \in Bins : \A b \in BlockIds :
          b \in k.bins[i] <=> b \in h.bins[i] /\ ~(i = h.bin[dst] /\ b = src)
    BY SMTT(60), <1>1, <1>4, MergeFields
  <1>9. /\ k.size[dst] = h.size[dst] + h.size[src] /\ k.ptr[dst] = h.ptr[dst]
        /\ \A b \in BlockIds \ {src, dst} :
             k.size[b] = h.size[b] /\ k.ptr[b] = h.ptr[b]
    BY SMTT(60), <1>1, <1>4, <1>5, MergeSizes
  <1>10. \A b \in BlockIds \ {src} :
           /\ k.prev[b] = IF b = h.next[src] THEN dst ELSE h.prev[b]
           /\ k.next[b] = IF b = dst THEN h.next[src] ELSE h.next[b]
    BY SMTT(60), <1>1, <1>4, <1>5, MergeLinksNext
  <1>11. Disjoint(k)
    <2> SUFFICES ASSUME NEW b \in k.live, NEW c \in k.live, b # c
                 PROVE  Apart(k.ptr[b], k.size[b], k.ptr[c], k.size[c])
      BY ZenonT(60) DEF Disjoint
    <2>1. b \in h.live \ {src} /\ c \in h.live \ {src} BY ZenonT(60), <1>6
    <2>2. h.size[b] > 0 /\ h.size[c] > 0 BY Zenon, <1>2, <2>1 DEF Linked
    <2>3. /\ Apart(h.ptr[b], h.size[b], h.ptr[c], h.size[c])
          /\ Apart(h.ptr[b], h.size[b], h.ptr[src], h.size[src])
          /\ Apart(h.ptr[c], h.size[c], h.ptr[src], h.size[src])
      BY ZenonT(60), <1>2, <1>3, <2>1 DEF Disjoint
    <2> QED BY SMTT(60), <1>1, <1>3, <1>9, <2>1, <2>2, <2>3 DEF Apart
  <1>12. Linked(k)
    <2> SUFFICES ASSUME NEW b \in k.live
                 PROVE  /\ k.size[b] > 0
                        /\ k.next[b] # NoBlock =>
                             /\ k.next[b] \in k.live
                             /\ k.prev[k.next[b]] = b
                             /\ k.ptr[k.next[b]] = k.ptr[b] + k.size[b]
                             /\ k.bin[k.next[b]] = k.bin[b]
                        /\ k.prev[b] # NoBlock =>
                             k.prev[b] \in k.live /\ k.next[k.prev[b]] = b
      BY Zenon DEF Linked
    <2>1. b \in h.live \ {src} BY ZenonT(60), <1>6
    <2>2. k.size[b] > 0 BY SMTT(60), <1>1, <1>2, <1>3, <1>9, <2>1 DEF Linked
    <2>3. k.next[b] # NoBlock =>
            /\ k.next[b] \in k.live
            /\ k.prev[k.next[b]] = b
            /\ k.bin[k.next[b]] = k.bin[b]
      BY SMTT(60), <1>1, <1>2, <1>3, <1>4, <1>5, <1>6, <1>7, <1>10, <2>1 DEF Linked
    <2>4. k.next[b] # NoBlock => k.ptr[k.next[b]] = k.ptr[b] + k.size[b]
      BY SMTT(60), <1>1, <1>2, <1>3, <1>4, <1>5, <1>9, <1>10, <2>1 DEF Linked
    <2>5. k.prev[b] # NoBlock =>
            k.prev[b] \in k.live /\ k.next[k.prev[b]] = b
      BY SMTT(60), <1>1, <1>2, <1>3, <1>4, <1>5, <1>6, <1>10, <2>1 DEF Linked
    <2> QED BY ZenonT(60), <2>2, <2>3, <2>4, <2>5
  <1>13. Binned(k)
    <2> SUFFICES ASSUME NEW i \in Bins, NEW b \in k.bins[i]
                 PROVE  b \in k.live /\ ~k.allocated[b] /\ k.bin[b] = i
      BY Zenon DEF Binned
    <2>1. b \in BlockIds BY Zenon, <1>6 DEF Heap
    <2>2. b \in h.live /\ ~h.allocated[b] /\ h.bin[b] = i /\ b # src
      BY SMTT(60), <1>2, <1>3, <1>8, <2>1 DEF Binned
    <2> QED BY ZenonT(60), <1>6, <1>7, <2>1, <2>2
  <1>14. Placed(k, g)
    <2> SUFFICES ASSUME NEW b \in k.live
                 PROVE  \E r \in DevBases : InRegion(k, g, b, r)
      BY Zenon DEF Placed
    <2>1. b \in h.live \ {src} /\ b \in BlockIds BY ZenonT(60), <1>1, <1>6
    <2>2. PICK r \in DevBases : InRegion(h, g, b, r) BY Zenon, <2>1 DEF Placed
    <2>3. PICK q \in DevBases : InRegion(h, g, src, q) BY ZenonT(60), <1>3 DEF Placed
    <2>4. /\ r \in Nat /\ q \in Nat /\ g[r] \in Nat /\ g[q] \in Nat
          /\ q # r /\ g[q] > 0 /\ g[r] > 0 => Apart(q, g[q], r, g[r])
      BY Zenon, CachingAssumption DEF Placed, RegionsApart
    <2>5. CASE b = dst
      <3>1. q = r BY SMTT(60), <1>1, <1>3, <2>2, <2>3, <2>4, <2>5 DEF InRegion, Apart
      <3>2. /\ k.prev[b] = h.prev[dst]
            /\ k.next[b] = h.next[src]
        BY SMTT(60), <1>1, <1>2, <1>3, <1>4, <1>5, <1>10, <2>1, <2>5 DEF Linked
      <3> QED
        BY SMTT(60), <1>1, <1>3, <1>9, <2>1, <2>2, <2>3, <2>4, <2>5, <3>1, <3>2
        DEF InRegion
    <2>6. CASE b # dst
      <3>1. k.ptr[b] = h.ptr[b] /\ k.size[b] = h.size[b]
        BY ZenonT(60), <1>9, <2>1, <2>6
      <3>2. /\ k.prev[b] = NoBlock <=> h.prev[b] = NoBlock
            /\ k.next[b] = NoBlock <=> h.next[b] = NoBlock
        BY SMTT(60), <1>1, <1>2, <1>3, <1>10, <2>1, <2>6 DEF Linked
      <3> QED BY ZenonT(60), <2>2, <3>1, <3>2 DEF InRegion
    <2> QED BY ZenonT(60), <2>5, <2>6
  <1>15. Keeps(h, k)
    BY ZenonT(60), <1>1, <1>3, <1>6, <1>7, <1>9 DEF Keeps
  <1>16. ClearStays(h, k)
    <2> SUFFICES ASSUME NEW p \in Nat, NEW n \in Nat, n > 0, Clear(h, p, n),
                        NEW b \in k.live
                 PROVE  Apart(k.ptr[b], k.size[b], p, n)
      BY ZenonT(60) DEF ClearStays, Clear
    <2>1. b \in h.live \ {src} BY ZenonT(60), <1>6
    <2>2. /\ Apart(h.ptr[b], h.size[b], p, n)
          /\ Apart(h.ptr[src], h.size[src], p, n)
      BY ZenonT(60), <1>3, <2>1 DEF Clear
    <2> QED BY SMTT(60), <1>1, <1>3, <1>9, <2>1, <2>2 DEF Apart
  <1>17. dst \in k.live /\ ~k.allocated[dst] /\ k.bin[dst] = h.bin[dst]
    BY ZenonT(60), <1>1, <1>4, <1>6, <1>7
  <1> QED
    BY ZenonT(60), <1>6, <1>11, <1>12, <1>13, <1>14, <1>15, <1>16, <1>17 DEF HeapInv

\* MergeBlocks changes nothing the invariant speaks of.
LEMMA MergeBlocksPrev ==
  ASSUME NEW h, HeapInv(h), NEW g \in [DevBases -> Nat], Placed(h, g),
         NEW b \in h.live, ~h.allocated[b],
         NEW k, k = MergeBlocks(h, b, h.prev[b])
  PROVE  /\ HeapInv(k) /\ Placed(k, g) /\ Keeps(h, k) /\ ClearStays(h, k)
         /\ b \in k.live /\ ~k.allocated[b] /\ k.bin[b] = h.bin[b]
         /\ k.next[b] = h.next[b]
  <1>1. b \in BlockIds /\ h.prev[b] \in BlockIds \cup {NoBlock}
    BY Zenon DEF HeapInv, Heap
  <1>2. CASE CanMerge(h, b) /\ CanMerge(h, h.prev[b])
    <2>1. Takes(h, k, b, h.prev[b]) BY Zenon, <1>2 DEF Takes, MergeBlocks
    <2>2. h.prev[b] \in BlockIds /\ ~h.allocated[h.prev[b]]
      BY Zenon, <1>1, <1>2 DEF CanMerge
    <2> QED BY SMTT(60), <2>1, <2>2, MergePrev
  <1>3. CASE ~(CanMerge(h, b) /\ CanMerge(h, h.prev[b]))
    <2>1. k = h BY Zenon, <1>3 DEF MergeBlocks
    <2> QED BY Zenon, <2>1 DEF Keeps, ClearStays
  <1> QED BY Zenon, <1>2, <1>3

LEMMA MergeBlocksNext ==
  ASSUME NEW h, HeapInv(h), NEW g \in [DevBases -> Nat], Placed(h, g),
         NEW b \in h.live, ~h.allocated[b],
         NEW k, k = MergeBlocks(h, b, h.next[b])
  PROVE  /\ HeapInv(k) /\ Placed(k, g) /\ Keeps(h, k) /\ ClearStays(h, k)
         /\ b \in k.live /\ ~k.allocated[b] /\ k.bin[b] = h.bin[b]
  <1>1. b \in BlockIds /\ h.next[b] \in BlockIds \cup {NoBlock}
    BY Zenon DEF HeapInv, Heap
  <1>2. CASE CanMerge(h, b) /\ CanMerge(h, h.next[b])
    <2>1. Takes(h, k, b, h.next[b]) BY Zenon, <1>2 DEF Takes, MergeBlocks
    <2>2. h.next[b] \in BlockIds /\ ~h.allocated[h.next[b]]
      BY Zenon, <1>1, <1>2 DEF CanMerge
    <2> QED BY SMTT(60), <2>1, <2>2, MergeNext
  <1>3. CASE ~(CanMerge(h, b) /\ CanMerge(h, h.next[b]))
    <2>1. k = h BY Zenon, <1>3 DEF MergeBlocks
    <2> QED BY Zenon, <2>1 DEF Keeps, ClearStays
  <1> QED BY Zenon, <1>2, <1>3

\* h and k differ in what is allocated and what is in the bins only.
SameBlocks(h, k) ==
  /\ k.live = h.live
  /\ \A b \in BlockIds :
       /\ k.ptr[b] = h.ptr[b]
       /\ k.size[b] = h.size[b]
       /\ k.prev[b] = h.prev[b]
       /\ k.next[b] = h.next[b]
       /\ k.bin[b] = h.bin[b]

\* Then all but what Binned says is the same too.
LEMMA SameBlocksInv ==
  ASSUME NEW h, HeapInv(h), NEW g \in [DevBases -> Nat], Placed(h, g),
         NEW k \in Heap, SameBlocks(h, k)
  PROVE  Disjoint(k) /\ Linked(k) /\ Placed(k, g) /\ ClearStays(h, k)
  <1>1. /\ h.live \subseteq BlockIds /\ NoBlock \notin BlockIds
        /\ Disjoint(h) /\ Linked(h)
    BY Zenon, CachingAssumption DEF HeapInv, Heap
  <1>2. Disjoint(k) BY Zenon, <1>1 DEF SameBlocks, Disjoint
  <1>3. Linked(k) BY SMTT(60), <1>1 DEF SameBlocks, Linked
  <1>4. Placed(k, g) BY SMTT(60), <1>1 DEF SameBlocks, Placed, InRegion
  <1>5. ClearStays(h, k) BY Zenon, <1>1 DEF SameBlocks, ClearStays, Clear
  <1> QED BY Zenon, <1>2, <1>3, <1>4, <1>5

\* After FreeBlock, the blocks that are in use are those that were, without b.
KeepsOthers(h, k, b) ==
  \A c \in BlockIds :
    /\ c \in k.live /\ k.allocated[c] <=>
         c \in h.live /\ h.allocated[c] /\ c # b
    /\ c \in h.live /\ h.allocated[c] /\ c # b =>
         k.ptr[c] = h.ptr[c] /\ k.size[c] = h.size[c]

Frees(h, k, b) == k = FreeBlock(h, b)

LEMMA FreeBlockInv ==
  ASSUME NEW h, HeapInv(h), NEW g \in [DevBases -> Nat], Placed(h, g),
         NEW b \in h.live, NEW k, Frees(h, k, b)
  PROVE  HeapInv(k) /\ Placed(k, g) /\ ClearStays(h, k) /\ KeepsOthers(h, k, b)
  <1>1. b \in BlockIds /\ h.bin[b] \in Bins /\ h \in Heap BY Zenon DEF HeapInv, Heap
  <1>2. PICK f : f = [h EXCEPT !.allocated[b] = FALSE] BY Zenon
  <1>3. PICK l : l = MergeBlocks(f, b, h.prev[b]) BY Zenon
  <1>4. PICK m : m = MergeBlocks(l, b, h.next[b]) BY Zenon
  <1>5. k = [m EXCEPT !.bins[h.bin[b]] = @ \cup {b}]
    BY Zenon, <1>2, <1>3, <1>4 DEF Frees, FreeBlock
  <1>6. /\ f \in Heap /\ SameBlocks(h, f) /\ f.bins = h.bins
        /\ \A c \in BlockIds :
             f.allocated[c] = IF c = b THEN FALSE ELSE h.allocated[c]
    BY ZenonT(60), <1>1, <1>2 DEF Heap, SameBlocks
  <1>7. Binned(f) BY ZenonT(60), <1>1, <1>6 DEF HeapInv, Binned, SameBlocks, Heap
  <1>8. HeapInv(f) /\ Placed(f, g) /\ ClearStays(h, f)
    BY Zenon, <1>6, <1>7, SameBlocksInv DEF HeapInv
  <1>9. b \in f.live /\ ~f.allocated[b] /\ f.prev[b] = h.prev[b]
        /\ f.next[b] = h.next[b] /\ f.bin[b] = h.bin[b]
    BY Zenon, <1>1, <1>6 DEF SameBlocks
  <1>10. /\ HeapInv(l) /\ Placed(l, g) /\ Keeps(f, l) /\ ClearStays(f, l)
         /\ b \in l.live /\ ~l.allocated[b] /\ l.bin[b] = f.bin[b]
         /\ l.next[b] = f.next[b]
    BY SMTT(60), <1>3, <1>8, <1>9, MergeBlocksPrev
  <1>11. /\ HeapInv(m) /\ Placed(m, g) /\ Keeps(l, m) /\ ClearStays(l, m)
         /\ b \in m.live /\ ~m.allocated[b] /\ m.bin[b] = l.bin[b]
    BY SMTT(60), <1>4, <1>9, <1>10, MergeBlocksNext
  <1>12. /\ k \in Heap /\ SameBlocks(m, k) /\ k.allocated = m.allocated
         /\ \A i \in Bins :
              k.bins[i] = IF i = h.bin[b] THEN m.bins[i] \cup {b} ELSE m.bins[i]
    <2>1. m \in Heap BY Zenon, <1>11 DEF HeapInv
    <2>2. k \in Heap BY ZenonT(60), <1>1, <1>5, <2>1 DEF Heap
    <2>3. SameBlocks(m, k) /\ k.allocated = m.allocated
      BY Zenon, <1>5, <2>1 DEF Heap, SameBlocks
    <2>4. \A i \in Bins :
            k.bins[i] = IF i = h.bin[b] THEN m.bins[i] \cup {b} ELSE m.bins[i]
      BY Zenon, <1>5, <2>1 DEF Heap
    <2> QED BY Zenon, <2>2, <2>3, <2>4
  <1>13. Binned(k)
    <2>1. m.bin[b] = h.bin[b] BY Zenon, <1>9, <1>10, <1>11
    <2>2. Binned(m) /\ m.live \subseteq BlockIds BY Zenon, <1>11 DEF HeapInv, Heap
    <2> SUFFICES ASSUME NEW i \in Bins, NEW c \in k.bins[i]
                 PROVE  c \in k.live /\ ~k.allocated[c] /\ k.bin[c] = i
      BY Zenon DEF Binned
    <2>3. c \in m.bins[i] \/ (c = b /\ i = h.bin[b]) BY Zenon, <1>12
    <2>4. c \in m.live /\ ~m.allocated[c] /\ m.bin[c] = i
      BY Zenon, <1>11, <2>1, <2>2, <2>3 DEF Binned
    <2> QED BY Zenon, <1>12, <2>2, <2>4 DEF SameBlocks
  <1>14. HeapInv(k) /\ Placed(k, g) /\ ClearStays(m, k)
    BY Zenon, <1>11, <1>12, <1>13, SameBlocksInv DEF HeapInv
  <1>15. ClearStays(h, k)
    BY Zenon, <1>8, <1>10, <1>11, <1>14 DEF ClearStays
  <1>16. KeepsOthers(h, k, b)
    <2> SUFFICES ASSUME NEW c \in BlockIds
                 PROVE  /\ c \in k.live /\ k.allocated[c] <=>
                             c \in h.live /\ h.allocated[c] /\ c # b
                        /\ c \in h.live /\ h.allocated[c] /\ c # b =>
                             k.ptr[c] = h.ptr[c] /\ k.size[c] = h.size[c]
      BY Zenon DEF KeepsOthers
    <2>1. /\ c \in f.live /\ f.allocated[c] <=>
               c \in h.live /\ h.allocated[c] /\ c # b
          /\ f.ptr[c] = h.ptr[c] /\ f.size[c] = h.size[c]
      BY Zenon, <1>6 DEF SameBlocks
    <2>2. /\ c \in m.live /\ m.allocated[c] <=> c \in f.live /\ f.allocated[c]
          /\ c \in f.live /\ f.allocated[c] =>
               m.ptr[c] = f.ptr[c] /\ m.size[c] = f.size[c]
      BY Zenon, <1>10, <1>11 DEF Keeps
    <2>3. /\ c \in k.live /\ k.allocated[c] <=> c \in m.live /\ m.allocated[c]
          /\ k.ptr[c] = m.ptr[c] /\ k.size[c] = m.size[c]
      BY Zenon, <1>12 DEF SameBlocks
    <2> QED BY Zenon, <2>1, <2>2, <2>3
  <1> QED BY Zenon, <1>14, <1>15, <1>16

(***************************************************************************)
(* SplitBlock, and giving out a block.                                     *)
(***************************************************************************)

\* k is h after n bytes of b, which is in bin i, became block a.
Splits(h, k, b, n, i, a) == k = SplitBlock(h, b, n, i, a)

\* The heap after that, field by field.
LEMMA SplitFields ==
  ASSUME NEW h \in Heap, NEW b \in BlockIds, NEW a \in BlockIds, a # b,
         NEW i \in Bins, NEW n \in Nat, n < h.size[b],
         NEW k, Splits(h, k, b, n, i, a)
  PROVE  /\ k \in Heap
         /\ k.live = h.live \cup {a}
         /\ \A j \in Bins : \A c \in BlockIds :
              c \in k.bins[j] <=> c \in h.bins[j] \/ (j = i /\ c = b)
         /\ \A c \in BlockIds :
              /\ k.allocated[c] <=> c # a /\ h.allocated[c]
              /\ k.bin[c] = IF c = a THEN i ELSE h.bin[c]
  <1>1. k \in Heap BY SMTT(60) DEF Splits, SplitBlock, Heap
  <1>2. k.live = h.live \cup {a} BY Zenon DEF Splits, SplitBlock
  <1>3. \A j \in Bins : \A c \in BlockIds :
          c \in k.bins[j] <=> c \in h.bins[j] \/ (j = i /\ c = b)
    BY Zenon DEF Splits, SplitBlock, Heap
  <1>4. \A c \in BlockIds :
          k.allocated[c] <=> c # a /\ h.allocated[c]
    BY Zenon DEF Splits, SplitBlock, Heap
  <1>5. \A c \in BlockIds : k.bin[c] = IF c = a THEN i ELSE h.bin[c]
    BY Zenon DEF Splits, SplitBlock, Heap
  <1> QED BY Zenon, <1>1, <1>2, <1>3, <1>4, <1>5

LEMMA SplitLinks ==
  ASSUME NEW h \in Heap, NEW b \in BlockIds, NEW a \in BlockIds, a # b,
         NEW i \in Bins, NEW n \in Nat, n < h.size[b],
         NEW k, Splits(h, k, b, n, i, a)
  PROVE  /\ k.ptr[a] = h.ptr[b] /\ k.size[a] = n
         /\ k.ptr[b] = h.ptr[b] + n /\ k.size[b] = h.size[b] - n
         /\ \A c \in BlockIds \ {a, b} :
              k.ptr[c] = h.ptr[c] /\ k.size[c] = h.size[c]
         /\ \A c \in BlockIds :
              /\ k.prev[c] = IF c = b THEN a
                             ELSE IF c = a THEN h.prev[b] ELSE h.prev[c]
              /\ k.next[c] = IF c = a THEN b
                             ELSE IF c = h.prev[b] THEN a ELSE h.next[c]
  <1>1. /\ k.ptr[a] = h.ptr[b] /\ k.ptr[b] = h.ptr[b] + n
        /\ \A c \in BlockIds \ {a, b} : k.ptr[c] = h.ptr[c]
    BY Zenon DEF Splits, SplitBlock, Heap
  <1>2. /\ k.size[a] = n /\ k.size[b] = h.size[b] - n
        /\ \A c \in BlockIds \ {a, b} : k.size[c] = h.size[c]
    BY Zenon DEF Splits, SplitBlock, Heap
  <1>3. \A c \in BlockIds :
          k.prev[c] = IF c = b THEN a
                      ELSE IF c = a THEN h.prev[b] ELSE h.prev[c]
    BY Zenon DEF Splits, SplitBlock, Heap
  <1>4. \A c \in BlockIds :
          k.next[c] = IF c = a THEN b
                      ELSE IF c = h.prev[b] THEN a ELSE h.next[c]
    BY Zenon DEF Splits, SplitBlock
  <1> QED BY Zenon, <1>1, <1>2, <1>3, <1>4

LEMMA SplitInv ==
  ASSUME NEW h, HeapInv(h), NEW g \in [DevBases -> Nat], Placed(h, g),
         NEW b \in h.live, ~h.allocated[b], NEW a \in BlockIds \ h.live,
         NEW i \in Bins, h.bin[b] = i, NEW n \in Nat, n > 0, n < h.size[b],
         NEW k, Splits(h, k, b, n, i, a)
  PROVE  /\ HeapInv(k) /\ Placed(k, g) /\ Keeps(h, k) /\ ClearStays(h, k)
         /\ a \in k.live /\ k.ptr[a] = h.ptr[b] /\ k.size[a] = n
         /\ \A j \in Bins : a \notin k.bins[j]
  <1>1. /\ h \in Heap /\ h.live \subseteq BlockIds
        /\ NoBlock \notin BlockIds /\ b \in BlockIds /\ a # b /\ a # NoBlock
        /\ \A c \in BlockIds : h.ptr[c] \in Nat /\ h.size[c] \in Nat
    BY Zenon, CachingAssumption DEF HeapInv, Heap
  <1>2. Disjoint(h) /\ Linked(h) /\ Binned(h) BY Zenon DEF HeapInv
  <1>3. k \in Heap /\ k.live = h.live \cup {a} BY SMTT(60), <1>1, SplitFields
  <1>4. \A c \in BlockIds :
          /\ k.allocated[c] <=> c # a /\ h.allocated[c]
          /\ k.bin[c] = IF c = a THEN i ELSE h.bin[c]
    BY SMTT(60), <1>1, SplitFields
  <1>5. \A j \in Bins : \A c \in BlockIds :
          c \in k.bins[j] <=> c \in h.bins[j] \/ (j = i /\ c = b)
    BY SMTT(60), <1>1, SplitFields
  <1>6. /\ k.ptr[a] = h.ptr[b] /\ k.size[a] = n
        /\ k.ptr[b] = h.ptr[b] + n /\ k.size[b] = h.size[b] - n
        /\ \A c \in BlockIds \ {a, b} :
             k.ptr[c] = h.ptr[c] /\ k.size[c] = h.size[c]
    BY SMTT(60), <1>1, SplitLinks
  <1>7. \A c \in BlockIds :
          /\ k.prev[c] = IF c = b THEN a
                         ELSE IF c = a THEN h.prev[b] ELSE h.prev[c]
          /\ k.next[c] = IF c = a THEN b
                         ELSE IF c = h.prev[b] THEN a ELSE h.next[c]
    BY SMTT(60), <1>1, SplitLinks
  <1>8. Disjoint(k)
    <2> SUFFICES ASSUME NEW c \in k.live, NEW d \in k.live, c # d
                 PROVE  Apart(k.ptr[c], k.size[c], k.ptr[d], k.size[d])
      BY Zenon DEF Disjoint
    <2>1. c \in h.live \cup {a} /\ d \in h.live \cup {a} BY Zenon, <1>3
    <2>2. /\ c \in h.live /\ d \in h.live =>
               Apart(h.ptr[c], h.size[c], h.ptr[d], h.size[d])
          /\ c \in h.live /\ c # b =>
               Apart(h.ptr[c], h.size[c], h.ptr[b], h.size[b])
          /\ d \in h.live /\ d # b =>
               Apart(h.ptr[d], h.size[d], h.ptr[b], h.size[b])
      BY Zenon, <1>2 DEF Disjoint
    <2> QED BY SMTT(60), <1>1, <1>6, <2>1, <2>2 DEF Apart
  <1>9. Linked(k)
    <2> SUFFICES ASSUME NEW c \in k.live
                 PROVE  /\ k.size[c] > 0
                        /\ k.next[c] # NoBlock =>
                             /\ k.next[c] \in k.live
                             /\ k.prev[k.next[c]] = c
                             /\ k.ptr[k.next[c]] = k.ptr[c] + k.size[c]
                             /\ k.bin[k.next[c]] = k.bin[c]
                        /\ k.prev[c] # NoBlock =>
                             k.prev[c] \in k.live /\ k.next[k.prev[c]] = c
      BY Zenon DEF Linked
    <2>1. c \in h.live \cup {a} BY Zenon, <1>3
    <2>2. k.size[c] > 0 BY SMTT(60), <1>1, <1>2, <1>6, <2>1 DEF Linked
    <2>3. k.next[c] # NoBlock =>
            /\ k.next[c] \in k.live
            /\ k.prev[k.next[c]] = c
            /\ k.bin[k.next[c]] = k.bin[c]
      BY SMTT(60), <1>1, <1>2, <1>3, <1>4, <1>7, <2>1 DEF Linked
    <2>4. k.next[c] # NoBlock => k.ptr[k.next[c]] = k.ptr[c] + k.size[c]
      BY SMTT(60), <1>1, <1>2, <1>6, <1>7, <2>1 DEF Linked
    <2>5. k.prev[c] # NoBlock =>
            k.prev[c] \in k.live /\ k.next[k.prev[c]] = c
      BY SMTT(60), <1>1, <1>2, <1>3, <1>7, <2>1 DEF Linked
    <2> QED BY ZenonT(60), <2>2, <2>3, <2>4, <2>5
  <1>10. Binned(k)
    <2> SUFFICES ASSUME NEW j \in Bins, NEW c \in k.bins[j]
                 PROVE  c \in k.live /\ ~k.allocated[c] /\ k.bin[c] = j
      BY Zenon DEF Binned
    <2>1. c \in BlockIds BY ZenonT(60), <1>3 DEF Heap
    <2>2. c \in h.live /\ ~h.allocated[c] /\ h.bin[c] = j
      BY SMTT(60), <1>2, <1>5, <2>1 DEF Binned
    <2> QED BY Zenon, <1>3, <1>4, <2>1, <2>2
  <1>11. Placed(k, g)
    <2> SUFFICES ASSUME NEW c \in k.live
                 PROVE  \E r \in DevBases : InRegion(k, g, c, r)
      BY ZenonT(60) DEF Placed
    <2>1. c \in h.live \cup {a} BY Zenon, <1>3
    <2>2. PICK r \in DevBases : InRegion(h, g, b, r) BY Zenon DEF Placed
    <2>3. r \in Nat /\ g[r] \in Nat BY ZenonT(60), CachingAssumption
    <2>4. CASE c \in {a, b}
      <3>1. /\ k.prev[a] = h.prev[b] /\ k.next[a] = b
            /\ k.prev[b] = a /\ k.next[b] = h.next[b]
        BY SMTT(60), <1>1, <1>2, <1>7 DEF Linked
      <3> QED BY SMTT(60), <1>1, <1>6, <2>2, <2>3, <2>4, <3>1 DEF InRegion
    <2>5. CASE c \notin {a, b}
      <3>1. PICK q \in DevBases : InRegion(h, g, c, q)
        BY ZenonT(60), <2>1, <2>5 DEF Placed
      <3>2. k.ptr[c] = h.ptr[c] /\ k.size[c] = h.size[c]
        BY ZenonT(60), <1>1, <1>6, <2>1, <2>5
      <3>3. /\ k.prev[c] = NoBlock <=> h.prev[c] = NoBlock
            /\ k.next[c] = NoBlock <=> h.next[c] = NoBlock
        BY SMTT(60), <1>1, <1>2, <1>7, <2>1, <2>5 DEF Linked
      <3> QED BY ZenonT(60), <3>1, <3>2, <3>3 DEF InRegion
    <2> QED BY ZenonT(60), <2>4, <2>5
  <1>12. Keeps(h, k) BY ZenonT(60), <1>1, <1>3, <1>4, <1>6 DEF Keeps
  <1>13. ClearStays(h, k)
    <2> SUFFICES ASSUME NEW p \in Nat, NEW m \in Nat, m > 0, Clear(h, p, m),
                        NEW c \in k.live
                 PROVE  Apart(k.ptr[c], k.size[c], p, m)
      BY ZenonT(60) DEF ClearStays, Clear
    <2>1. c \in h.live \cup {a} BY ZenonT(60), <1>3
    <2>2. /\ Apart(h.ptr[b], h.size[b], p, m)
          /\ c \in h.live => Apart(h.ptr[c], h.size[c], p, m)
      BY ZenonT(60) DEF Clear
    <2> QED BY SMTT(60), <1>1, <1>6, <2>1, <2>2 DEF Apart
  <1>14. \A j \in Bins : a \notin k.bins[j]
    BY ZenonT(60), <1>1, <1>2, <1>5 DEF Binned
  <1> QED
    BY ZenonT(60), <1>3, <1>6, <1>8, <1>9, <1>10, <1>11, <1>12, <1>13, <1>14 DEF HeapInv

\* FindFreeBlock takes b out of bin i.
Removes(h, k, b, i) == k = [h EXCEPT !.bins[i] = @ \ {b}]

LEMMA RemoveInv ==
  ASSUME NEW h, HeapInv(h), NEW g \in [DevBases -> Nat], Placed(h, g),
         NEW i \in Bins, NEW b \in h.bins[i], NEW k, Removes(h, k, b, i)
  PROVE  /\ HeapInv(k) /\ Placed(k, g) /\ SameBlocks(h, k)
         /\ k.allocated = h.allocated
         /\ \A j \in Bins : b \notin k.bins[j]
  <1>1. h \in Heap /\ h.live \subseteq BlockIds BY Zenon DEF HeapInv, Heap
  <1>2. k \in Heap BY Zenon, <1>1 DEF Removes, Heap
  <1>3. SameBlocks(h, k) /\ k.allocated = h.allocated
    BY Zenon, <1>1 DEF Removes, SameBlocks, Heap
  <1>4. \A j \in Bins : k.bins[j] = IF j = i THEN h.bins[i] \ {b} ELSE h.bins[j]
    BY Zenon, <1>1 DEF Removes, Heap
  <1>5. Binned(h) /\ h.bin[b] = i BY Zenon DEF HeapInv, Binned
  <1>6. \A j \in Bins : b \notin k.bins[j] BY SMTT(60), <1>4, <1>5 DEF Binned
  <1>7. Binned(k)
    <2> SUFFICES ASSUME NEW j \in Bins, NEW c \in k.bins[j]
                 PROVE  c \in k.live /\ ~k.allocated[c] /\ k.bin[c] = j
      BY Zenon DEF Binned
    <2>1. c \in h.bins[j] BY Zenon, <1>4
    <2>2. c \in h.live /\ ~h.allocated[c] /\ h.bin[c] = j
      BY Zenon, <1>5, <2>1 DEF Binned
    <2> QED BY Zenon, <1>1, <1>3, <2>2 DEF SameBlocks
  <1> QED BY Zenon, <1>2, <1>3, <1>6, <1>7, SameBlocksInv DEF HeapInv

\* In k block b is in use as well, and the others are what they were.
Adds(h, k, b) ==
  \A c \in BlockIds :
    /\ c \in k.live /\ k.allocated[c] <=>
         c = b \/ (c \in h.live /\ h.allocated[c])
    /\ c \in h.live /\ h.allocated[c] =>
         k.ptr[c] = h.ptr[c] /\ k.size[c] = h.size[c]

\* FindFreeBlock marks b.
Marks(h, k, b) == k = [h EXCEPT !.allocated[b] = TRUE]

LEMMA MarkInv ==
  ASSUME NEW h, HeapInv(h), NEW g \in [DevBases -> Nat], Placed(h, g),
         NEW b \in h.live, \A j \in Bins : b \notin h.bins[j],
         NEW k, Marks(h, k, b)
  PROVE  /\ HeapInv(k) /\ Placed(k, g) /\ ClearStays(h, k) /\ Adds(h, k, b)
         /\ SameBlocks(h, k)
  <1>1. h \in Heap /\ h.live \subseteq BlockIds BY Zenon DEF HeapInv, Heap
  <1>2. k \in Heap BY Zenon, <1>1 DEF Marks, Heap
  <1>3. SameBlocks(h, k) /\ k.bins = h.bins
    BY Zenon, <1>1 DEF Marks, SameBlocks, Heap
  <1>4. \A c \in BlockIds : k.allocated[c] <=> c = b \/ h.allocated[c]
    BY Zenon, <1>1 DEF Marks, Heap
  <1>5. Binned(h) BY Zenon DEF HeapInv
  <1>6. Binned(k)
    <2> SUFFICES ASSUME NEW j \in Bins, NEW c \in k.bins[j]
                 PROVE  c \in k.live /\ ~k.allocated[c] /\ k.bin[c] = j
      BY Zenon DEF Binned
    <2>1. c \in h.live /\ ~h.allocated[c] /\ h.bin[c] = j /\ c # b
      BY SMTT(60), <1>3, <1>5 DEF Binned
    <2> QED BY ZenonT(60), <1>1, <1>3, <1>4, <2>1 DEF SameBlocks
  <1>7. Adds(h, k, b) BY Zenon, <1>1, <1>3, <1>4 DEF Adds, SameBlocks
  <1> QED BY ZenonT(60), <1>2, <1>3, <1>6, <1>7, SameBlocksInv DEF HeapInv

\* FindFreeBlock without a split.
LEMMA TakeWhole ==
  ASSUME NEW h, HeapInv(h), NEW g \in [DevBases -> Nat], Placed(h, g),
         NEW i \in Bins, NEW b \in h.bins[i],
         NEW x, Removes(h, x, b, i), NEW k, Marks(x, k, b)
  PROVE  /\ HeapInv(k) /\ Placed(k, g) /\ ClearStays(h, k) /\ Adds(h, k, b)
         /\ b \in k.live /\ k.ptr[b] = x.ptr[b] /\ k.size[b] = h.size[b]
  <1>1. b \in h.live /\ b \in BlockIds BY Zenon DEF HeapInv, Heap, Binned
  <1>2. /\ HeapInv(x) /\ Placed(x, g) /\ SameBlocks(h, x)
        /\ x.allocated = h.allocated
        /\ \A j \in Bins : b \notin x.bins[j]
    BY ZenonT(60), RemoveInv
  <1>3. b \in x.live /\ x.live = h.live BY Zenon, <1>1, <1>2 DEF SameBlocks
  <1>4. /\ HeapInv(k) /\ Placed(k, g) /\ ClearStays(x, k) /\ Adds(x, k, b)
        /\ SameBlocks(x, k)
    BY Zenon, <1>2, <1>3, MarkInv
  <1>5. ClearStays(h, x)
    BY ZenonT(60), <1>2, SameBlocksInv DEF HeapInv
  <1>6. ClearStays(h, k) BY Zenon, <1>4, <1>5 DEF ClearStays
  <1>7. Adds(h, k, b) BY SMTT(60), <1>2, <1>4 DEF Adds, SameBlocks
  <1>8. b \in k.live /\ k.ptr[b] = x.ptr[b] /\ k.size[b] = h.size[b]
    BY ZenonT(60), <1>1, <1>2, <1>3, <1>4 DEF SameBlocks
  <1> QED BY Zenon, <1>4, <1>6, <1>7, <1>8

\* FindFreeBlock with a split.
LEMMA TakePart ==
  ASSUME NEW h, HeapInv(h), NEW g \in [DevBases -> Nat], Placed(h, g),
         NEW i \in Bins, NEW b \in h.bins[i], NEW a \in BlockIds \ h.live,
         NEW n \in Nat, n > 0, n < h.size[b],
         NEW x, Removes(h, x, b, i), NEW y, Splits(x, y, b, n, i, a),
         NEW k, Marks(y, k, a)
  PROVE  /\ HeapInv(k) /\ Placed(k, g) /\ ClearStays(h, k) /\ Adds(h, k, a)
         /\ a \in k.live /\ k.ptr[a] = y.ptr[a] /\ k.size[a] = n
  <1>1. b \in h.live /\ b \in BlockIds /\ ~h.allocated[b] /\ h.bin[b] = i
    BY Zenon DEF HeapInv, Heap, Binned
  <1>2. /\ HeapInv(x) /\ Placed(x, g) /\ SameBlocks(h, x)
        /\ x.allocated = h.allocated
    BY ZenonT(60), RemoveInv
  <1>3. /\ b \in x.live /\ x.live = h.live /\ a \in BlockIds \ x.live
        /\ ~x.allocated[b] /\ x.bin[b] = i /\ n < x.size[b]
    BY ZenonT(60), <1>1, <1>2 DEF SameBlocks
  <1>4. /\ HeapInv(y) /\ Placed(y, g) /\ Keeps(x, y) /\ ClearStays(x, y)
        /\ a \in y.live /\ y.size[a] = n
        /\ \A j \in Bins : a \notin y.bins[j]
    BY SMTT(60), <1>2, <1>3, SplitInv
  <1>5. /\ HeapInv(k) /\ Placed(k, g) /\ ClearStays(y, k) /\ Adds(y, k, a)
        /\ SameBlocks(y, k)
    BY ZenonT(60), <1>4, MarkInv
  <1>6. ClearStays(h, x)
    BY Zenon, <1>2, SameBlocksInv DEF HeapInv
  <1>7. ClearStays(h, k) BY ZenonT(60), <1>4, <1>5, <1>6 DEF ClearStays
  <1>8. Adds(h, k, a)
    <2> SUFFICES ASSUME NEW c \in BlockIds
                 PROVE  /\ c \in k.live /\ k.allocated[c] <=>
                             c = a \/ (c \in h.live /\ h.allocated[c])
                        /\ c \in h.live /\ h.allocated[c] =>
                             k.ptr[c] = h.ptr[c] /\ k.size[c] = h.size[c]
      BY Zenon DEF Adds
    <2>1. /\ c \in x.live /\ x.allocated[c] <=> c \in h.live /\ h.allocated[c]
          /\ x.ptr[c] = h.ptr[c] /\ x.size[c] = h.size[c]
      BY Zenon, <1>2 DEF SameBlocks
    <2>2. /\ c \in y.live /\ y.allocated[c] <=> c \in x.live /\ x.allocated[c]
          /\ c \in x.live /\ x.allocated[c] =>
               y.ptr[c] = x.ptr[c] /\ y.size[c] = x.size[c]
      BY Zenon, <1>4 DEF Keeps
    <2>3. /\ c \in k.live /\ k.allocated[c] <=>
               c = a \/ (c \in y.live /\ y.allocated[c])
          /\ k.ptr[c] = y.ptr[c] /\ k.size[c] = y.size[c]
      BY Zenon, <1>5 DEF Adds, SameBlocks
    <2> QED BY Zenon, <2>1, <2>2, <2>3
  <1>9. a \in k.live /\ k.ptr[a] = y.ptr[a] /\ k.size[a] = n
    BY Zenon, <1>4, <1>5 DEF SameBlocks
  <1> QED BY ZenonT(60), <1>5, <1>7, <1>8, <1>9

(***************************************************************************)
(* New regions, and regions that are given back.                           *)
(***************************************************************************)

\* AddToBlockBin makes block b of the region of n bytes at p.
Creates(h, k, b, p, n) == k = NewBlock(h, b, p, n)

LEMMA CreateFields ==
  ASSUME NEW h \in Heap, NEW b \in BlockIds, NEW p \in Nat, NEW n \in Nat,
         NEW k, Creates(h, k, b, p, n)
  PROVE  /\ k \in Heap
         /\ k.live = h.live \cup {b}
         /\ k.ptr[b] = p /\ k.size[b] = n
         /\ k.prev[b] = NoBlock /\ k.next[b] = NoBlock /\ ~k.allocated[b]
         /\ \A c \in BlockIds \ {b} :
              /\ k.ptr[c] = h.ptr[c] /\ k.size[c] = h.size[c]
              /\ k.prev[c] = h.prev[c] /\ k.next[c] = h.next[c]
              /\ k.bin[c] = h.bin[c] /\ k.allocated[c] = h.allocated[c]
         /\ \A i \in Bins : \A c \in BlockIds :
              c \in k.bins[i] <=> c \in h.bins[i] \/ (c = b /\ i = k.bin[b])
  <1>1. PICK i \in Bins : i = GetBinIndex(n) BY Zenon, BinIndex
  <1>2. k \in Heap BY ZenonT(60), <1>1 DEF Creates, NewBlock, Heap
  <1>3. k.live = h.live \cup {b} BY Zenon DEF Creates, NewBlock
  <1>4. /\ k.ptr[b] = p /\ k.size[b] = n
        /\ k.prev[b] = NoBlock /\ k.next[b] = NoBlock /\ ~k.allocated[b]
    BY Zenon DEF Creates, NewBlock, Heap
  <1>5. \A c \in BlockIds \ {b} :
          /\ k.ptr[c] = h.ptr[c] /\ k.size[c] = h.size[c]
          /\ k.prev[c] = h.prev[c] /\ k.next[c] = h.next[c]
    BY Zenon DEF Creates, NewBlock, Heap
  <1>6. \A c \in BlockIds \ {b} :
          k.bin[c] = h.bin[c] /\ k.allocated[c] = h.allocated[c]
    BY Zenon DEF Creates, NewBlock, Heap
  <1>7. k.bin[b] = i BY Zenon, <1>1 DEF Creates, NewBlock, Heap
  <1>8. \A j \in Bins : \A c \in BlockIds :
          c \in k.bins[j] <=> c \in h.bins[j] \/ (c = b /\ j = i)
    BY Zenon, <1>1 DEF Creates, NewBlock, Heap
  <1> QED BY ZenonT(60), <1>2, <1>3, <1>4, <1>5, <1>6, <1>7, <1>8

LEMMA CreateInv ==
  ASSUME NEW h, HeapInv(h), NEW g \in [DevBases -> Nat], Placed(h, g),
         NEW b \in BlockIds \ h.live, NEW p \in DevBases, g[p] > 0,
         Clear(h, p, g[p]), NEW k, Creates(h, k, b, p, g[p])
  PROVE  /\ HeapInv(k) /\ Placed(k, g) /\ Keeps(h, k)
         /\ \A q \in DevBases :
              q # p /\ g[q] > 0 /\ Clear(h, q, g[q]) => Clear(k, q, g[q])
  <1>1. /\ h \in Heap /\ h.live \subseteq BlockIds /\ NoBlock \notin BlockIds
        /\ p \in Nat /\ g[p] \in Nat
        /\ \A c \in BlockIds : h.ptr[c] \in Nat /\ h.size[c] \in Nat
    BY Zenon, CachingAssumption DEF HeapInv, Heap
  <1>2. Disjoint(h) /\ Linked(h) /\ Binned(h) BY Zenon DEF HeapInv
  <1>3. k \in Heap /\ k.live = h.live \cup {b} BY SMTT(60), <1>1, CreateFields
  <1>4. /\ k.ptr[b] = p /\ k.size[b] = g[p]
        /\ k.prev[b] = NoBlock /\ k.next[b] = NoBlock /\ ~k.allocated[b]
    BY SMTT(60), <1>1, CreateFields
  <1>5. \A c \in BlockIds \ {b} :
          /\ k.ptr[c] = h.ptr[c] /\ k.size[c] = h.size[c]
          /\ k.prev[c] = h.prev[c] /\ k.next[c] = h.next[c]
          /\ k.bin[c] = h.bin[c] /\ k.allocated[c] = h.allocated[c]
    BY SMTT(60), <1>1, CreateFields
  <1>6. \A i \in Bins : \A c \in BlockIds :
          c \in k.bins[i] <=> c \in h.bins[i] \/ (c = b /\ i = k.bin[b])
    BY SMTT(60), <1>1, CreateFields
  <1>7. Disjoint(k)
    <2> SUFFICES ASSUME NEW c \in k.live, NEW d \in k.live, c # d
                 PROVE  Apart(k.ptr[c], k.size[c], k.ptr[d], k.size[d])
      BY Zenon DEF Disjoint
    <2>1. c \in h.live \cup {b} /\ d \in h.live \cup {b} BY Zenon, <1>3
    <2>2. /\ c \in h.live /\ d \in h.live =>
               Apart(h.ptr[c], h.size[c], h.ptr[d], h.size[d])
          /\ c \in h.live => Apart(h.ptr[c], h.size[c], p, g[p])
          /\ d \in h.live => Apart(h.ptr[d], h.size[d], p, g[p])
      BY ZenonT(60), <1>2 DEF Disjoint, Clear
    <2> QED BY ZenonT(60), <1>1, <1>4, <1>5, <2>1, <2>2 DEF Apart
  <1>8. Linked(k)
    <2> SUFFICES ASSUME NEW c \in k.live
                 PROVE  /\ k.size[c] > 0
                        /\ k.next[c] # NoBlock =>
                             /\ k.next[c] \in k.live /\ k.prev[k.next[c]] = c
                             /\ k.ptr[k.next[c]] = k.ptr[c] + k.size[c]
                             /\ k.bin[k.next[c]] = k.bin[c]
                        /\ k.prev[c] # NoBlock =>
                             k.prev[c] \in k.live /\ k.next[k.prev[c]] = c
      BY Zenon DEF Linked
    <2>1. CASE c = b
      BY Zenon, <2>1, <1>4
    <2>2. CASE c # b
      <3>1. /\ c \in h.live /\ c \in BlockIds \ {b}
            /\ \A d \in h.live : d \in BlockIds \ {b} /\ d \in k.live
        BY Zenon, <2>2, <1>1, <1>3
      <3>2. /\ h.size[c] > 0
            /\ h.next[c] # NoBlock =>
                 /\ h.next[c] \in h.live /\ h.prev[h.next[c]] = c
                 /\ h.ptr[h.next[c]] = h.ptr[c] + h.size[c]
                 /\ h.bin[h.next[c]] = h.bin[c]
            /\ h.prev[c] # NoBlock =>
                 h.prev[c] \in h.live /\ h.next[h.prev[c]] = c
        BY Zenon, <3>1, <1>2 DEF Linked
      <3> QED BY Zenon, <3>1, <3>2, <1>5
    <2> QED BY Zenon, <2>1, <2>2
  <1>9. Binned(k)
    <2> SUFFICES ASSUME NEW j \in Bins, NEW c \in k.bins[j]
                 PROVE  c \in k.live /\ ~k.allocated[c] /\ k.bin[c] = j
      BY Zenon DEF Binned
    <2>1. c \in BlockIds BY Zenon, <1>3 DEF Heap
    <2>2. c = b \/ c \in h.bins[j] BY ZenonT(60), <1>6, <2>1
    <2>3. CASE c = b
      <3>1. b \notin h.bins[j] BY ZenonT(60), <1>2 DEF Binned
      <3> QED BY ZenonT(60), <1>3, <1>4, <1>6, <2>1, <2>3, <3>1
    <2>4. CASE c # b
      <3>1. c \in h.live /\ ~h.allocated[c] /\ h.bin[c] = j
        BY ZenonT(60), <1>2, <2>2, <2>4 DEF Binned
      <3> QED BY ZenonT(60), <1>3, <1>5, <2>1, <2>4, <3>1
    <2> QED BY Zenon, <2>3, <2>4
  <1>10. Placed(k, g)
    <2> SUFFICES ASSUME NEW c \in k.live
                 PROVE  \E r \in DevBases : InRegion(k, g, c, r)
      BY ZenonT(60) DEF Placed
    <2>1. CASE c = b BY SMTT(60), <1>1, <1>4, <2>1 DEF InRegion
    <2>2. CASE c # b
      <3>1. c \in h.live /\ c \in BlockIds \ {b} BY ZenonT(60), <1>1, <1>3, <2>2
      <3>2. PICK r \in DevBases : InRegion(h, g, c, r) BY Zenon, <3>1 DEF Placed
      <3> QED BY ZenonT(60), <1>5, <3>1, <3>2 DEF InRegion
    <2> QED BY ZenonT(60), <2>1, <2>2
  <1>11. Keeps(h, k) BY ZenonT(60), <1>1, <1>3, <1>4, <1>5 DEF Keeps
  <1>12. ASSUME NEW q \in DevBases, q # p, g[q] > 0, Clear(h, q, g[q])
         PROVE  Clear(k, q, g[q])
    <2> SUFFICES ASSUME NEW c \in k.live
                 PROVE  Apart(k.ptr[c], k.size[c], q, g[q])
      BY Zenon DEF Clear
    <2>1. Apart(p, g[p], q, g[q]) BY ZenonT(60), <1>12 DEF Placed, RegionsApart
    <2>2. c \in h.live => Apart(h.ptr[c], h.size[c], q, g[q])
      BY Zenon, <1>12 DEF Clear
    <2> QED BY ZenonT(60), <1>1, <1>3, <1>4, <1>5, <2>1, <2>2
  <1> QED BY ZenonT(60), <1>3, <1>7, <1>8, <1>9, <1>10, <1>11, <1>12 DEF HeapInv

\* FreeCachedBlocks: the blocks of S are deleted and their memory given back.
Drops(h, k, S) == k = DropCached(h, S)
GivesBack(h, g, f, S) ==
  f = [r \in DevBases |-> IF \E b \in S : h.ptr[b] = r THEN 0 ELSE g[r]]

LEMMA DropFields ==
  ASSUME NEW h \in Heap, NEW S \in SUBSET BlockIds, NEW k, Drops(h, k, S)
  PROVE  /\ k \in Heap
         /\ k.live = h.live \ S
         /\ \A i \in Bins : \A c \in BlockIds :
              c \in k.bins[i] <=> c \in h.bins[i] /\ c \notin S
  <1>1. 1 \in Bins BY SMTT(60), CachingAssumption DEF Bins, kNumBins
  <1>2. k \in Heap BY Zenon, <1>1 DEF Drops, DropCached, Delete, Heap
  <1>3. k.live = h.live \ S BY Zenon DEF Drops, DropCached, Delete, Heap
  <1>4. \A i \in Bins : \A c \in BlockIds :
          c \in k.bins[i] <=> c \in h.bins[i] /\ c \notin S
    BY Zenon DEF Drops, DropCached, Delete, Heap
  <1> QED BY ZenonT(60), <1>2, <1>3, <1>4

LEMMA DropSame ==
  ASSUME NEW h \in Heap, NEW S \in SUBSET BlockIds, NEW k, Drops(h, k, S)
  PROVE  \A c \in BlockIds \ S :
           /\ k.ptr[c] = h.ptr[c] /\ k.size[c] = h.size[c]
           /\ k.prev[c] = h.prev[c] /\ k.next[c] = h.next[c]
           /\ k.bin[c] = h.bin[c]
           /\ k.allocated[c] <=> h.allocated[c]
  <1>1. \A c \in BlockIds \ S :
          /\ k.ptr[c] = h.ptr[c] /\ k.size[c] = h.size[c]
          /\ k.prev[c] = h.prev[c] /\ k.next[c] = h.next[c]
          /\ k.bin[c] = h.bin[c]
    BY Zenon DEF Drops, DropCached, Delete, Heap
  <1>2. \A c \in BlockIds \ S : k.allocated[c] <=> h.allocated[c]
    BY Zenon DEF Drops, DropCached, Delete, Heap
  <1> QED BY Zenon, <1>1, <1>2

LEMMA DropInv ==
  ASSUME NEW h, HeapInv(h), NEW g \in [DevBases -> Nat], Placed(h, g),
         NEW S, S \subseteq Unsplit(h), NEW k, Drops(h, k, S),
         NEW f, GivesBack(h, g, f, S)
  PROVE  /\ HeapInv(k) /\ Placed(k, f) /\ Keeps(h, k) /\ ClearStays(h, k)
         /\ f \in [DevBases -> Nat]
         /\ \A q \in DevBases : g[q] > 0 /\ Clear(h, q, g[q]) => f[q] = g[q]
  <1>1. /\ h \in Heap /\ h.live \subseteq BlockIds /\ NoBlock \notin BlockIds
        /\ \A c \in BlockIds : h.ptr[c] \in Nat /\ h.size[c] \in Nat
        /\ DevBases \subseteq Nat /\ \A r \in DevBases : g[r] \in Nat
    BY Zenon, CachingAssumption DEF HeapInv, Heap
  <1>2. Disjoint(h) /\ Linked(h) /\ Binned(h) BY Zenon DEF HeapInv
  <1>3. /\ S \subseteq h.live /\ S \subseteq BlockIds
        /\ \A c \in S : h.prev[c] = NoBlock /\ h.next[c] = NoBlock
    BY ZenonT(60), <1>1 DEF Unsplit, IsSplit
  <1>4. \A c \in S : ~h.allocated[c] BY ZenonT(60), <1>2 DEF Unsplit, Binned
  <1>5. k \in Heap /\ k.live = h.live \ S BY ZenonT(60), <1>1, <1>3, DropFields
  <1>6. \A c \in BlockIds \ S :
          /\ k.ptr[c] = h.ptr[c] /\ k.size[c] = h.size[c]
          /\ k.prev[c] = h.prev[c] /\ k.next[c] = h.next[c]
          /\ k.bin[c] = h.bin[c]
          /\ k.allocated[c] <=> h.allocated[c]
    BY ZenonT(60), <1>1, <1>3, DropSame
  <1>7. \A i \in Bins : \A c \in BlockIds :
          c \in k.bins[i] <=> c \in h.bins[i] /\ c \notin S
    BY Zenon, <1>1, <1>3, DropFields
  <1>8. \A r \in DevBases :
          f[r] = IF \E b \in S : h.ptr[b] = r THEN 0 ELSE g[r]
    BY Zenon DEF GivesBack
  <1>9. f \in [DevBases -> Nat] BY Zenon, <1>1 DEF GivesBack
  <1>10. Disjoint(k) BY ZenonT(60), <1>1, <1>2, <1>5, <1>6 DEF Disjoint
  <1>11. Linked(k)
    <2> SUFFICES ASSUME NEW c \in k.live
                 PROVE  /\ k.size[c] > 0
                        /\ k.next[c] # NoBlock =>
                             /\ k.next[c] \in k.live
                             /\ k.prev[k.next[c]] = c
                             /\ k.ptr[k.next[c]] = k.ptr[c] + k.size[c]
                             /\ k.bin[k.next[c]] = k.bin[c]
                        /\ k.prev[c] # NoBlock =>
                             k.prev[c] \in k.live /\ k.next[k.prev[c]] = c
      BY Zenon DEF Linked
    <2>1. c \in h.live \ S /\ c \in BlockIds /\ c # NoBlock BY Zenon, <1>1, <1>5
    <2>2. h.next[c] # NoBlock => h.next[c] \in h.live \ S
      BY ZenonT(60), <1>2, <1>3, <2>1 DEF Linked
    <2>3. h.prev[c] # NoBlock => h.prev[c] \in h.live \ S
      BY ZenonT(60), <1>2, <1>3, <2>1 DEF Linked
    <2>4. k.size[c] > 0 BY Zenon, <1>2, <1>6, <2>1 DEF Linked
    <2>5. ASSUME k.next[c] # NoBlock
          PROVE  /\ k.next[c] \in k.live
                 /\ k.prev[k.next[c]] = c
                 /\ k.ptr[k.next[c]] = k.ptr[c] + k.size[c]
                 /\ k.bin[k.next[c]] = k.bin[c]
      <3>1. /\ h.next[c] \in h.live \ S /\ h.next[c] \in BlockIds
            /\ k.next[c] = h.next[c]
        BY ZenonT(60), <1>1, <1>6, <2>1, <2>2, <2>5
      <3>2. /\ h.prev[h.next[c]] = c
            /\ h.ptr[h.next[c]] = h.ptr[c] + h.size[c]
            /\ h.bin[h.next[c]] = h.bin[c]
        BY ZenonT(60), <1>2, <1>6, <2>1, <2>5 DEF Linked
      <3> QED BY ZenonT(60), <1>5, <1>6, <2>1, <3>1, <3>2
    <2>6. ASSUME k.prev[c] # NoBlock
          PROVE  k.prev[c] \in k.live /\ k.next[k.prev[c]] = c
      <3>1. /\ h.prev[c] \in h.live \ S /\ h.prev[c] \in BlockIds
            /\ k.prev[c] = h.prev[c]
        BY ZenonT(60), <1>1, <1>6, <2>1, <2>3, <2>6
      <3>2. h.next[h.prev[c]] = c BY ZenonT(60), <1>2, <1>6, <2>1, <2>6 DEF Linked
      <3> QED BY ZenonT(60), <1>5, <1>6, <2>1, <3>1, <3>2
    <2> QED BY Zenon, <2>4, <2>5, <2>6
  <1>12. Binned(k)
    <2> SUFFICES ASSUME NEW j \in Bins, NEW c \in k.bins[j]
                 PROVE  c \in k.live /\ ~k.allocated[c] /\ k.bin[c] = j
      BY Zenon DEF Binned
    <2>1. c \in BlockIds BY ZenonT(60), <1>5 DEF Heap
    <2>2. c \in h.live /\ ~h.allocated[c] /\ h.bin[c] = j /\ c \notin S
      BY Zenon, <1>2, <1>7, <2>1 DEF Binned
    <2> QED BY ZenonT(60), <1>5, <1>6, <2>1, <2>2
  <1>13. ASSUME NEW b \in S
         PROVE  h.ptr[b] \in DevBases /\ h.size[b] = g[h.ptr[b]]
    <2>1. PICK r \in DevBases : InRegion(h, g, b, r) BY Zenon, <1>3 DEF Placed
    <2> QED BY SMTT(60), <1>1, <1>3, <2>1 DEF InRegion
  <1>14. ASSUME NEW c \in k.live, NEW r \in DevBases, InRegion(h, g, c, r)
         PROVE  f[r] = g[r]
    <2> SUFFICES ASSUME NEW b \in S, h.ptr[b] = r PROVE FALSE
      BY Zenon, <1>8
    <2>1. c \in h.live /\ c # b /\ b \in h.live /\ h.size[c] > 0
      BY Zenon, <1>2, <1>3, <1>5 DEF Linked
    <2>2. Apart(h.ptr[b], h.size[b], h.ptr[c], h.size[c])
      BY Zenon, <1>2, <2>1 DEF Disjoint
    <2>3. h.size[b] = g[r] BY Zenon, <1>13
    <2>4. r <= h.ptr[c] /\ h.ptr[c] + h.size[c] <= r + g[r]
      BY Zenon, <1>14 DEF InRegion
    <2> QED BY SMTT(60), <1>1, <2>1, <2>2, <2>3, <2>4 DEF Apart
  <1>15. Placed(k, f)
    <2>1. RegionsApart(f)
      BY SMTT(60), <1>1, <1>8 DEF Placed, RegionsApart
    <2>2. ASSUME NEW c \in k.live
          PROVE  \E r \in DevBases : InRegion(k, f, c, r)
      <3>1. c \in h.live /\ c \in BlockIds \ S BY Zenon, <1>1, <1>5
      <3>2. PICK r \in DevBases : InRegion(h, g, c, r) BY ZenonT(60), <3>1 DEF Placed
      <3>3. f[r] = g[r] BY Zenon, <1>14, <3>2
      <3> QED BY ZenonT(60), <1>6, <3>1, <3>2, <3>3 DEF InRegion
    <2> QED BY ZenonT(60), <2>1, <2>2 DEF Placed
  <1>16. Keeps(h, k) BY ZenonT(60), <1>1, <1>3, <1>4, <1>5, <1>6 DEF Keeps
  <1>17. ClearStays(h, k) BY ZenonT(60), <1>1, <1>5, <1>6 DEF ClearStays, Clear
  <1>18. ASSUME NEW q \in DevBases, g[q] > 0, Clear(h, q, g[q])
         PROVE  f[q] = g[q]
    <2> SUFFICES ASSUME NEW b \in S, h.ptr[b] = q PROVE FALSE
      BY Zenon, <1>8
    <2>1. Apart(h.ptr[b], h.size[b], q, g[q]) BY ZenonT(60), <1>3, <1>18 DEF Clear
    <2>2. h.size[b] = g[q] BY Zenon, <1>13
    <2> QED BY SMTT(60), <1>1, <1>18, <2>1, <2>2 DEF Apart
  <1> QED
    BY ZenonT(60), <1>5, <1>9, <1>10, <1>11, <1>12, <1>15, <1>16, <1>17, <1>18 DEF HeapInv

=============================================================================
