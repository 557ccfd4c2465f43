-------------------------- MODULE AllocatorProofs ---------------------------
(***************************************************************************)
(* Proofs about Allocator, for every set of sizes, every size of the first *)
(* block and every number of blocks: the heap stays consistent until mmap  *)
(* fails, and owners keep their entries.                                   *)
(***************************************************************************)
EXTENDS Allocator, SeqFacts, FiniteSetTheorems

(* align_to rounds up: an entry covers its header and what was asked for. *)
LEMMA ExtentProps ==
  ASSUME NEW n \in Nat
  PROVE  Extent(n) \in Nat /\ Extent(n) >= Header + n /\ Extent(n) > 0
  BY DEF Extent, align_to, Header

(* The loop that doubles heap_block_size ends at a size that fits. *)
LEMMA GrownProps ==
  ASSUME NEW x \in Nat, CanGrow(x)
  PROVE  Grown(x) \in BlockSizes /\ Grown(x) \in Nat /\ Grown(x) >= x /\ Grown(x) >= bsize
  <1> DEFINE big == {s \in BlockSizes : s >= bsize /\ s >= x}
  <1>1. BlockSizes \subseteq Nat
    BY SizesAssumption
  <1>2. big \in SUBSET Nat /\ big # {}
    BY <1>1 DEF CanGrow
  <1>3. \E m \in big : \A r \in big : m <= r
    <2> HIDE DEF big
    <2> QED BY <1>2, LeastNat
  <1>4. Grown(x) \in big
    BY <1>3 DEF Grown
  <1> QED BY <1>4, <1>1

(* The walk of the free list stops at an entry that is large enough. *)
LEMMA FirstFitProps ==
  ASSUME TypeOK, NEW n \in Nat, Fits(n) # {}
  PROVE  FirstFit(n) \in 1..Len(freeList) /\ freeList[FirstFit(n)].size >= n
  <1>1. Fits(n) \in SUBSET Nat
    BY DEF Fits, TypeOK
  <1>2. \E m \in Fits(n) : \A k \in Fits(n) : m <= k
    BY <1>1, LeastNat
  <1>3. FirstFit(n) \in Fits(n)
    BY <1>2 DEF FirstFit
  <1> QED BY <1>3 DEF Fits

-----------------------------------------------------------------------------
(* What malloc leaves is of the right type, also when mmap has failed. *)
LEMMA MallocTypes ==
  ASSUME TypeOK, NEW n \in Nat, NEW o \in malloc(n)
  PROVE  /\ o.freeList \in Seq(Entry) /\ o.mapped \in Seq(Nat)
         /\ o.used \in Nat /\ o.bsize \in Nat
         /\ o.crash \in BOOLEAN /\ o.fail \in BOOLEAN
         /\ Returned(o) \in SUBSET Entry
         /\ Returned(o) = Null \/ Returned(o) = o.ret
         /\ ToSet(o.freeList) \subseteq ToSet(freeList)
  <1>0. Extent(n) \in Nat /\ Extent(n) > 0
    BY ExtentProps DEF Header
  <1>1. CASE n = 0
    <2>1. o = Outcome(Null, freeList, mapped, used, bsize)
      BY <1>1 DEF malloc
    <2> QED BY <2>1 DEF Outcome, TypeOK, Returned, Null
  <1>2. CASE n # 0 /\ Fits(n) # {}
    <2> DEFINE k == FirstFit(n)
    <2>1. o = Outcome({freeList[k]}, RemoveAt(freeList, k), mapped, used, bsize)
      BY <1>2 DEF malloc, TakeFree
    <2>2. k \in 1..Len(freeList)
      BY <1>2, FirstFitProps
    <2>3. freeList \in Seq(Entry)
      BY DEF TypeOK
    <2> HIDE DEF k
    <2>4. /\ RemoveAt(freeList, k) \in Seq(Entry) /\ Len(RemoveAt(freeList, k)) = Len(freeList) - 1
          /\ \A j \in 1..Len(freeList)-1 :
               RemoveAt(freeList, k)[j] = IF j < k THEN freeList[j] ELSE freeList[j+1]
      BY <2>2, <2>3, RemoveAtProps
    <2>5. ToSet(RemoveAt(freeList, k)) \subseteq ToSet(freeList)
      <3> DEFINE r == RemoveAt(freeList, k)
      <3>1. DOMAIN r = 1..Len(freeList)-1 /\ DOMAIN freeList = 1..Len(freeList)
        BY <2>3, <2>4
      <3> HIDE DEF r
      <3>2. \A j \in DOMAIN r : \E m \in DOMAIN freeList : r[j] = freeList[m]
        BY <2>2, <2>3, <2>4, <3>1 DEF r
      <3> QED BY <3>2 DEF ToSet, r
    <2>6. freeList[k] \in Entry
      BY <2>2, <2>3
    <2> QED BY <2>1, <2>4, <2>5, <2>6 DEF Outcome, TypeOK, Returned, Null
  <1>3. CASE n # 0 /\ Fits(n) = {} /\ used + Extent(n) <= bsize
    <2>1. o = Bump(n)
      BY <1>3 DEF malloc
    <2>2. /\ o.ret = {[blk |-> Len(mapped), off |-> used, size |-> n]} /\ o.freeList = freeList
          /\ o.mapped = mapped /\ o.used = used + Extent(n) /\ o.bsize = bsize
          /\ o.crash = (mapped = <<>>) /\ o.fail = FALSE
      BY <2>1 DEF Bump, Outcome
    <2>3. mapped # <<>> => Len(mapped) \in Nat \ {0}
      BY DEF TypeOK
    <2>4. ASSUME mapped # <<>> PROVE o.ret \in SUBSET Entry
      BY <2>2, <2>3, <2>4 DEF Entry, TypeOK
    <2>6. used + Extent(n) \in Nat
      BY <1>0 DEF TypeOK
    <2> QED BY <2>2, <2>4, <2>6 DEF TypeOK, Returned, Null
  <1>4. CASE n # 0 /\ Fits(n) = {} /\ ~(used + Extent(n) <= bsize) /\ CanGrow(Extent(n))
    <2>1. o \in {MmapFailed(n), MapBlock(n)}
      BY <1>4 DEF malloc
    <2>2. Grown(Extent(n)) \in Nat
      BY <1>0, <1>4, GrownProps
    <2>3. CASE o = MmapFailed(n)
      BY <2>2, <2>3 DEF MmapFailed, Outcome, TypeOK, Returned, Null
    <2>4. CASE o = MapBlock(n)
      <3> DEFINE b == Grown(Extent(n))
      <3>1. /\ o.ret = {[blk |-> Len(mapped) + 1, off |-> 0, size |-> n]} /\ o.freeList = freeList
            /\ o.mapped = Append(mapped, b) /\ o.used = Extent(n) /\ o.bsize = b
            /\ o.crash = FALSE /\ o.fail = FALSE
        BY <2>4 DEF MapBlock, Outcome
      <3>2. Len(mapped) + 1 \in Nat \ {0}
        BY DEF TypeOK
      <3>3. o.ret \in SUBSET Entry
        BY <3>1, <3>2 DEF Entry
      <3>4. Append(mapped, b) \in Seq(Nat)
        BY <2>2 DEF TypeOK
      <3> QED BY <3>1, <3>3, <3>4, <1>0, <2>2 DEF TypeOK, Returned, Null
    <2> QED BY <2>1, <2>3, <2>4
  <1>5. CASE n # 0 /\ Fits(n) = {} /\ ~(used + Extent(n) <= bsize) /\ ~CanGrow(Extent(n))
    BY <1>5 DEF malloc
  <1> QED BY <1>1, <1>2, <1>3, <1>4, <1>5

-----------------------------------------------------------------------------
(* What callers own and what is free are typed, and so is what they cover. *)
LEMMA EntriesTyped ==
  ASSUME TypeOK
  PROVE  /\ Entries \in SUBSET Entry
         /\ \A e \in Entries : /\ e.blk \in Nat \ {0} /\ e.off \in Nat /\ e.size \in Nat
                               /\ Extent(e.size) \in Nat /\ Extent(e.size) > 0
  <1>1. ToSet(freeList) \in SUBSET Entry
    BY DEF TypeOK, ToSet
  <1>2. Entries \in SUBSET Entry
    BY <1>1 DEF TypeOK, Entries
  <1>3. \A e \in Entry : e.blk \in Nat \ {0} /\ e.off \in Nat /\ e.size \in Nat
    BY DEF Entry
  <1> QED BY <1>2, <1>3, ExtentProps

(***************************************************************************)
(* How malloc may end on a consistent heap: it fails, returns an entry of  *)
(* the free list (or nothing, for size 0), or carves an entry at the end   *)
(* of the current block or the start of a new one.  In all cases it        *)
(* returns nothing that is owned, and takes off the list just what it      *)
(* returns.                                                                *)
(***************************************************************************)
Reuses(o) ==
  /\ o.ret \subseteq ToSet(freeList)
  /\ o.mapped = mapped /\ o.used = used /\ o.bsize = bsize

CarvesHere(o, n) ==
  /\ o.ret = {[blk |-> Len(mapped), off |-> used, size |-> n]}
  /\ mapped # <<>> /\ used + Extent(n) <= bsize
  /\ o.mapped = mapped /\ o.used = used + Extent(n) /\ o.bsize = bsize

CarvesNew(o, n) ==
  /\ o.ret = {[blk |-> Len(mapped) + 1, off |-> 0, size |-> n]}
  /\ o.mapped = Append(mapped, o.bsize) /\ o.used = Extent(n)
  /\ o.bsize \in Nat /\ Extent(n) <= o.bsize

LEMMA MallocOutcomes ==
  ASSUME TypeOK, Consistent, NEW n \in Nat, NEW o \in malloc(n)
  PROVE  /\ o.crash = FALSE
         /\ \/ o.fail /\ o.ret = {} /\ o.freeList = freeList
            \/ ~o.fail /\ Reuses(o) /\ ToSet(o.freeList) = ToSet(freeList) \ o.ret
            \/ ~o.fail /\ (CarvesHere(o, n) \/ CarvesNew(o, n)) /\ o.freeList = freeList
         /\ \A j, k \in 1..Len(o.freeList) : o.freeList[j] = o.freeList[k] => j = k
  <1> USE DEF Header
  <1>0. Extent(n) \in Nat /\ Extent(n) > 0
    BY ExtentProps
  <1>a. /\ freeList \in Seq(Entry)
        /\ \A j, k \in 1..Len(freeList) : freeList[j] = freeList[k] => j = k
    BY DEF TypeOK, Consistent, FreeListSound
  <1>1. CASE n = 0
    <2>1. o = Outcome(Null, freeList, mapped, used, bsize)
      BY <1>1 DEF malloc
    <2> QED BY <2>1, <1>a DEF Outcome, Reuses, Null
  <1>2. CASE n # 0 /\ Fits(n) # {}
    <2> DEFINE k == FirstFit(n)
    <2>1. o = Outcome({freeList[k]}, RemoveAt(freeList, k), mapped, used, bsize)
      BY <1>2 DEF malloc, TakeFree
    <2>2. k \in 1..Len(freeList)
      BY <1>2, FirstFitProps
    <2> HIDE DEF k
    <2>3. /\ o.ret = {freeList[k]} /\ o.freeList = RemoveAt(freeList, k) /\ ~o.fail /\ o.crash = FALSE
          /\ o.mapped = mapped /\ o.used = used /\ o.bsize = bsize
      BY <2>1 DEF Outcome
    <2>4. freeList[k] \in ToSet(freeList)
      BY <1>a, <2>2 DEF ToSet
    <2>5. /\ ToSet(RemoveAt(freeList, k)) = ToSet(freeList) \ {freeList[k]}
          /\ \A j, m \in 1..Len(RemoveAt(freeList, k)) :
               RemoveAt(freeList, k)[j] = RemoveAt(freeList, k)[m] => j = m
      BY <1>a, <2>2, RemoveAtDistinct
    <2> QED BY <2>3, <2>4, <2>5 DEF Reuses
  <1>3. CASE n # 0 /\ Fits(n) = {} /\ used + Extent(n) <= bsize
    <2>1. o = Bump(n)
      BY <1>3 DEF malloc
    <2>2. /\ o.ret = {[blk |-> Len(mapped), off |-> used, size |-> n]} /\ o.freeList = freeList
          /\ o.mapped = mapped /\ o.used = used + Extent(n) /\ o.bsize = bsize
          /\ o.crash = (mapped = <<>>) /\ o.fail = FALSE
      BY <2>1 DEF Bump, Outcome
    <2>3. mapped # <<>>
      BY <1>0, <1>3 DEF Consistent, BlockAccounted, TypeOK
    <2> QED BY <2>2, <2>3, <1>3, <1>a DEF CarvesHere
  <1>4. CASE n # 0 /\ Fits(n) = {} /\ ~(used + Extent(n) <= bsize) /\ CanGrow(Extent(n))
    <2>1. o \in {MmapFailed(n), MapBlock(n)}
      BY <1>4 DEF malloc
    <2>2. Grown(Extent(n)) \in Nat /\ Extent(n) <= Grown(Extent(n))
      BY <1>0, <1>4, GrownProps
    <2>3. CASE o = MmapFailed(n)
      BY <2>3, <1>a DEF MmapFailed, Outcome, Null
    <2>4. CASE o = MapBlock(n)
      <3>1. /\ o.ret = {[blk |-> Len(mapped) + 1, off |-> 0, size |-> n]} /\ o.freeList = freeList
            /\ o.mapped = Append(mapped, o.bsize) /\ o.used = Extent(n)
            /\ o.bsize = Grown(Extent(n)) /\ o.crash = FALSE /\ o.fail = FALSE
        BY <2>4 DEF MapBlock, Outcome
      <3> QED BY <3>1, <2>2, <1>a DEF CarvesNew
    <2> QED BY <2>1, <2>3, <2>4
  <1>5. CASE n # 0 /\ Fits(n) = {} /\ ~(used + Extent(n) <= bsize) /\ ~CanGrow(Extent(n))
    BY <1>5 DEF malloc
  <1> QED BY <1>1, <1>2, <1>3, <1>4, <1>5

(* What malloc returns is not owned by anybody. *)
LEMMA ReturnedIsNotOwned ==
  ASSUME TypeOK, Consistent, NEW n \in Nat, NEW o \in malloc(n)
  PROVE  /\ o.ret \cap live = {} /\ o.ret \cap ToSet(o.freeList) = {}
         /\ ToSet(o.freeList) = ToSet(freeList) \ o.ret
         /\ \A e \in o.ret : e \in ToSet(freeList) \/ \A f \in Entries : Disjoint(e, f)
  <1>1. live \cap ToSet(freeList) = {}
    BY DEF Consistent, FreeListSound
  <1>2. CASE o.fail /\ o.ret = {} /\ o.freeList = freeList
    BY <1>2
  <1>3. CASE Reuses(o) /\ ToSet(o.freeList) = ToSet(freeList) \ o.ret
    BY <1>1, <1>3 DEF Reuses
  <1>4. CASE (CarvesHere(o, n) \/ CarvesNew(o, n)) /\ o.freeList = freeList
    <2>1. PICK e : o.ret = {e} /\ e.blk \in Nat /\ e.off \in Nat
                   /\ ((e.blk = Len(mapped) /\ e.off = used) \/ e.blk = Len(mapped) + 1)
      <3> DEFINE here == [blk |-> Len(mapped), off |-> used, size |-> n]
                 new == [blk |-> Len(mapped) + 1, off |-> 0, size |-> n]
      <3>1. Len(mapped) \in Nat /\ used \in Nat
        BY DEF TypeOK
      <3>2. CASE CarvesHere(o, n)
        <4>1. o.ret = {here} /\ here.blk = Len(mapped) /\ here.off = used
          BY <3>2 DEF CarvesHere
        <4> HIDE DEF here
        <4> QED BY <4>1, <3>1
      <3>3. CASE CarvesNew(o, n)
        <4>1. o.ret = {new} /\ new.blk = Len(mapped) + 1 /\ new.off = 0
          BY <3>3 DEF CarvesNew
        <4> HIDE DEF new
        <4> QED BY <4>1, <3>1
      <3> QED BY <1>4, <3>2, <3>3
    <2>2. Len(mapped) \in Nat
      BY DEF TypeOK
    <2>3. \A f \in Entries : f.blk \in 1..Len(mapped)
                             /\ (f.blk = Len(mapped) => f.off + Extent(f.size) <= used)
      BY DEF Consistent, InsideBlock
    <2>4. \A f \in Entries : Disjoint(e, f) /\ f # e
      BY <2>1, <2>2, <2>3, EntriesTyped DEF Disjoint, TypeOK
    <2> QED BY <2>1, <2>4, <1>4 DEF Entries
  <1> QED BY <1>2, <1>3, <1>4, MallocOutcomes

(* An entry that malloc returns takes no byte of another one, stays in its *)
(* block and leaves no gap.                                                *)
LEMMA MallocKeepsLayout ==
  ASSUME TypeOK, Consistent, NEW n \in Nat, NEW o \in malloc(n), ~o.fail,
         Entries' = Entries \cup o.ret,
         mapped' = o.mapped, used' = o.used, bsize' = o.bsize
  PROVE  (NoOverlap /\ InsideBlock /\ BlockAccounted /\ NothingLost)'
  <1>0. Extent(n) \in Nat /\ Extent(n) > 0
    BY ExtentProps DEF Header
  <1>a. mapped \in Seq(Nat) /\ Len(mapped) \in Nat /\ used \in Nat /\ bsize \in Nat
    BY DEF TypeOK
  <1>1. CASE Reuses(o)
    <2>1. Entries' = Entries /\ mapped' = mapped /\ used' = used /\ bsize' = bsize
      BY <1>1 DEF Reuses, Entries
    <2> QED BY <2>1 DEF Consistent, NoOverlap, InsideBlock, BlockAccounted, NothingLost, Current
  <1>2. CASE CarvesHere(o, n)
    <2> DEFINE e == [blk |-> Len(mapped), off |-> used, size |-> n]
    <2>1. /\ Entries' = Entries \cup {e} /\ mapped' = mapped /\ bsize' = bsize
          /\ used' = used + Extent(n) /\ used + Extent(n) <= bsize /\ mapped # <<>>
      BY <1>2 DEF CarvesHere
    <2>2. e.blk = Len(mapped) /\ e.off = used /\ e.size = n
      OBVIOUS
    <2>3. Len(mapped) \in 1..Len(mapped) /\ mapped[Len(mapped)] = bsize
      BY <2>1, <1>a DEF Consistent, BlockAccounted
    <2> HIDE DEF e
    <2>4. \A f \in Entries : f.blk = Len(mapped) => f.off + Extent(f.size) <= used
      BY DEF Consistent, InsideBlock
    <2>5. NoOverlap'
      <3>1. \A f \in Entries : Disjoint(e, f) /\ Disjoint(f, e)
        BY <2>2, <2>4, EntriesTyped, <1>a DEF Disjoint
      <3> QED BY <3>1, <2>1 DEF Consistent, NoOverlap
    <2>6. InsideBlock'
      BY <2>1, <2>2, <2>3, <1>0, <1>a, EntriesTyped DEF Consistent, InsideBlock
    <2>7. BlockAccounted'
      BY <2>1 DEF Consistent, BlockAccounted
    <2>8. NothingLost'
      <3>1. Current' = Current \cup {e}
        BY <2>1, <2>2 DEF Current
      <3>2. ASSUME NEW at \in {0} \cup {f.off + Extent(f.size) : f \in Current}
            PROVE  at = used' \/ \E f \in Current' : f.off = at
        <4>1. at = used \/ \E f \in Current : f.off = at
          BY <3>2 DEF Consistent, NothingLost
        <4> QED BY <4>1, <3>1, <2>2
      <3>3. e.off + Extent(e.size) = used'
        BY <2>1, <2>2
      <3> QED BY <3>1, <3>2, <3>3 DEF NothingLost
    <2> QED BY <2>5, <2>6, <2>7, <2>8
  <1>3. CASE CarvesNew(o, n)
    <2> DEFINE e == [blk |-> Len(mapped) + 1, off |-> 0, size |-> n]
    <2>1. /\ Entries' = Entries \cup {e} /\ mapped' = Append(mapped, bsize')
          /\ used' = Extent(n) /\ bsize' \in Nat /\ Extent(n) <= bsize'
      BY <1>3 DEF CarvesNew
    <2>2. e.blk = Len(mapped) + 1 /\ e.off = 0 /\ e.size = n
      OBVIOUS
    <2>3. /\ Len(mapped') = Len(mapped) + 1 /\ mapped'[Len(mapped) + 1] = bsize'
          /\ \A k \in 1..Len(mapped) : mapped'[k] = mapped[k]
          /\ mapped' # <<>>
      BY <2>1, <1>a
    <2> HIDE DEF e
    <2>4. \A f \in Entries : f.blk \in 1..Len(mapped) /\ f.off + Extent(f.size) <= mapped[f.blk]
      BY DEF Consistent, InsideBlock
    <2>5. NoOverlap'
      <3>1. \A f \in Entries : Disjoint(e, f) /\ Disjoint(f, e)
        BY <2>2, <2>4, <1>a DEF Disjoint
      <3> QED BY <3>1, <2>1 DEF Consistent, NoOverlap
    <2>6. InsideBlock'
      BY <2>1, <2>2, <2>3, <2>4, <1>0, <1>a DEF InsideBlock
    <2>7. BlockAccounted'
      BY <2>1, <2>3, <1>0 DEF BlockAccounted
    <2>8. NothingLost'
      <3>1. Current' = {e}
        BY <2>1, <2>2, <2>3, <2>4, <1>a DEF Current
      <3>2. e.off + Extent(e.size) = used'
        BY <2>1, <2>2, <1>0
      <3> QED BY <3>1, <3>2, <2>2 DEF NothingLost
    <2> QED BY <2>5, <2>6, <2>7, <2>8
  <1> QED BY <1>1, <1>2, <1>3, MallocOutcomes

-----------------------------------------------------------------------------
(* Malloc, and Calloc, which asks for a product: what the caller gets is    *)
(* added to what is owned.                                                  *)
LEMMA MallocKeepsHeapInv ==
  ASSUME HeapInv, NEW n \in Nat, NEW o \in malloc(n),
         mapped' = o.mapped, used' = o.used, bsize' = o.bsize,
         freeList' = o.freeList, live' = live \cup Returned(o),
         crashed' \in BOOLEAN, failed' = (failed \/ o.fail)
  PROVE  HeapInv'
  <1>1. TypeOK
    BY DEF HeapInv
  <1>2. TypeOK'
    <2>1. /\ o.freeList \in Seq(Entry) /\ o.mapped \in Seq(Nat) /\ o.used \in Nat /\ o.bsize \in Nat
          /\ Returned(o) \in SUBSET Entry
      BY <1>1, MallocTypes
    <2>2. failed' \in BOOLEAN
      OBVIOUS
    <2>3. live' \in SUBSET Entry
      BY <1>1, <2>1 DEF TypeOK
    <2> QED BY <2>1, <2>2, <2>3 DEF TypeOK
  <1>3. ASSUME ~failed, ~o.fail PROVE Consistent'
    <2>1. Consistent
      BY <1>3 DEF HeapInv
    <2>2. /\ ToSet(o.freeList) = ToSet(freeList) \ o.ret
          /\ o.ret \cap live = {} /\ o.ret \cap ToSet(o.freeList) = {}
      BY <1>1, <2>1, ReturnedIsNotOwned
    <2>3. /\ o.crash = FALSE
          /\ \A j, k \in 1..Len(o.freeList) : o.freeList[j] = o.freeList[k] => j = k
      BY <1>1, <2>1, MallocOutcomes
    <2>4. Returned(o) = o.ret
      BY <2>3 DEF Returned
    <2>5. Entries' = Entries \cup o.ret
      BY <2>2, <2>4 DEF Entries
    <2>6. (NoOverlap /\ InsideBlock /\ BlockAccounted /\ NothingLost)'
      BY <1>1, <1>3, <2>1, <2>5, MallocKeepsLayout
    <2>7. FreeListSound'
      <3>1. live \cap ToSet(freeList) = {}
        BY <2>1 DEF Consistent, FreeListSound
      <3> QED BY <3>1, <2>2, <2>3, <2>4 DEF FreeListSound
    <2> QED BY <2>6, <2>7 DEF Consistent
  <1> QED BY <1>2, <1>3 DEF HeapInv

LEMMA FreeKeepsHeapInv ==
  ASSUME HeapInv, NEW e \in live, Free(e)
  PROVE  HeapInv'
  <1>1. TypeOK /\ e \in Entry
    BY DEF HeapInv, TypeOK
  <1>2. /\ freeList' = <<e>> \o freeList /\ live' = live \ {e}
        /\ mapped' = mapped /\ used' = used /\ bsize' = bsize
        /\ crashed' = crashed /\ failed' = failed
    BY DEF Free
  <1>3. /\ <<e>> \o freeList \in Seq(Entry)
        /\ ToSet(<<e>> \o freeList) = {e} \cup ToSet(freeList)
    BY <1>1, ConsProps DEF TypeOK
  <1>4. TypeOK'
    BY <1>1, <1>2, <1>3 DEF TypeOK
  <1>5. ASSUME ~failed PROVE Consistent'
    <2>1. Consistent
      BY <1>5 DEF HeapInv
    <2>2. Entries' = Entries
      BY <1>2, <1>3 DEF Entries
    <2>3. (NoOverlap /\ InsideBlock /\ BlockAccounted /\ NothingLost)'
      BY <1>2, <2>1, <2>2 DEF Consistent, NoOverlap, InsideBlock, BlockAccounted, NothingLost, Current
    <2>4. e \notin ToSet(freeList) /\ live \cap ToSet(freeList) = {}
      BY <2>1 DEF Consistent, FreeListSound
    <2>5. \A j, k \in 1..Len(freeList') : freeList'[j] = freeList'[k] => j = k
      BY <1>1, <1>2, <2>1, <2>4, ConsDistinct DEF Consistent, FreeListSound, TypeOK
    <2>6. live' \cap ToSet(freeList') = {}
      BY <1>2, <1>3, <2>4
    <2> QED BY <2>3, <2>5, <2>6 DEF Consistent, FreeListSound
  <1> QED BY <1>2, <1>4, <1>5 DEF HeapInv

LEMMA ReallocKeepsHeapInv ==
  ASSUME HeapInv, NEW e \in live, NEW n \in Nat, Realloc(e, n)
  PROVE  HeapInv'
  <1>1. TypeOK /\ e \in Entry
    BY DEF HeapInv, TypeOK
  <1>2. PICK o \in malloc(n) : LeaveHeap(o) /\ GrowEntry(e, o)
    BY DEF Realloc
  <1>3. /\ mapped' = o.mapped /\ used' = o.used /\ bsize' = o.bsize
        /\ crashed' = o.crash /\ failed' = (failed \/ o.fail)
    BY <1>2 DEF LeaveHeap
  <1>4. /\ o.freeList \in Seq(Entry) /\ o.mapped \in Seq(Nat) /\ o.used \in Nat /\ o.bsize \in Nat
        /\ o.crash \in BOOLEAN /\ o.fail \in BOOLEAN
        /\ Returned(o) \in SUBSET Entry /\ (Returned(o) = Null \/ Returned(o) = o.ret)
    BY <1>1, MallocTypes
  <1>5. /\ <<e>> \o o.freeList \in Seq(Entry)
        /\ ToSet(<<e>> \o o.freeList) = {e} \cup ToSet(o.freeList)
    BY <1>1, <1>4, ConsProps
  <1>6. CASE Returned(o) = Null
    <2>1. freeList' = o.freeList /\ live' = live \cup Returned(o)
      BY <1>2, <1>6 DEF GrowEntry, Null
    <2>2. crashed' \in BOOLEAN
      BY <1>3, <1>4
    <2> QED BY <1>3, <2>1, <2>2, MallocKeepsHeapInv
  <1>7. CASE Returned(o) # Null
    <2>1. freeList' = <<e>> \o o.freeList /\ live' = (live \ {e}) \cup o.ret /\ o.ret \in SUBSET Entry
      BY <1>2, <1>4, <1>7 DEF GrowEntry
    <2>2. TypeOK'
      <3>1. failed' \in BOOLEAN /\ crashed' \in BOOLEAN
        BY <1>3, <1>4
      <3>2. live' \in SUBSET Entry
        BY <1>1, <2>1 DEF TypeOK
      <3> QED BY <1>3, <1>4, <1>5, <2>1, <3>1, <3>2 DEF TypeOK
    <2>3. ASSUME ~failed, ~o.fail PROVE Consistent'
      <3>1. Consistent
        BY <2>3 DEF HeapInv
      <3>2. /\ ToSet(o.freeList) = ToSet(freeList) \ o.ret
            /\ o.ret \cap live = {} /\ o.ret \cap ToSet(o.freeList) = {}
        BY <1>1, <3>1, ReturnedIsNotOwned
      <3>3. \A j, k \in 1..Len(o.freeList) : o.freeList[j] = o.freeList[k] => j = k
        BY <1>1, <3>1, MallocOutcomes
      <3>4. Entries' = Entries \cup o.ret
        BY <1>5, <2>1, <3>2 DEF Entries
      <3>5. (NoOverlap /\ InsideBlock /\ BlockAccounted /\ NothingLost)'
        BY <1>1, <1>3, <2>3, <3>1, <3>4, MallocKeepsLayout
      <3>6. live \cap ToSet(freeList) = {}
        BY <3>1 DEF Consistent, FreeListSound
      <3>7. e \notin ToSet(o.freeList)
        BY <3>2, <3>6
      <3>8. \A j, k \in 1..Len(freeList') : freeList'[j] = freeList'[k] => j = k
        BY <1>1, <1>4, <2>1, <3>3, <3>7, ConsDistinct
      <3>9. live' \cap ToSet(freeList') = {}
        BY <1>5, <2>1, <3>2, <3>6
      <3> QED BY <3>5, <3>8, <3>9 DEF Consistent, FreeListSound
    <2> QED BY <1>3, <2>2, <2>3 DEF HeapInv
  <1> QED BY <1>6, <1>7

-----------------------------------------------------------------------------
(* The heap is consistent after every call until mmap fails (allocator.c). *)
THEOREM HeapIsConsistent == Spec => []HeapInv
  <1>1. Init => HeapInv
    <2> SUFFICES ASSUME Init PROVE HeapInv
      OBVIOUS
    <2>1. TypeOK
      <3>1. <<>> \in Seq(Entry) /\ <<>> \in Seq(Nat)
        BY EmptySeq
      <3> QED BY <3>1 DEF Init, TypeOK
    <2>2. Entries = {}
      BY DEF Init, Entries, ToSet
    <2>3. Consistent
      BY <2>2 DEF Init, Consistent, NoOverlap, FreeListSound, InsideBlock, BlockAccounted,
                  NothingLost, Current
    <2> QED BY <2>1, <2>3 DEF HeapInv
  <1>2. HeapInv /\ [Next]_vars => HeapInv'
    <2> SUFFICES ASSUME HeapInv, [Next]_vars PROVE HeapInv'
      OBVIOUS
    <2>1. CASE UNCHANGED vars
      BY <2>1 DEF vars, HeapInv, TypeOK, Consistent, NoOverlap, FreeListSound, InsideBlock,
                  BlockAccounted, NothingLost, Current, Entries
    <2>2. ASSUME NEW size \in Sizes, Malloc(size) PROVE HeapInv'
      <3>1. size \in Nat
        BY SizesAssumption
      <3>2. PICK o \in malloc(size) : LeaveHeap(o) /\ freeList' = o.freeList
                                     /\ live' = live \cup Returned(o)
        BY <2>2 DEF Malloc
      <3>3. o.crash \in BOOLEAN
        BY <3>1, MallocTypes DEF HeapInv
      <3> QED BY <3>1, <3>2, <3>3, MallocKeepsHeapInv DEF LeaveHeap
    <2>3. ASSUME NEW e \in live, Free(e) PROVE HeapInv'
      BY <2>3, FreeKeepsHeapInv
    <2>4. ASSUME NEW e \in live, NEW size \in Sizes, Realloc(e, size) PROVE HeapInv'
      BY <2>4, SizesAssumption, ReallocKeepsHeapInv
    <2>5. ASSUME NEW nmemb \in Counts, NEW size \in Sizes, Calloc(nmemb, size) PROVE HeapInv'
      <3>1. nmemb \in Nat /\ size \in Nat
        BY SizesAssumption
      <3>2. nmemb * size \in Nat
        BY <3>1
      <3>3. PICK o \in malloc(nmemb * size) :
              /\ mapped' = o.mapped /\ used' = o.used /\ bsize' = o.bsize
              /\ freeList' = o.freeList /\ live' = live \cup Returned(o)
              /\ crashed' = (Returned(o) = Null) /\ failed' = (failed \/ o.fail)
        BY <2>5 DEF Calloc
      <3>4. crashed' \in BOOLEAN
        BY <3>3
      <3> HIDE DEF malloc
      <3> QED BY <3>2, <3>3, <3>4, MallocKeepsHeapInv
    <2>6. CASE Killed
      BY <2>1, <2>6 DEF Killed
    <2> QED BY <2>1, <2>2, <2>3, <2>4, <2>5, <2>6 DEF Next
  <1> QED BY <1>1, <1>2, PTL DEF Spec

(* No call takes an entry from its owner but onto the free list, and what  *)
(* becomes owned was free or is new memory (malloc, free, realloc, calloc).*)
THEOREM OwnersKeepEntriesHolds == Spec => OwnersKeepEntries
  <1> DEFINE Keeps == /\ Cardinality(live \ live') <= 1
                      /\ live \ live' \subseteq ToSet(freeList')
                      /\ \/ failed
                         \/ \A e \in live' \ live : \/ e \in ToSet(freeList) \ ToSet(freeList')
                                                    \/ \A f \in Entries : Disjoint(e, f)
  <1>1. HeapInv /\ [Next]_vars => [Keeps]_vars
    <2> SUFFICES ASSUME HeapInv, Next PROVE Keeps
      BY DEF vars
    <2>0. TypeOK
      BY DEF HeapInv
    <2>a. ASSUME NEW S, S = {} PROVE Cardinality(S) <= 1
      BY <2>a, FS_EmptySet
    <2>b. ASSUME NEW e, NEW S, S = {e} PROVE Cardinality(S) <= 1
      BY <2>b, FS_Singleton
    <2>c. ASSUME NEW n \in Nat, NEW o \in malloc(n), freeList' = o.freeList,
                 live' = live \cup Returned(o)
          PROVE  Keeps
      <3>1. live \ live' = {}
        BY <2>c
      <3>2. ASSUME ~failed, NEW e \in live' \ live
            PROVE  e \in ToSet(freeList) \ ToSet(freeList') \/ \A f \in Entries : Disjoint(e, f)
        <4>1. Consistent
          BY <3>2 DEF HeapInv
        <4>2. e \in o.ret
          BY <2>0, <2>c, <3>2, MallocTypes DEF Null
        <4> QED BY <2>0, <2>c, <4>1, <4>2, ReturnedIsNotOwned
      <3> QED BY <2>a, <3>1, <3>2
    <2>2. ASSUME NEW size \in Sizes, Malloc(size) PROVE Keeps
      <3>1. size \in Nat
        BY SizesAssumption
      <3> QED BY <2>2, <2>c, <3>1 DEF Malloc
    <2>3. ASSUME NEW e \in live, Free(e) PROVE Keeps
      <3>1. freeList' = <<e>> \o freeList /\ live \ live' = {e} /\ live' \ live = {}
        BY <2>3 DEF Free
      <3>2. ToSet(freeList') = {e} \cup ToSet(freeList)
        BY <2>0, <3>1, ConsProps DEF TypeOK
      <3> QED BY <2>b, <3>1, <3>2
    <2>4. ASSUME NEW e \in live, NEW size \in Sizes, Realloc(e, size) PROVE Keeps
      <3>1. size \in Nat
        BY SizesAssumption
      <3>2. PICK o \in malloc(size) : LeaveHeap(o) /\ GrowEntry(e, o)
        BY <2>4 DEF Realloc
      <3>3. CASE Returned(o) = Null
        <4>1. freeList' = o.freeList /\ live' = live \cup Returned(o)
          BY <3>2, <3>3 DEF GrowEntry, Null
        <4> QED BY <2>c, <3>1, <4>1
      <3>4. CASE Returned(o) # Null
        <4>1. freeList' = <<e>> \o o.freeList /\ live' = (live \ {e}) \cup o.ret
          BY <3>2, <3>4 DEF GrowEntry
        <4>2. ToSet(freeList') = {e} \cup ToSet(o.freeList)
          <5>1. o.freeList \in Seq(Entry) /\ e \in Entry
            BY <2>0, <3>1, MallocTypes DEF TypeOK
          <5> QED BY <4>1, <5>1, ConsProps
        <4>3. live \ live' = {} \/ live \ live' = {e}
          BY <4>1
        <4>4. ASSUME ~failed, NEW g \in live' \ live
              PROVE  g \in ToSet(freeList) \ ToSet(freeList') \/ \A f \in Entries : Disjoint(g, f)
          <5>1. Consistent
            BY <4>4 DEF HeapInv
          <5>2. g \in o.ret /\ g # e
            BY <4>1, <4>4
          <5> QED BY <2>0, <3>1, <4>2, <5>1, <5>2, ReturnedIsNotOwned
        <4> QED BY <2>a, <2>b, <4>2, <4>3, <4>4
      <3> QED BY <3>3, <3>4
    <2>5. ASSUME NEW nmemb \in Counts, NEW size \in Sizes, Calloc(nmemb, size) PROVE Keeps
      <3>1. nmemb \in Nat /\ size \in Nat
        BY SizesAssumption
      <3>2. nmemb * size \in Nat
        BY <3>1
      <3>3. PICK o \in malloc(nmemb * size) : freeList' = o.freeList /\ live' = live \cup Returned(o)
        BY <2>5 DEF Calloc
      <3> QED BY <2>c, <3>2, <3>3
    <2>6. CASE Killed
      <3>1. live' = live
        BY <2>6 DEF Killed, vars
      <3> QED BY <2>a, <3>1
    <2> QED BY <2>2, <2>3, <2>4, <2>5, <2>6 DEF Next
  <1> QED BY <1>1, HeapIsConsistent, PTL DEF Spec, OwnersKeepEntries
=============================================================================
