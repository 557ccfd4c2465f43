----------------------------- MODULE Allocator ------------------------------
(***************************************************************************)
(* The heap of the C library, src/libc/allocator.c: malloc takes the first *)
(* entry of heap_free_list that is large enough, or else carves an entry   *)
(* off the current heap block, mapping a new block when the current one is *)
(* full; free pushes the entry on the list; realloc and calloc are built   *)
(* on them.                                                                *)
(*                                                                         *)
(* An entry is the record of a HeapEntryHeader: the block it lies in, the  *)
(* offset of the header in that block and header->size, which stays what   *)
(* it was when the entry was carved.  heap_block is the block mapped last, *)
(* number Len(mapped), or NULL when that is 0.                             *)
(***************************************************************************)
EXTENDS Integers, SequencesExt, FiniteSetsExt

CONSTANTS
  Sizes,         \* the sizes callers ask for, 0 included
  Counts,        \* the first argument of calloc
  BaseBlock,     \* heap_block_size of the first block (32768 in the code)
  MaxDoublings,  \* bound: how often heap_block_size is doubled
  MaxBlocks      \* bound: how many blocks the system lets us map

Header == 16   \* sizeof(HeapEntryHeader)
Null == {}     \* a NULL pointer; any other pointer is the set of its entry

VARIABLES
  freeList,  \* heap_free_list
  mapped,    \* the sizes of the blocks mapped so far
  used,      \* heap_block_used
  bsize,     \* heap_block_size
  live,      \* the entries that callers own
  crashed,   \* the program wrote through a NULL pointer
  failed     \* history: mmap has failed

vars == <<freeList, mapped, used, bsize, live, crashed, failed>>

align_to(n) == ((n + 7) \div 8) * 8
Extent(size) == align_to(Header + size)

BlockSizes == {BaseBlock * 2^k : k \in 0..MaxDoublings}

ASSUME SizesAssumption ==
  /\ Sizes \subseteq Nat /\ Counts \subseteq Nat
  /\ BaseBlock \in Nat \ {0} /\ MaxDoublings \in Nat
  /\ BlockSizes \subseteq Nat
  /\ MaxBlocks \in Nat

Init ==
  /\ freeList = <<>> /\ mapped = <<>>
  /\ used = 0 /\ bsize = 0
  /\ live = {} /\ crashed = FALSE /\ failed = FALSE

-----------------------------------------------------------------------------
(* heap_block_size doubled until extra fits. *)
Grown_Once(extra) == IF bsize = 0 THEN BaseBlock ELSE bsize

Grown(extra) ==
  LET big == {s \in BlockSizes : s >= bsize /\ s >= extra}
  IN  CHOOSE s \in big : \A r \in big : s <= r

CanGrow(extra) == \E s \in BlockSizes : s >= bsize /\ s >= extra

Fits(size) == {k \in 1..Len(freeList) : freeList[k].size >= size}
FirstFit(size) == CHOOSE k \in Fits(size) : \A l \in Fits(size) : k <= l

(* One way malloc may end: what it returns and the heap it leaves. *)
Outcome(r, f, m, u, b) ==
  [ret |-> r, freeList |-> f, mapped |-> m, used |-> u, bsize |-> b,
   crash |-> FALSE, fail |-> FALSE]

(* The entry is unlinked from the list and keeps its size. *)
TakeFree(size) ==
  LET k == FirstFit(size)
  IN  Outcome({freeList[k]}, RemoveAt(freeList, k), mapped, used, bsize)

(* The header is written through heap_block, which is still NULL when no   *)
(* block could ever be mapped.                                             *)
Bump(size) ==
  [Outcome({[blk |-> Len(mapped), off |-> used, size |-> size]},
           freeList, mapped, used + Extent(size), bsize)
   EXCEPT !.crash = mapped = <<>>]

MapBlock(size) ==
  LET b == Grown(Extent(size))
  IN  Outcome({[blk |-> Len(mapped) + 1, off |-> 0, size |-> size]},
              freeList, Append(mapped, b), Extent(size), b)

(* heap_block_used and heap_block_size have changed already. *)
MmapFailed(size) ==
  [Outcome(Null, freeList, mapped, 0, Grown(Extent(size))) EXCEPT !.fail = TRUE]

(* The ways malloc may end; malloc(0) returns NULL and touches nothing. *)
malloc(size) ==
  IF size = 0 THEN {Outcome(Null, freeList, mapped, used, bsize)}
  ELSE IF Fits(size) # {} THEN {TakeFree(size)}
  ELSE IF used + Extent(size) <= bsize THEN {Bump(size)}
  ELSE IF CanGrow(Extent(size))
       THEN {MmapFailed(size)} \cup (IF Len(mapped) < MaxBlocks THEN {MapBlock(size)} ELSE {})
       ELSE {}

LeaveHeap(o) ==
  /\ mapped' = o.mapped /\ used' = o.used /\ bsize' = o.bsize
  /\ crashed' = o.crash /\ failed' = (failed \/ o.fail)

Returned(o) == IF o.crash THEN Null ELSE o.ret

Malloc(size) ==
  /\ ~crashed
  /\ \E o \in malloc(size) :
       /\ LeaveHeap(o)
       /\ freeList' = o.freeList
       /\ live' = live \cup Returned(o)

(* Callers free what they own, once. *)
Free(e) ==
  /\ ~crashed
  /\ e \in live
  /\ freeList' = <<e>> \o freeList
  /\ live' = live \ {e}
  /\ UNCHANGED <<mapped, used, bsize, crashed, failed>>

GrowEntry_Leaks(e, o) == freeList' = o.freeList /\ live' = (live \ {e}) \cup o.ret

(* realloc past the size of the entry: the old entry is freed only when    *)
(* malloc succeeded and its bytes were copied.                             *)
GrowEntry(e, o) ==
  IF Returned(o) = Null
  THEN freeList' = o.freeList /\ live' = live
  ELSE freeList' = <<e>> \o o.freeList /\ live' = (live \ {e}) \cup o.ret

(* size = 0 and a size that fits return without touching the heap. *)
Realloc(e, size) ==
  /\ ~crashed
  /\ e \in live
  /\ size > e.size
  /\ \E o \in malloc(size) : LeaveHeap(o) /\ GrowEntry(e, o)

(* calloc clears what malloc returned, NULL too. *)
Calloc(nmemb, size) ==
  /\ ~crashed
  /\ nmemb # 0 /\ size # 0
  /\ \E o \in malloc(nmemb * size) :
       /\ mapped' = o.mapped /\ used' = o.used /\ bsize' = o.bsize
       /\ freeList' = o.freeList
       /\ live' = live \cup Returned(o)
       /\ crashed' = (Returned(o) = Null) /\ failed' = (failed \/ o.fail)

(* SIGSEGV *)
Killed == crashed /\ UNCHANGED vars

Next ==
  \/ Killed
  \/ \E size \in Sizes : Malloc(size)
  \/ \E e \in live : Free(e)
  \/ \E e \in live, size \in Sizes : Realloc(e, size)
  \/ \E nmemb \in Counts, size \in Sizes : Calloc(nmemb, size)

Spec == Init /\ [][Next]_vars

-----------------------------------------------------------------------------
Entry == [blk : Nat \ {0}, off : Nat, size : Nat]

TypeOK ==
  /\ freeList \in Seq(Entry) /\ live \in SUBSET Entry
  /\ mapped \in Seq(Nat) /\ used \in Nat /\ bsize \in Nat
  /\ crashed \in BOOLEAN /\ failed \in BOOLEAN

Entries == live \cup ToSet(freeList)

Disjoint(e, f) ==
  e.blk # f.blk \/ e.off + Extent(e.size) <= f.off \/ f.off + Extent(f.size) <= e.off

(* No memory is handed out that somebody owns or that is on the free list. *)
NoOverlap == \A e, f \in Entries : e # f => Disjoint(e, f)

(* An entry is on the free list at most once and never while it is owned. *)
FreeListSound ==
  /\ \A j, k \in 1..Len(freeList) : freeList[j] = freeList[k] => j = k
  /\ live \cap ToSet(freeList) = {}

(* Inside its block, and below heap_block_used when that is the current one. *)
InsideBlock ==
  \A e \in Entries :
    /\ e.blk \in 1..Len(mapped)
    /\ e.off + Extent(e.size) <= mapped[e.blk]
    /\ e.blk = Len(mapped) => e.off + Extent(e.size) <= used

(* The current block is as large as heap_block_size says. *)
BlockAccounted ==
  /\ used <= bsize
  /\ IF mapped = <<>> THEN bsize = 0 ELSE bsize = mapped[Len(mapped)]

(* The entries of the current block, owned or free, follow each other from  *)
(* its start to heap_block_used: no byte of it is lost.                     *)
Current == {e \in Entries : e.blk = Len(mapped)}

NothingLost ==
  \A at \in {0} \cup {e.off + Extent(e.size) : e \in Current} :
    at = used \/ \E e \in Current : e.off = at

Consistent == NoOverlap /\ FreeListSound /\ InsideBlock /\ BlockAccounted /\ NothingLost

(***************************************************************************)
(* As long as mmap has not failed, the heap is consistent after every      *)
(* call, in whatever order malloc, free, realloc and calloc come: entries  *)
(* are disjoint, header included, and inside their blocks, none is on the  *)
(* free list twice or while it is owned, and none is ever lost from the    *)
(* current block.                                                          *)
(***************************************************************************)
HeapInv == TypeOK /\ (failed \/ Consistent)

(***************************************************************************)
(* A step takes at most one entry from its owner, and only onto the free   *)
(* list, also when malloc fails inside realloc; and what becomes owned has *)
(* left the free list or overlaps nothing that was owned or free before.   *)
(***************************************************************************)
OwnersKeepEntries ==
  [][/\ Cardinality(live \ live') <= 1
     /\ live \ live' \subseteq ToSet(freeList')
     /\ \/ failed
        \/ \A e \in live' \ live : \/ e \in ToSet(freeList) \ ToSet(freeList')
                                   \/ \A f \in Entries : Disjoint(e, f)]_vars
=============================================================================
