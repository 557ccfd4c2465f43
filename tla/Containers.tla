----------------------------- MODULE Containers -----------------------------
(***************************************************************************)
(* The containers of the compiler over raw memory: dynamic arrays          *)
(* (src/src/array.c, array.h), pools (pool.c), bit sets (bit_set.c,        *)
(* bit_set.h, maths.h), and memmove and qsort of src/libc, each kept       *)
(* beside the value it stands for: a sequence, a set of disjoint pieces, a *)
(* set of numbers, a sorted permutation.                                   *)
(*                                                                         *)
(* An element is a number v whose bytes are 10v + 1, 10v + 2, ...          *)
(***************************************************************************)
EXTENDS Integers, SequencesExt, FiniteSetsExt

CONSTANTS
  Capacities, ElementSizes,  \* of arrays
  MaxSize,                   \* bound: elements of an array
  PoolBlock, PoolSizes,      \* block_size of a pool, and what is asked of it
  MaxPieces,                 \* bound: calls of pool_alloc
  WordLog,                   \* a word of a bit set has 2^WordLog bits (64 in the code)
  BitCounts,                 \* size_in_bits
  Keys, MaxSorted            \* qsort: keys of the elements, and how many

VARIABLES box,  \* the container
          abs   \* history: what it should stand for

containerVars == <<box, abs>>

JunkByte == 0

Is(kind) == box.kind = kind

-----------------------------------------------------------------------------
(* memcpy and memmove of n bytes inside one memory, positions from 0. *)
CopyByte(mem, dest, src) == [mem EXCEPT ![dest + 1] = mem[src + 1]]
Upwards(mem, dest, src, n) == FoldLeft(LAMBDA m, k : CopyByte(m, dest + k - 1, src + k - 1), mem, [k \in 1..n |-> k])
Downwards(mem, dest, src, n) == FoldLeft(LAMBDA m, k : CopyByte(m, dest + n - k, src + n - k), mem, [k \in 1..n |-> k])

memmove_Upwards(mem, dest, src, n) == Upwards(mem, dest, src, n)

memmove(mem, dest, src, n) ==
  IF dest + n > src /\ dest + n < src + n THEN Upwards(mem, dest, src, n)
  ELSE IF src + n > dest /\ src + n < dest + n THEN Downwards(mem, dest, src, n)
  ELSE IF dest # src THEN Upwards(mem, dest, src, n) ELSE mem

-----------------------------------------------------------------------------
(* Arrays: [elements, size, capacity, es], es the element size. *)
Bytes(v, es) == [k \in 1..es |-> 10 * v + k]

array_init(capacity, es) ==
  [kind |-> "array", elements |-> [k \in 1..(capacity * es) |-> JunkByte], size |-> 0, capacity |-> capacity, es |-> es]

(* realloc keeps what was there; what it adds is not set. *)
Resized(mem, n) == [k \in 1..n |-> IF k <= Len(mem) THEN mem[k] ELSE JunkByte]

DoubledCapacity(capacity, wanted) == Min({capacity * 2^k : k \in 0..wanted} \ 0..(wanted - 1))

array_ensure_room(a, count) ==
  LET wanted == a.size + count
      capacity == IF a.capacity = 0 THEN wanted ELSE DoubledCapacity(a.capacity, wanted)
  IN  IF wanted <= a.capacity THEN a
      ELSE [a EXCEPT !.capacity = capacity, !.elements = Resized(a.elements, capacity * a.es)]

(* What a caller stores through a pointer to element i. *)
Store(a, i, v) ==
  [a EXCEPT !.elements = [k \in DOMAIN a.elements |->
      IF k > i * a.es /\ k <= (i + 1) * a.es THEN Bytes(v, a.es)[k - i * a.es] ELSE a.elements[k]]]

array_insert(a, point) ==
  LET r == array_ensure_room(a, 1)
  IN  [r EXCEPT !.elements = memmove(r.elements, (point + 1) * r.es, point * r.es, (r.size - point) * r.es),
                !.size = @ + 1]

array_remove(a, point) ==
  [a EXCEPT !.elements = IF point = a.size - 1 THEN @
                         ELSE memmove(@, point * a.es, (point + 1) * a.es, (a.size - point - 1) * a.es),
            !.size = @ - 1]

(* The end is counted in bytes: every caller has elements of one byte. *)
array_append_elems(a, vs) ==
  LET r == array_ensure_room(a, Len(vs))
      bytes == FlattenSeq([k \in DOMAIN vs |-> Bytes(vs[k], a.es)])
  IN  [r EXCEPT !.elements = [k \in DOMAIN r.elements |->
                                IF k > r.size /\ k <= r.size + Len(bytes) THEN bytes[k - r.size] ELSE r.elements[k]],
                !.size = @ + Len(vs)]

Fresh == Min((1..(MaxSize + 1)) \ ToSet(abs))   \* a value the array does not hold
Room(count) == Is("array") /\ box.size + count <= MaxSize

ArrayAppend ==
  /\ Room(1)
  /\ LET r == array_ensure_room(box, 1) IN box' = Store([r EXCEPT !.size = @ + 1], r.size, Fresh)
  /\ abs' = Append(abs, Fresh)

ArrayInsert ==
  \E point \in 0..MaxSize :
    /\ Room(1) /\ point <= box.size
    /\ box' = Store(array_insert(box, point), point, Fresh)
    /\ abs' = InsertAt(abs, point + 1, Fresh)

ArrayRemove ==
  \E point \in 0..(MaxSize - 1) :
    /\ Is("array") /\ point < box.size
    /\ box' = array_remove(box, point)
    /\ abs' = RemoveAt(abs, point + 1)

(* ARRAY_POP, array_delete_last *)
ArrayPop ==
  /\ Is("array") /\ box.size > 0
  /\ box' = [box EXCEPT !.size = @ - 1]
  /\ abs' = Front(abs)

ArrayAppendElems ==
  \E n \in 0..3 :
    /\ Room(n) /\ box.es = 1
    /\ LET vs == [k \in 1..n |-> Fresh + k - 1]
       IN  box' = array_append_elems(box, vs) /\ abs' = abs \o vs

ArrayClear == Is("array") /\ box' = [box EXCEPT !.size = 0] /\ abs' = <<>>

-----------------------------------------------------------------------------
(* Pools: the blocks, of which only the last is used. *)
pool_init == [kind |-> "pool", blocks |-> <<[size |-> PoolBlock, used |-> 0]>>]

pool_alloc(p, size) ==
  LET full == Last(p.blocks).used + size > PoolBlock
      new == [size |-> Max({size, PoolBlock}), used |-> 0]
      blocks == IF full THEN Append(p.blocks, new) ELSE p.blocks
  IN  [at |-> [blk |-> Len(blocks), off |-> Last(blocks).used, size |-> size],
       pool |-> [p EXCEPT !.blocks = [blocks EXCEPT ![Len(blocks)].used = @ + size]]]

PoolAlloc ==
  \E size \in PoolSizes :
    /\ Is("pool") /\ Len(abs) < MaxPieces
    /\ LET r == pool_alloc(box, size) IN box' = r.pool /\ abs' = Append(abs, r.at)

-----------------------------------------------------------------------------
(* Bit sets: words of 2^WordLog bits. *)
Word == 2^WordLog
Words(n) == (n + Word - 1) \div Word
BitAt(word, k) == (word \div 2^k) % 2

(* bit_set_set_all and bit_set_clear_all; bit_set_init, which does neither,  *)
(* is always followed by one of them.                                        *)
bit_set_all(n) == [i \in 1..Words(n) |-> IF i = Words(n) /\ n % Word # 0 THEN 2^(n % Word) - 1 ELSE 2^Word - 1]
bit_set_none(n) == [i \in 1..Words(n) |-> 0]

bit_set_get_bit(b, index) == BitAt(b.words[index \div Word + 1], index % Word) = 1

bit_set_set_bit(b, index, value) ==
  LET bit == 2^(index % Word)
      cleared == [b EXCEPT !.words[index \div Word + 1] = @ - bit * BitAt(@, index % Word)]
  IN  IF value THEN [cleared EXCEPT !.words[index \div Word + 1] = @ + bit] ELSE cleared

lowest_set_bit(x) == Min({k \in 0..(Word - 1) : BitAt(x, k) = 1})

(* Halves the word: the mask b[i] selects bits s[i] to 2 s[i] - 1. *)
highest_set_bit(x) ==
  FoldLeft(LAMBDA acc, i : LET s == 2^(WordLog - i)
                           IN  IF (acc.x \div 2^s) % 2^s # 0 THEN [x |-> acc.x \div 2^s, r |-> acc.r + s] ELSE acc,
           [x |-> x, r |-> 0], [i \in 1..WordLog |-> i]).r

NonZero(b) == {i \in DOMAIN b.words : b.words[i] # 0}
bit_set_lowest_set_bit(b) ==
  IF NonZero(b) = {} THEN -1 ELSE Word * (Min(NonZero(b)) - 1) + lowest_set_bit(b.words[Min(NonZero(b))])
bit_set_highest_set_bit(b) ==
  IF NonZero(b) = {} THEN -1 ELSE Word * (Max(NonZero(b)) - 1) + highest_set_bit(b.words[Max(NonZero(b))])
bit_set_is_empty(b) == NonZero(b) = {}

SetBit ==
  \E index \in 0..(Max(BitCounts) - 1), value \in BOOLEAN :
    /\ Is("bits") /\ index < box.n
    /\ box' = bit_set_set_bit(box, index, value)
    /\ abs' = IF value THEN abs \cup {index} ELSE abs \ {index}

SetAllBits == Is("bits") /\ box' = [box EXCEPT !.words = bit_set_all(box.n)] /\ abs' = 0..(box.n - 1)
ClearAllBits == Is("bits") /\ box' = [box EXCEPT !.words = bit_set_none(box.n)] /\ abs' = {}

-----------------------------------------------------------------------------
(* qsort: todo is the stack of calls of qsort_aux to come, the first one    *)
(* running; lower and higher are lower_end and higher_end.                  *)
Sorting(elems) ==
  [kind |-> "sort", elems |-> elems, todo |-> <<[base |-> 0, nmemb |-> Len(elems)]>>, lower |-> 0, higher |-> 0]

Running == Head(box.todo)
Nth(k) == Running.base + k + 1
Swapped(elems, j, k) == [elems EXCEPT ![j] = elems[k], ![k] = elems[j]]
compar(x, y) == x.key - y.key

SortCompare ==
  /\ Is("sort") /\ box.todo # <<>> /\ box.higher < Running.nmemb - 1
  /\ box' = IF compar(box.elems[Nth(box.higher)], box.elems[Nth(Running.nmemb - 1)]) < 0
            THEN [box EXCEPT !.elems = Swapped(@, Nth(box.higher), Nth(box.lower)), !.lower = @ + 1, !.higher = @ + 1]
            ELSE [box EXCEPT !.higher = @ + 1]
  /\ UNCHANGED abs

(* The pivot goes between the two halves, which are sorted one after the other. *)
SortSplit ==
  LET low == [base |-> Running.base, nmemb |-> box.lower]
      high == [base |-> Running.base + box.lower + 1, nmemb |-> Running.nmemb - box.lower - 1]
  IN  /\ Is("sort") /\ box.todo # <<>> /\ Running.nmemb > 1 /\ box.higher = Running.nmemb - 1
      /\ box' = [box EXCEPT !.elems = Swapped(@, Nth(Running.nmemb - 1), Nth(box.lower)),
                            !.todo = <<low, high>> \o Tail(@), !.lower = 0, !.higher = 0]
      /\ UNCHANGED abs

SortTrivial ==
  /\ Is("sort") /\ box.todo # <<>> /\ Running.nmemb <= 1
  /\ box' = [box EXCEPT !.todo = Tail(@)]
  /\ UNCHANGED abs

-----------------------------------------------------------------------------
Elements == {e \in UNION {[1..n -> [key : Keys, id : 1..MaxSorted]] : n \in 0..MaxSorted} : \A k \in DOMAIN e : e[k].id = k}

ContainerInit ==
  \/ \E capacity \in Capacities, es \in ElementSizes : box = array_init(capacity, es) /\ abs = <<>>
  \/ box = pool_init /\ abs = <<>>
  \/ \E n \in BitCounts :
       \/ box = [kind |-> "bits", n |-> n, words |-> bit_set_none(n)] /\ abs = {}
       \/ box = [kind |-> "bits", n |-> n, words |-> bit_set_all(n)] /\ abs = 0..(n - 1)
  \/ \E e \in Elements : box = Sorting(e) /\ abs = e

(* A pool is used up to the bound and a sorted array is left alone. *)
ContainerDone ==
  /\ (Is("pool") /\ Len(abs) = MaxPieces) \/ (Is("sort") /\ box.todo = <<>>)
  /\ UNCHANGED containerVars

ContainerNext ==
  \/ ArrayAppend \/ ArrayInsert \/ ArrayRemove \/ ArrayPop \/ ArrayAppendElems \/ ArrayClear
  \/ PoolAlloc \/ SetBit \/ SetAllBits \/ ClearAllBits
  \/ SortCompare \/ SortSplit \/ SortTrivial \/ ContainerDone

-----------------------------------------------------------------------------
ArrayRight ==
  /\ box.size = Len(abs) /\ box.size <= box.capacity /\ Len(box.elements) = box.capacity * box.es
  /\ SubSeq(box.elements, 1, box.size * box.es) = FlattenSeq([k \in DOMAIN abs |-> Bytes(abs[k], box.es)])

PoolRight ==
  \A j, k \in DOMAIN abs :
    /\ abs[j].off + abs[j].size <= box.blocks[abs[j].blk].size
    /\ j < k /\ abs[j].blk = abs[k].blk => abs[j].off + abs[j].size <= abs[k].off

BitsRight ==
  /\ \A k \in 0..(box.n - 1) : bit_set_get_bit(box, k) <=> k \in abs
  /\ bit_set_is_empty(box) <=> abs = {}
  /\ bit_set_lowest_set_bit(box) = IF abs = {} THEN -1 ELSE Min(abs)
  /\ bit_set_highest_set_bit(box) = IF abs = {} THEN -1 ELSE Max(abs)

SortRight ==
  /\ ToSet(box.elems) = ToSet(abs)
  /\ box.todo = <<>> => \A j, k \in DOMAIN abs : j < k => box.elems[j].key <= box.elems[k].key

(***************************************************************************)
(* Whatever the order of calls, a container stands for its value: an array *)
(* for the sequence the insertions and removals give, through every growth *)
(* and overlapping move of its bytes; a pool for pieces that are disjoint  *)
(* and inside their block, also around a piece larger than a block; a bit  *)
(* set for a set, with its last word never holding bits beyond its size;   *)
(* and qsort ends in a sorted permutation.                                 *)
(***************************************************************************)
ContainersRight ==
  CASE Is("array") -> ArrayRight [] Is("pool") -> PoolRight [] Is("bits") -> BitsRight [] Is("sort") -> SortRight
=============================================================================
