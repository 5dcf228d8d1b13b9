---------------------------- MODULE BuddyAllocator ----------------------------
(***************************************************************************)
(* memory/detail/buddy_allocator.cc: the allocator takes chunks of          *)
(* max_chunk_size_ from the system, splits blocks off them and joins the    *)
(* freed ones with their neighbours again.                                  *)
(*                                                                         *)
(* Alloc and Free run under the allocator's mutex and are one action each.  *)
(* Addresses are numbers: region r of the system's memory starts at         *)
(* r * Stride, and 0 is nullptr.  An address outside DOMAIN desc has no     *)
(* valid descriptor (INVALID_CHUNK, or memory that was given back).  Sizes  *)
(* are size_t and wrap at 2^64, here at SizeMod.                            *)
(*                                                                         *)
(* The fallback memory is left out: index 1 on a device is what counts it,  *)
(* and GPUAllocator::Alloc sets 0 only.                                     *)
(***************************************************************************)
EXTENDS Integers, FiniteSets, FiniteSetsExt

CONSTANTS Regions,      \* regions of the system's memory, a finite set of numbers
          Stride,       \* distance of two regions
          DescSize,     \* sizeof(MemoryBlock::Desc)
          MinChunk,     \* min_chunk_size_
          MaxChunk,     \* max_chunk_size_; RefillPool computes it anew on a device without
                        \* chunks, from a flag and the device: the same value
          Requests,     \* the sizes that are asked for
          Index,        \* the index of the system's memory, 1 for locked memory
          FreeIdle,     \* FLAGS_free_idle_memory
          SizeMod       \* sizes are taken modulo this number

Align(size) == IF size % MinChunk = 0 THEN size
               ELSE size + (MinChunk - (size % MinChunk))

(* Faulty variant: the descriptor is not counted. *)
ChunkSize_NoDescriptor(n) == Align(n)

(* The bytes a request takes, with the descriptor in front. *)
ChunkSize(n) == Align(n + DescSize)

ASSUME BuddyAssumption ==
    /\ IsFiniteSet(Regions) /\ Regions \subseteq Nat \ {0}
    /\ {DescSize, MinChunk, MaxChunk, Stride, SizeMod} \subseteq Nat \ {0}
    /\ Requests \subseteq Nat /\ Index \in {0, 1} /\ FreeIdle \in BOOLEAN
    /\ DescSize < MinChunk /\ MinChunk <= MaxChunk /\ MaxChunk <= Stride
    /\ \A n \in Requests : ChunkSize(n) <= Stride

Base(r) == r * Stride
Bases == {Base(r) : r \in Regions}
Addr == UNION {Base(r)..(Base(r) + Stride - 1) : r \in Regions}
NullPtr == 0

Desc == [type : {"free", "arena", "huge"}, total : 1..Stride,
         left : Addr \cup {NullPtr}, right : Addr \cup {NullPtr}]

VARIABLES
    desc,       \* the valid descriptors by the address of their block
    pool,       \* pool_
    used,       \* total_used_
    free,       \* total_free_
    live        \* the requests that callers hold: their block and their size

buddyVars == <<desc, pool, used, free, live>>

-----------------------------------------------------------------------------
(* MemoryBlock and its metadata *)

Block(type, total, left, right) ==
    [type |-> type, total |-> total, left |-> left, right |-> right]

(* Descriptors d with new ones n, the addresses in dead becoming invalid. *)
Saved(d, n, dead) ==
    [b \in (DOMAIN d \cup DOMAIN n) \ dead |-> IF b \in DOMAIN n THEN n[b] ELSE d[b]]

(* Faulty variant: the right neighbour keeps its old left link. *)
Split_NoBackLink(d, b, size) ==
    IF d[b].total - size <= DescSize THEN d
    ELSE Saved(d, [a \in {b, b + size} |->
                      IF a = b THEN [d[b] EXCEPT !.right = b + size, !.total = size]
                      ELSE Block("free", d[b].total - size, b, d[b].right)], {})

(* split: b keeps size bytes, the rest becomes its right buddy. *)
Split(d, b, size) ==
    LET rest == b + size
        old == d[b].right
        halves == [a \in {b, rest} |->
                      IF a = b THEN [d[b] EXCEPT !.right = rest, !.total = size]
                      ELSE Block("free", d[b].total - size, b, old)]
        neighbour == [a \in {old} \ {NullPtr} |-> [d[old] EXCEPT !.left = rest]]
    IN IF d[b].total - size <= DescSize THEN d
       ELSE Saved(Saved(d, halves, {}), neighbour, {})

(* merge: b takes over its right buddy. *)
Merge(d, b) ==
    LET gone == d[b].right
        next == d[gone].right
        joined == [a \in {b} |-> [d[b] EXCEPT !.right = next,
                                              !.total = @ + d[gone].total]]
        neighbour == [a \in {next} \ {NullPtr} |-> [d[next] EXCEPT !.left = b]]
    IN Saved(Saved(d, joined, {}), neighbour, {gone})

IsFree(d, b) == b # NullPtr /\ d[b].type = "free"

-----------------------------------------------------------------------------
(* The pool: a set of <<index, size, address>> in lexicographic order *)

Entry(d, b) == <<Index, d[b].total, b>>

Less(x, y) == \/ x[1] < y[1]
              \/ x[1] = y[1] /\ x[2] < y[2]
              \/ x[1] = y[1] /\ x[2] = y[2] /\ x[3] < y[3]

None == <<>>

LowerBound(x) ==
    LET above == {y \in pool : ~Less(y, x)}
    IN IF above = {} THEN None
       ELSE CHOOSE y \in above : \A z \in above : ~Less(z, y)

(* Faulty variant: the search stops at the first index. *)
FindExistChunk_FirstIndexOnly(size) ==
    LET it == LowerBound(<<0, size, NullPtr>>)
    IN IF it = None \/ it[2] < size THEN None ELSE it

(* The loop over the indices of the pool: a turn that finds a block of a     *)
(* later index which is too small goes on at that index.  The indices are 0  *)
(* and 1, so the second turn is the last.                                    *)
FindExistChunk(size) ==
    LET it == LowerBound(<<0, size, NullPtr>>)
    IN IF it # None /\ it[1] > 0 /\ it[2] < size
         THEN LowerBound(<<it[1], size, NullPtr>>)
         ELSE it

-----------------------------------------------------------------------------
(* BuddyAllocator *)

(* SplitToAlloc on block b of descriptors d and pool p. *)
SplitToAlloc(d, p, b, n) ==
    LET size == ChunkSize(n)
        cut == Split(d, b, size)
        new == [cut EXCEPT ![b].type = "arena"]
        rest == new[b].right
    IN /\ desc' = new
       /\ pool' = (p \ {Entry(d, b)})
                      \cup (IF IsFree(new, rest) THEN {Entry(new, rest)} ELSE {})
       /\ live' = live \cup {<<b, n>>}

(* The system hands out a region that it does not have on loan. *)
SystemRegion(b) == b \in Bases \ DOMAIN desc

AllocHuge(n) ==
    /\ ChunkSize(n) > MaxChunk
    /\ \E b \in Bases :
          /\ SystemRegion(b)
          /\ desc' = Saved(desc, [a \in {b} |-> Block("huge", ChunkSize(n), NullPtr, NullPtr)], {})
          /\ live' = live \cup {<<b, n>>}
    /\ UNCHANGED <<pool, used, free>>

(* Faulty variant: a new chunk is not counted as free. *)
Counted_NotRefilled(n, refilled) ==
    /\ used' = (used + ChunkSize(n)) % SizeMod
    /\ free' = (free - ChunkSize(n)) % SizeMod

Counted(n, refilled) ==
    /\ used' = (used + ChunkSize(n)) % SizeMod
    /\ free' = (free + refilled - ChunkSize(n)) % SizeMod

AllocExisting(n) ==
    /\ ChunkSize(n) <= MaxChunk
    /\ LET it == FindExistChunk(ChunkSize(n))
       IN it # None /\ SplitToAlloc(desc, pool, it[3], n)
    /\ Counted(n, 0)

(* RefillPool: a new chunk.  When the system has none, or GpuMaxChunkSize    *)
(* throws because the device has too little left, Alloc changes nothing.     *)
AllocRefill(n) ==
    /\ ChunkSize(n) <= MaxChunk
    /\ FindExistChunk(ChunkSize(n)) = None
    /\ \E b \in Bases :
          /\ SystemRegion(b)
          /\ LET d == Saved(desc, [a \in {b} |-> Block("free", MaxChunk, NullPtr, NullPtr)], {})
             IN SplitToAlloc(d, pool \cup {Entry(d, b)}, b, n)
    /\ Counted(n, MaxChunk)

FreeHuge(b, n) ==
    /\ <<b, n>> \in live /\ desc[b].type = "huge"
    /\ desc' = Saved(desc, [a \in {} |-> 0], {b})
    /\ live' = live \ {<<b, n>>}
    /\ UNCHANGED <<pool, used, free>>

MergeRight(d, b) == IF IsFree(d, d[b].right) THEN Merge(d, b) ELSE d

(* The block that b is part of after it was merged with its left buddy. *)
LeftOf(d, b) == IF IsFree(d, d[b].left) THEN d[b].left ELSE b

(* Faulty variant: the left buddy is not merged. *)
MergeLeft_Never(d, b) == d

MergeLeft(d, b) == IF IsFree(d, d[b].left) THEN Merge(d, d[b].left) ELSE d

(* CleanIdleNormalAlloc: the chunks given back, last in the pool first, *)
(* while more than twice the memory in use would be left free.          *)
Idle(d, p, u, f) ==
    LET whole == {x[3] : x \in {y \in p : y[2] >= MaxChunk}}
        shallFree(k) == ((u + MaxChunk) * 2) % SizeMod < (f - k * MaxChunk) % SizeMod
        number == Max({k \in 0..Cardinality(whole) : \A j \in 0..(k - 1) : shallFree(j)})
    IN {b \in whole : Cardinality({c \in whole : c > b}) < number}

Free(b, n) ==
    /\ <<b, n>> \in live /\ desc[b].type = "arena"
    /\ live' = live \ {<<b, n>>}
    /\ LET total == desc[b].total
           d1 == [desc EXCEPT ![b].type = "free"]
           d2 == MergeRight(d1, b)
           whole == LeftOf(d2, b)
           d3 == MergeLeft(d2, b)
           p3 == {x \in pool : x[3] \notin {whole, d1[b].right}} \cup {Entry(d3, whole)}
           u3 == (used - total) % SizeMod
           f3 == (free + total) % SizeMod
           idle == IF FreeIdle THEN Idle(d3, p3, u3, f3) ELSE {}
       IN /\ desc' = Saved(d3, [a \in {} |-> 0], idle)
          /\ pool' = {x \in p3 : x[3] \notin idle}
          /\ used' = u3
          /\ free' = (f3 - Cardinality(idle) * MaxChunk) % SizeMod

BuddyInit ==
    /\ desc = [a \in {} |-> 0]
    /\ pool = {}
    /\ used = 0 /\ free = 0
    /\ live = {}

BuddyNext ==
    \/ \E n \in Requests : AllocHuge(n) \/ AllocExisting(n) \/ AllocRefill(n)
    \/ \E h \in live : Free(h[1], h[2]) \/ FreeHuge(h[1], h[2])

BuddySpec == BuddyInit /\ [][BuddyNext]_buddyVars

-----------------------------------------------------------------------------
(* Types: blocks lie in the system's regions, what callers hold is valid. *)
BuddyTypeOK ==
    /\ DOMAIN desc \subseteq Addr
    /\ \A b \in DOMAIN desc : desc[b] \in Desc
    /\ \A x \in pool : x[1] = Index /\ x[2] \in 1..MaxChunk /\ x[3] \in Addr
    /\ used \in 0..(SizeMod - 1) /\ free \in 0..(SizeMod - 1)
    /\ live \subseteq (DOMAIN desc) \X Requests

(* The blocks of a chunk tile it: each ends where its right buddy starts,   *)
(* the links of neighbours agree, and the first and the last block are at   *)
(* the ends of the chunk, whatever was split and merged before.             *)
BlocksTile ==
    \A b \in DOMAIN desc : desc[b].type # "huge" =>
        /\ IF desc[b].left = NullPtr THEN b \in Bases
           ELSE desc[b].left \in DOMAIN desc /\ desc[desc[b].left].right = b
        /\ IF desc[b].right = NullPtr
             THEN \E base \in Bases : b + desc[b].total = base + MaxChunk
             ELSE /\ desc[b].right = b + desc[b].total
                  /\ desc[b].right \in DOMAIN desc
                  /\ desc[desc[b].right].left = b

(* The pool holds exactly the free blocks with their sizes, and freed       *)
(* neighbours have been joined: no two free blocks are next to each other.  *)
PoolIsFreeBlocks ==
    LET freeBlocks == {b \in DOMAIN desc : desc[b].type = "free"}
    IN /\ pool = {Entry(desc, b) : b \in freeBlocks}
       /\ \A b \in freeBlocks : ~IsFree(desc, desc[b].right)

(* What callers hold was given to one of them only, has room for the request *)
(* behind its descriptor and shares no byte with another's.                  *)
HoldersDisjoint ==
    \A x, y \in live :
        /\ x[2] + DescSize <= desc[x[1]].total
        /\ x # y => \/ x[1] + desc[x[1]].total <= y[1]
                    \/ y[1] + desc[y[1]].total <= x[1]

(* Alloc asks the system for a chunk only if no free block is large enough,  *)
(* and takes the smallest that is: FindExistChunk's search agrees with that. *)
BestFit ==
    \A n \in Requests :
        LET size == ChunkSize(n)
            fitting == {x \in pool : x[2] >= size}
            it == FindExistChunk(size)
        IN IF fitting = {} THEN it = None
           ELSE it \in fitting /\ \A x \in fitting : it[2] <= x[2]

(* The two counters, which wrap, add up to the memory taken from the system  *)
(* in chunks: RefillPool's test whether there is any is right.  Each of them *)
(* alone may drift: UsedIsUsed.                                              *)
MemoryAccounted ==
    (used + free) % SizeMod =
        (MaxChunk * Cardinality({b \in DOMAIN desc \cap Bases : desc[b].type # "huge"})) % SizeMod

(* buddy_allocator.h calls total_used_ the total size of used memory: it is  *)
(* zero again when every block has been freed.  False when a split leaves    *)
(* no room for a descriptor: Alloc counts size, Free the block's total_size. *)
UsedIsUsed ==
    (\A b \in DOMAIN desc : desc[b].type # "arena") => used = 0

=============================================================================
