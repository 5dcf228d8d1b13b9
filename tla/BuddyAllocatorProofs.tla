------------------------- MODULE BuddyAllocatorProofs -------------------------
(***************************************************************************)
(* Proofs about BuddyAllocator for any sizes, any number of regions and any *)
(* sequence of Alloc and Free: the blocks tile their chunks, the pool holds *)
(* exactly the free ones, callers never share a byte, and FindExistChunk    *)
(* finds the best fit.                                                      *)
(*                                                                          *)
(* Split and Merge work on the descriptors in several assignments, and Free *)
(* composes up to three of them, so the invariant of the descriptors is     *)
(* stated for any descriptors d, not only for the variable: each helper is  *)
(* shown to keep it (lemmas SplitWF, MergeWF, ChunkWF, RemoveWF, RetypeWF). *)
(***************************************************************************)
EXTENDS BuddyAllocator, TLAPS, FiniteSetTheorems, WellFoundedInduction

Blocks == [type : {"free", "arena", "huge"}, total : Nat \ {0}, left : Nat, right : Nat]

Shape(d) == d \in [DOMAIN d -> Blocks] /\ DOMAIN d \subseteq Nat \ {0}

\* No byte belongs to two blocks.
Apart(d) == \A a, b \in DOMAIN d : a < b => a + d[a].total <= b

\* A block lies in a region whose first block exists; a huge one is alone.
InRegion(d) ==
    \A b \in DOMAIN d : \E base \in Bases :
        /\ base \in DOMAIN d /\ base <= b
        /\ IF d[b].type = "huge" THEN b = base /\ b + d[b].total <= base + Stride
           ELSE d[base].type # "huge" /\ b + d[b].total <= base + MaxChunk

\* The links: BlocksTile, and that no link leaves a region.
LeftLink(d) ==
    \A b \in DOMAIN d : d[b].type # "huge" =>
        IF d[b].left = NullPtr THEN b \in Bases
        ELSE b \notin Bases /\ d[b].left \in DOMAIN d /\ d[d[b].left].right = b

RightLink(d) ==
    \A b \in DOMAIN d : d[b].type # "huge" =>
        IF d[b].right = NullPtr THEN \E base \in Bases : b + d[b].total = base + MaxChunk
        ELSE /\ d[b].right = b + d[b].total
             /\ d[b].right \in DOMAIN d
             /\ d[d[b].right].left = b

HugeAlone(d) ==
    \A b \in DOMAIN d : d[b].type = "huge" => d[b].left = NullPtr /\ d[b].right = NullPtr

WellFormed(d) ==
    Shape(d) /\ Apart(d) /\ InRegion(d) /\ LeftLink(d) /\ RightLink(d) /\ HugeAlone(d)

\* The pool of descriptors d.
FreeBlocks(d) == {b \in DOMAIN d : d[b].type = "free"}
PoolOf(d) == {Entry(d, b) : b \in FreeBlocks(d)}

\* The chunks of descriptors d, by their first block.
Chunks(d) == {b \in DOMAIN d \cap Bases : d[b].type # "huge"}

\* Free blocks that are next to each other are so only at block b: before it
\* and behind it.
AdjacentOnlyAt(d, b) ==
    \A a \in FreeBlocks(d) : IsFree(d, d[a].right) => a = b \/ d[a].right = b

AdjacentOnlyBefore(d, b) ==
    \A a \in FreeBlocks(d) : IsFree(d, d[a].right) => d[a].right = b

NoAdjacent(d) == \A a \in FreeBlocks(d) : ~ IsFree(d, d[a].right)

\* What callers hold: a block that is not free, large enough, one holder each.
Held(d, l) ==
    /\ l \subseteq Nat \X Requests
    /\ \A x \in l : /\ x[1] \in DOMAIN d
                    /\ d[x[1]].type # "free"
                    /\ x[2] + DescSize <= d[x[1]].total
    /\ \A x, y \in l : x[1] = y[1] => x = y

\* The inductive invariant.
Consistent(d, p, l) == WellFormed(d) /\ p = PoolOf(d) /\ NoAdjacent(d) /\ Held(d, l)

BuddyInv == Consistent(desc, pool, live)

-----------------------------------------------------------------------------
(* Numbers, regions and sizes *)

\* A set of numbers has a smallest one.
LEMMA Smallest ==
    ASSUME NEW S, S \subseteq Nat, S # {}
    PROVE  \E x \in S : \A y \in S : x <= y
<1> DEFINE R == OpToRel(<, Nat)
<1>1. IsWellFoundedOn(R, Nat)
  BY NatLessThanWellFounded
<1>2. \A x, y \in Nat : <<y, x>> \in R <=> y < x
  BY DEF OpToRel
<1> HIDE DEF R
<1>3. PICK x \in S : \A y \in S : ~ (<<y, x>> \in R)
  BY <1>1, WFMin
<1>4. ASSUME NEW y \in S PROVE x <= y
  <2>1. x \in Nat /\ y \in Nat
    OBVIOUS
  <2>2. ~ (y < x)
    BY <1>2, <1>3, <2>1
  <2> QED
    BY <2>1, <2>2
<1> QED
  BY <1>4

\* What the proofs use of the constants.
LEMMA Sizes ==
    /\ DescSize \in Nat \ {0} /\ MinChunk \in Nat \ {0} /\ MaxChunk \in Nat \ {0}
    /\ Stride \in Nat \ {0} /\ SizeMod \in Nat \ {0}
    /\ MaxChunk <= Stride
    /\ Requests \subseteq Nat
    /\ Index \in {0, 1}
BY BuddyAssumption

LEMMA BasesFar ==
    /\ Bases \subseteq Nat \ {0}
    /\ \A x, y \in Bases : x < y => x + Stride <= y
<1>1. ASSUME NEW r \in Regions, NEW s \in Regions, r * Stride < s * Stride
      PROVE  r * Stride + Stride <= s * Stride
  <2>1. r \in Nat /\ s \in Nat /\ Stride \in Nat
    BY BuddyAssumption
  <2>2. r < s
    <3>1. SUFFICES ASSUME s <= r PROVE FALSE
      BY <2>1
    <3>2. s * Stride <= r * Stride
      BY <2>1, <3>1
    <3> QED
      BY <1>1, <2>1, <3>2
  <2>3. (r + 1) * Stride <= s * Stride
    BY <2>1, <2>2
  <2>4. (r + 1) * Stride = r * Stride + Stride
    BY <2>1
  <2> QED
    BY <2>3, <2>4
<1>2. ASSUME NEW r \in Regions PROVE r * Stride \in Nat \ {0}
  <2>1. r \in Nat \ {0} /\ Stride \in Nat \ {0}
    BY BuddyAssumption
  <2>2. 1 * Stride <= r * Stride
    BY <2>1
  <2> QED
    BY <2>1, <2>2
<1> QED
  BY <1>1, <1>2 DEF Bases, Base

\* A chunk has room for the request and its descriptor.
LEMMA ChunkHolds ==
    ASSUME NEW n \in Requests
    PROVE  ChunkSize(n) \in Nat \ {0} /\ n + DescSize <= ChunkSize(n) /\ ChunkSize(n) <= Stride
<1>1. n \in Nat /\ DescSize \in Nat \ {0} /\ MinChunk \in Nat \ {0}
  BY Sizes
<1>2. (n + DescSize) % MinChunk \in 0..(MinChunk - 1)
  BY <1>1
<1>3. ChunkSize(n) <= Stride
  BY BuddyAssumption
<1> QED
  BY <1>1, <1>2, <1>3 DEF ChunkSize, Align

-----------------------------------------------------------------------------
(* What the helpers do to the descriptors, field by field *)

LEMMA BlockFields ==
    ASSUME NEW d, Shape(d), NEW b \in DOMAIN d
    PROVE  /\ d[b] \in Blocks /\ b \in Nat \ {0}
           /\ d[b].type \in {"free", "arena", "huge"}
           /\ d[b].total \in Nat \ {0}
           /\ d[b].left \in Nat /\ d[b].right \in Nat
BY DEF Shape, Blocks

\* The rest of a block starts where no block does, its neighbour is elsewhere.
LEMMA Inside ==
    ASSUME NEW d, WellFormed(d), NEW b \in DOMAIN d, d[b].type # "huge",
           NEW size \in Nat \ {0}, size < d[b].total
    PROVE  /\ b + size \notin DOMAIN d
           /\ d[b].right # b + size /\ d[b].right # b
           /\ d[b].right # NullPtr => d[b].right \in DOMAIN d /\ d[b].right > b + size
<1>1. b \in Nat \ {0} /\ d[b].total \in Nat \ {0} /\ d[b].right \in Nat
  BY BlockFields DEF WellFormed
<1>2. b + size \notin DOMAIN d
  BY <1>1 DEF WellFormed, Apart
<1>3. d[b].right # NullPtr => d[b].right \in DOMAIN d /\ d[b].right = b + d[b].total
  BY DEF WellFormed, RightLink
<1> QED
  BY <1>1, <1>2, <1>3 DEF NullPtr

LEMMA SplitFields ==
    ASSUME NEW d, WellFormed(d), NEW b \in DOMAIN d, d[b].type # "huge",
           NEW size \in Nat \ {0}, d[b].total - size > DescSize,
           NEW e, e = Split(d, b, size)
    PROVE  /\ DOMAIN e = DOMAIN d \cup {b + size}
           /\ Shape(e)
           /\ \A x \in DOMAIN d :
                /\ e[x].type = d[x].type
                /\ e[x].total = IF x = b THEN size ELSE d[x].total
                /\ e[x].right = IF x = b THEN b + size ELSE d[x].right
                /\ e[x].left = IF x = d[b].right THEN b + size ELSE d[x].left
           /\ e[b + size] = Block("free", d[b].total - size, b, d[b].right)
<1> DEFINE rest == b + size
           old == d[b].right
           halves == [a \in {b, rest} |->
                      IF a = b THEN [d[b] EXCEPT !.right = rest, !.total = size]
                      ELSE Block("free", d[b].total - size, b, old)]
           neighbour == [a \in {old} \ {NullPtr} |-> [d[old] EXCEPT !.left = rest]]
           d1 == Saved(d, halves, {})
<1>1. b \in Nat \ {0} /\ d[b].total \in Nat \ {0} /\ old \in Nat /\ DescSize \in Nat \ {0}
  BY BlockFields, Sizes DEF WellFormed
<1>2. size < d[b].total
  BY <1>1
<1>3. /\ rest \notin DOMAIN d /\ old # rest /\ old # b
      /\ old # NullPtr => old \in DOMAIN d
  BY <1>2, Inside
<1>4. e = Saved(d1, neighbour, {})
  BY <1>1 DEF Split
<1>a. /\ DOMAIN halves = {b, rest}
      /\ halves[b] = [d[b] EXCEPT !.right = rest, !.total = size]
      /\ halves[rest] = Block("free", d[b].total - size, b, old)
  BY <1>1
<1>b. /\ DOMAIN neighbour = {old} \ {NullPtr}
      /\ old # NullPtr => neighbour[old] = [d[old] EXCEPT !.left = rest]
  OBVIOUS
<1> HIDE DEF halves, neighbour
<1>5. /\ DOMAIN d1 = DOMAIN d \cup {rest}
      /\ \A x \in DOMAIN d1 : d1[x] = IF x \in {b, rest} THEN halves[x] ELSE d[x]
  BY <1>3, <1>a DEF Saved
<1> HIDE DEF d1
<1>6. /\ DOMAIN e = DOMAIN d1 \cup ({old} \ {NullPtr})
      /\ \A x \in DOMAIN e : e[x] = IF x \in {old} \ {NullPtr} THEN neighbour[x] ELSE d1[x]
      /\ e = [x \in DOMAIN e |-> e[x]]
  BY <1>4, <1>b DEF Saved
<1>7. DOMAIN e = DOMAIN d \cup {rest}
  BY <1>3, <1>5, <1>6
<1>8. e[b] = [d[b] EXCEPT !.right = rest, !.total = size]
  BY <1>3, <1>5, <1>6, <1>7, <1>a
<1>9. e[rest] = Block("free", d[b].total - size, b, old)
  BY <1>1, <1>3, <1>5, <1>6, <1>7, <1>a
<1>10. old # NullPtr => e[old] = [d[old] EXCEPT !.left = rest]
  BY <1>3, <1>6, <1>7, <1>b
<1>11. \A x \in DOMAIN d \ {b, old} : e[x] = d[x]
  BY <1>3, <1>5, <1>6, <1>7
<1>12. \A x \in DOMAIN d : d[x] \in Blocks /\ x \in Nat \ {0}
  BY BlockFields DEF WellFormed
<1>13. NullPtr \notin DOMAIN d
  BY <1>12 DEF NullPtr
<1> HIDE DEF old
<1>14. rest \in Nat \ {0} /\ d[b].total - size \in Nat \ {0}
  BY <1>1, <1>2
<1>15. \A x \in DOMAIN e : e[x] \in Blocks /\ x \in Nat \ {0}
  <2> SUFFICES ASSUME NEW x \in DOMAIN e PROVE e[x] \in Blocks /\ x \in Nat \ {0}
    OBVIOUS
  <2>1. CASE x = b
    BY <2>1, <1>8, <1>12, <1>14 DEF Blocks
  <2>2. CASE x = rest
    BY <2>2, <1>9, <1>1, <1>14 DEF Blocks, Block
  <2>3. CASE x = old /\ x \in DOMAIN d
    BY <2>3, <1>10, <1>12, <1>13, <1>14 DEF Blocks
  <2>4. CASE x \in DOMAIN d \ {b, old}
    BY <2>4, <1>11, <1>12
  <2> QED
    BY <1>7, <2>1, <2>2, <2>3, <2>4
<1>16. Shape(e)
  BY <1>6, <1>15 DEF Shape
<1>17. ASSUME NEW x \in DOMAIN d
       PROVE  /\ e[x].type = d[x].type
              /\ e[x].total = IF x = b THEN size ELSE d[x].total
              /\ e[x].right = IF x = b THEN rest ELSE d[x].right
              /\ e[x].left = IF x = old THEN rest ELSE d[x].left
  <2>1. CASE x = b
    BY <2>1, <1>3, <1>8, <1>12 DEF Blocks
  <2>2. CASE x = old
    BY <2>2, <1>3, <1>10, <1>12, <1>13 DEF Blocks
  <2>3. CASE x \notin {b, old}
    BY <2>3, <1>11
  <2> QED
    BY <2>1, <2>2, <2>3
<1> QED
  BY <1>7, <1>9, <1>16, <1>17 DEF old

\* A block of a chunk ends inside the region it starts in.
LEMMA RegionOf ==
    ASSUME NEW d, WellFormed(d), NEW b \in DOMAIN d, d[b].type # "huge"
    PROVE  \E base \in Bases :
              /\ base \in DOMAIN d /\ d[base].type # "huge" /\ base <= b
              /\ b + d[b].total <= base + MaxChunk
              /\ \A x \in Bases : x > b => b + d[b].total <= x
<1>1. PICK base \in Bases :
          /\ base \in DOMAIN d /\ d[base].type # "huge" /\ base <= b
          /\ b + d[b].total <= base + MaxChunk
  BY DEF WellFormed, InRegion
<1>2. b \in Nat /\ d[b].total \in Nat /\ Bases \subseteq Nat /\ MaxChunk \in Nat
      /\ Stride \in Nat /\ MaxChunk <= Stride
  BY BlockFields, BasesFar, Sizes DEF WellFormed
<1>3. ASSUME NEW x \in Bases, x > b PROVE b + d[b].total <= x
  <2>1. base + Stride <= x
    BY <1>1, <1>2, <1>3, BasesFar
  <2> QED
    BY <1>1, <1>2, <2>1
<1> QED
  BY <1>1, <1>3

LEMMA SplitWF ==
    ASSUME NEW d, WellFormed(d), NEW b \in DOMAIN d, d[b].type # "huge",
           NEW size \in Nat \ {0}, d[b].total - size > DescSize,
           NEW e, e = Split(d, b, size)
    PROVE  WellFormed(e)
<1> DEFINE rest == b + size
           old == d[b].right
<1>1. /\ DOMAIN e = DOMAIN d \cup {rest}
      /\ Shape(e)
      /\ \A x \in DOMAIN d :
            /\ e[x].type = d[x].type
            /\ e[x].total = IF x = b THEN size ELSE d[x].total
            /\ e[x].right = IF x = b THEN rest ELSE d[x].right
            /\ e[x].left = IF x = old THEN rest ELSE d[x].left
      /\ e[rest] = Block("free", d[b].total - size, b, old)
  BY SplitFields
<1>2. \A x \in DOMAIN d : /\ x \in Nat \ {0} /\ d[x].total \in Nat \ {0}
                          /\ d[x].left \in Nat /\ d[x].right \in Nat
  BY BlockFields DEF WellFormed
<1>3. DescSize \in Nat \ {0} /\ size < d[b].total
  BY <1>2, Sizes
<1>4. /\ rest \notin DOMAIN d /\ old # rest /\ old # b
      /\ old # NullPtr => old \in DOMAIN d /\ old > rest
  BY <1>3, Inside
<1>5. /\ e[rest].type = "free" /\ e[rest].total = d[b].total - size
      /\ e[rest].left = b /\ e[rest].right = old
  BY <1>1 DEF Block
<1>6. rest \in Nat \ {0} /\ rest > b /\ rest + e[rest].total = b + d[b].total
  BY <1>2, <1>3, <1>5
<1> HIDE DEF rest
<1>7. Apart(e)
  <2> SUFFICES ASSUME NEW x \in DOMAIN e, NEW y \in DOMAIN e, x < y
               PROVE  x + e[x].total <= y
    BY DEF Apart
  <2>1. CASE x \in DOMAIN d /\ y \in DOMAIN d
    <3>1. x + d[x].total <= y
      BY <2>1 DEF WellFormed, Apart
    <3> QED
      BY <2>1, <3>1, <1>1, <1>2, <1>3
  <2>2. CASE x = rest /\ y \in DOMAIN d
    <3>1. b + d[b].total <= y
      BY <2>2, <1>2, <1>6 DEF WellFormed, Apart
    <3> QED
      BY <2>2, <3>1, <1>6
  <2>3. CASE x \in DOMAIN d /\ y = rest
    <3>1. CASE x = b
      BY <2>3, <3>1, <1>1, <1>2, <1>6 DEF rest
    <3>2. CASE x < b
      <4>1. x + d[x].total <= b
        BY <2>3, <3>2 DEF WellFormed, Apart
      <4> QED
        BY <2>3, <3>2, <4>1, <1>1, <1>2, <1>6
    <3>3. CASE x > b
      <4>1. b + d[b].total <= x
        BY <2>3, <3>3, <1>2 DEF WellFormed, Apart
      <4> QED
        BY <2>3, <4>1, <1>2, <1>3 DEF rest
    <3> QED
      BY <3>1, <3>2, <3>3, <2>3, <1>2
  <2>4. CASE x = rest /\ y = rest
    BY <2>4, <1>6
  <2> QED
    BY <1>1, <2>1, <2>2, <2>3, <2>4
<1>8. PICK base \in Bases :
          /\ base \in DOMAIN d /\ d[base].type # "huge" /\ base <= b
          /\ b + d[b].total <= base + MaxChunk
          /\ \A x \in Bases : x > b => b + d[b].total <= x
  BY RegionOf
<1>9. rest \notin Bases
  BY <1>2, <1>3, <1>6, <1>8 DEF rest
<1>10. InRegion(e)
  <2> SUFFICES ASSUME NEW x \in DOMAIN e
               PROVE  \E c \in Bases :
                        /\ c \in DOMAIN e /\ c <= x
                        /\ IF e[x].type = "huge" THEN x = c /\ x + e[x].total <= c + Stride
                           ELSE e[c].type # "huge" /\ x + e[x].total <= c + MaxChunk
    BY DEF InRegion
  <2>1. CASE x = rest
    BY <2>1, <1>1, <1>2, <1>5, <1>6, <1>8
  <2>2. CASE x = b
    BY <2>2, <1>1, <1>2, <1>3, <1>8, BasesFar, Sizes
  <2>3. CASE x \in DOMAIN d \ {b}
    BY <2>3, <1>1 DEF WellFormed, InRegion
  <2> QED
    BY <1>1, <2>1, <2>2, <2>3
<1>11. LeftLink(e)
  <2> SUFFICES ASSUME NEW x \in DOMAIN e, e[x].type # "huge"
               PROVE  IF e[x].left = NullPtr THEN x \in Bases
                      ELSE x \notin Bases /\ e[x].left \in DOMAIN e /\ e[e[x].left].right = x
    BY DEF LeftLink
  <2>1. CASE x = rest
    BY <2>1, <1>1, <1>2, <1>5, <1>9 DEF NullPtr
  <2>2. CASE x = old /\ x \in DOMAIN d
    <3>1. d[old].left = b
      BY <2>2, <1>2 DEF WellFormed, RightLink, NullPtr
    <3>2. old \notin Bases
      BY <2>2, <3>1, <1>1, <1>2 DEF WellFormed, LeftLink, NullPtr
    <3> QED
      BY <2>2, <3>2, <1>1, <1>5, <1>6 DEF NullPtr
  <2>3. CASE x \in DOMAIN d /\ x # old
    <3>1. e[x].left = d[x].left /\ d[x].type # "huge"
      BY <2>3, <1>1
    <3>2. IF d[x].left = NullPtr THEN x \in Bases
          ELSE x \notin Bases /\ d[x].left \in DOMAIN d /\ d[d[x].left].right = x
      BY <2>3, <3>1 DEF WellFormed, LeftLink
    <3> QED
      BY <2>3, <3>1, <3>2, <1>1
  <2> QED
    BY <1>1, <2>1, <2>2, <2>3
<1>12. RightLink(e)
  <2> SUFFICES ASSUME NEW x \in DOMAIN e, e[x].type # "huge"
               PROVE  IF e[x].right = NullPtr THEN \E c \in Bases : x + e[x].total = c + MaxChunk
                      ELSE /\ e[x].right = x + e[x].total
                           /\ e[x].right \in DOMAIN e
                           /\ e[e[x].right].left = x
    BY DEF RightLink
  <2>1. CASE x = rest
    <3>1. IF old = NullPtr THEN \E c \in Bases : b + d[b].total = c + MaxChunk
          ELSE old = b + d[b].total /\ old \in DOMAIN d
      BY DEF WellFormed, RightLink
    <3> QED
      BY <2>1, <3>1, <1>1, <1>5, <1>6
  <2>2. CASE x = b
    BY <2>2, <1>1, <1>5, <1>6 DEF rest, NullPtr
  <2>3. CASE x \in DOMAIN d \ {b}
    <3>1. e[x].right = d[x].right /\ d[x].type # "huge" /\ e[x].total = d[x].total
      BY <2>3, <1>1
    <3>2. IF d[x].right = NullPtr THEN \E c \in Bases : x + d[x].total = c + MaxChunk
          ELSE /\ d[x].right = x + d[x].total
               /\ d[x].right \in DOMAIN d
               /\ d[d[x].right].left = x
      BY <2>3, <3>1 DEF WellFormed, RightLink
    <3>3. d[x].right = old => old = NullPtr
      <4>1. old # NullPtr => d[old].left = b
        BY DEF WellFormed, RightLink
      <4> QED
        BY <2>3, <3>2, <4>1
    <3> QED
      BY <2>3, <3>1, <3>2, <3>3, <1>1
  <2> QED
    BY <1>1, <2>1, <2>2, <2>3
<1>13. HugeAlone(e)
  <2> SUFFICES ASSUME NEW x \in DOMAIN e, e[x].type = "huge"
               PROVE  e[x].left = NullPtr /\ e[x].right = NullPtr
    BY DEF HugeAlone
  <2>1. x \in DOMAIN d /\ d[x].type = "huge" /\ x # b
    BY <1>1, <1>5
  <2>2. x # old
    <3>1. x = old => d[x].left = b
      BY <2>1, <1>2 DEF WellFormed, RightLink, NullPtr
    <3> QED
      BY <2>1, <3>1, <1>2 DEF WellFormed, HugeAlone, NullPtr
  <2> QED
    BY <2>1, <2>2, <1>1 DEF WellFormed, HugeAlone
<1> QED
  BY <1>1, <1>7, <1>10, <1>11, <1>12, <1>13 DEF WellFormed

\* The right buddy of a block, and the one behind it.
LEMMA Buddies ==
    ASSUME NEW d, WellFormed(d), NEW b \in DOMAIN d, d[b].right # NullPtr,
           NEW gone, gone = d[b].right, NEW next, next = d[gone].right
    PROVE  /\ gone \in DOMAIN d /\ gone # b /\ gone = b + d[b].total
           /\ d[b].type # "huge" /\ d[gone].type # "huge" /\ d[gone].left = b
           /\ next # b /\ next # gone
           /\ next # NullPtr => /\ next \in DOMAIN d /\ d[next].left = gone
                               /\ next = gone + d[gone].total
<1>1. d[b].type # "huge"
  BY DEF WellFormed, HugeAlone
<1>2. gone \in DOMAIN d /\ gone = b + d[b].total /\ d[gone].left = b
  BY <1>1 DEF WellFormed, RightLink
<1>3. /\ b \in Nat \ {0} /\ d[b].total \in Nat \ {0}
      /\ gone \in Nat \ {0} /\ d[gone].total \in Nat \ {0}
  BY <1>2, BlockFields DEF WellFormed
<1>4. d[gone].type # "huge"
  BY <1>2, <1>3 DEF WellFormed, HugeAlone, NullPtr
<1>5. next # NullPtr => /\ next \in DOMAIN d /\ d[next].left = gone
                        /\ next = gone + d[gone].total
  BY <1>2, <1>4 DEF WellFormed, RightLink
<1> QED
  BY <1>1, <1>2, <1>3, <1>4, <1>5 DEF NullPtr

LEMMA MergeFields ==
    ASSUME NEW d, WellFormed(d), NEW b \in DOMAIN d, d[b].right # NullPtr,
           NEW gone, gone = d[b].right, NEW next, next = d[gone].right,
           NEW e, e = Merge(d, b)
    PROVE  /\ DOMAIN e = DOMAIN d \ {gone}
           /\ Shape(e)
           /\ \A x \in DOMAIN e :
                /\ e[x].type = d[x].type
                /\ e[x].total = IF x = b THEN d[b].total + d[gone].total ELSE d[x].total
                /\ e[x].right = IF x = b THEN next ELSE d[x].right
                /\ e[x].left = IF x = next THEN b ELSE d[x].left
<1> DEFINE total == d[b].total + d[gone].total
           joined == [a \in {b} |-> [d[b] EXCEPT !.right = next, !.total = @ + d[gone].total]]
           neighbour == [a \in {next} \ {NullPtr} |-> [d[next] EXCEPT !.left = b]]
           d1 == Saved(d, joined, {})
<1>1. /\ gone \in DOMAIN d /\ gone # b /\ next # b /\ next # gone
      /\ next # NullPtr => next \in DOMAIN d
  BY Buddies
<1>2. \A x \in DOMAIN d : d[x] \in Blocks /\ x \in Nat \ {0}
  BY BlockFields DEF WellFormed
<1>3. e = Saved(d1, neighbour, {gone})
  BY DEF Merge
<1>4. DOMAIN joined = {b} /\ joined[b] = [d[b] EXCEPT !.right = next, !.total = total]
  BY <1>2 DEF Blocks
<1>5. /\ DOMAIN neighbour = {next} \ {NullPtr}
      /\ next # NullPtr => neighbour[next] = [d[next] EXCEPT !.left = b]
  OBVIOUS
<1> HIDE DEF joined, neighbour
<1>6. /\ DOMAIN d1 = DOMAIN d
      /\ \A x \in DOMAIN d1 : d1[x] = IF x = b THEN joined[x] ELSE d[x]
  BY <1>4 DEF Saved
<1> HIDE DEF d1
<1>7. /\ DOMAIN e = (DOMAIN d1 \cup ({next} \ {NullPtr})) \ {gone}
      /\ \A x \in DOMAIN e : e[x] = IF x \in {next} \ {NullPtr} THEN neighbour[x] ELSE d1[x]
      /\ e = [x \in DOMAIN e |-> e[x]]
  BY <1>3, <1>5 DEF Saved
<1>8. DOMAIN e = DOMAIN d \ {gone}
  BY <1>1, <1>6, <1>7
<1>9. e[b] = [d[b] EXCEPT !.right = next, !.total = total]
  BY <1>1, <1>4, <1>6, <1>7, <1>8
<1>10. next # NullPtr => e[next] = [d[next] EXCEPT !.left = b]
  BY <1>1, <1>5, <1>7, <1>8
<1>11. \A x \in DOMAIN e \ {b, next} : e[x] = d[x]
  BY <1>6, <1>7, <1>8
<1>12. NullPtr \notin DOMAIN d /\ total \in Nat \ {0} /\ next \in Nat
  BY <1>1, <1>2 DEF NullPtr, Blocks
<1> HIDE DEF total
<1>13. ASSUME NEW x \in DOMAIN e
       PROVE  /\ e[x] \in Blocks
              /\ e[x].type = d[x].type
              /\ e[x].total = IF x = b THEN total ELSE d[x].total
              /\ e[x].right = IF x = b THEN next ELSE d[x].right
              /\ e[x].left = IF x = next THEN b ELSE d[x].left
  <2>1. CASE x = b
    BY <2>1, <1>1, <1>2, <1>9, <1>12 DEF Blocks
  <2>2. CASE x = next
    BY <2>2, <1>1, <1>2, <1>8, <1>10, <1>12 DEF Blocks
  <2>3. CASE x \notin {b, next}
    BY <2>3, <1>2, <1>8, <1>11
  <2> QED
    BY <2>1, <2>2, <2>3
<1>14. Shape(e)
  BY <1>2, <1>7, <1>8, <1>13 DEF Shape
<1> QED
  BY <1>8, <1>13, <1>14 DEF total

LEMMA MergeWF ==
    ASSUME NEW d, WellFormed(d), NEW b \in DOMAIN d, d[b].right # NullPtr,
           NEW e, e = Merge(d, b)
    PROVE  WellFormed(e)
<1> DEFINE gone == d[b].right
           next == d[gone].right
<1>1. /\ DOMAIN e = DOMAIN d \ {gone}
      /\ Shape(e)
      /\ \A x \in DOMAIN e :
            /\ e[x].type = d[x].type
            /\ e[x].total = IF x = b THEN d[b].total + d[gone].total ELSE d[x].total
            /\ e[x].right = IF x = b THEN next ELSE d[x].right
            /\ e[x].left = IF x = next THEN b ELSE d[x].left
  BY MergeFields
<1>2. \A x \in DOMAIN d : /\ x \in Nat \ {0} /\ d[x].total \in Nat \ {0}
                          /\ d[x].left \in Nat /\ d[x].right \in Nat
  BY BlockFields DEF WellFormed
<1>3. /\ gone \in DOMAIN d /\ gone # b /\ gone = b + d[b].total
      /\ d[b].type # "huge" /\ d[gone].type # "huge" /\ d[gone].left = b
      /\ next # b /\ next # gone
      /\ next # NullPtr => /\ next \in DOMAIN d /\ d[next].left = gone
                          /\ next = gone + d[gone].total
  BY Buddies
<1> HIDE DEF gone, next
<1>4. b \in DOMAIN e /\ b + e[b].total = gone + d[gone].total
  BY <1>1, <1>2, <1>3
<1>5. Apart(e)
  <2> SUFFICES ASSUME NEW x \in DOMAIN e, NEW y \in DOMAIN e, x < y
               PROVE  x + e[x].total <= y
    BY DEF Apart
  <2>1. x \in DOMAIN d /\ y \in DOMAIN d /\ y # gone /\ x + d[x].total <= y
    BY <1>1 DEF WellFormed, Apart
  <2>2. CASE x = b
    <3>1. gone < y
      BY <2>1, <2>2, <1>2, <1>3
    <3>2. gone + d[gone].total <= y
      BY <2>1, <3>1, <1>3 DEF WellFormed, Apart
    <3> QED
      BY <2>2, <3>2, <1>4
  <2>3. CASE x # b
    BY <2>1, <2>3, <1>1
  <2> QED
    BY <2>2, <2>3
<1>6. gone \notin Bases
  BY <1>2, <1>3 DEF WellFormed, LeftLink, NullPtr
<1>7. InRegion(e)
  <2> SUFFICES ASSUME NEW x \in DOMAIN e
               PROVE  \E c \in Bases :
                        /\ c \in DOMAIN e /\ c <= x
                        /\ IF e[x].type = "huge" THEN x = c /\ x + e[x].total <= c + Stride
                           ELSE e[c].type # "huge" /\ x + e[x].total <= c + MaxChunk
    BY DEF InRegion
  <2>1. CASE x = b
    <3>1. PICK c \in Bases :
              /\ c \in DOMAIN d /\ d[c].type # "huge" /\ c <= gone
              /\ gone + d[gone].total <= c + MaxChunk
      BY <1>3, RegionOf
    <3>2. \A y \in Bases : y > b => gone <= y
      BY <1>3, RegionOf
    <3>3. c \in Nat /\ b \in Nat /\ gone \in Nat
      BY <1>2, <1>3, BasesFar
    <3>4. c <= b
      BY <3>1, <3>2, <3>3, <1>6
    <3> QED
      BY <2>1, <3>1, <3>4, <1>1, <1>3, <1>4, <1>6
  <2>2. CASE x # b
    <3>1. x \in DOMAIN d /\ e[x].type = d[x].type /\ e[x].total = d[x].total
      BY <2>2, <1>1
    <3>2. PICK c \in Bases :
            /\ c \in DOMAIN d /\ c <= x
            /\ IF d[x].type = "huge" THEN x = c /\ x + d[x].total <= c + Stride
               ELSE d[c].type # "huge" /\ x + d[x].total <= c + MaxChunk
      BY <3>1 DEF WellFormed, InRegion
    <3> QED
      BY <3>1, <3>2, <1>1, <1>6
  <2> QED
    BY <2>1, <2>2
<1>8. LeftLink(e)
  <2> SUFFICES ASSUME NEW x \in DOMAIN e, e[x].type # "huge"
               PROVE  IF e[x].left = NullPtr THEN x \in Bases
                      ELSE x \notin Bases /\ e[x].left \in DOMAIN e /\ e[e[x].left].right = x
    BY DEF LeftLink
  <2>1. x \in DOMAIN d /\ x # gone /\ d[x].type # "huge"
    BY <1>1
  <2>2. IF d[x].left = NullPtr THEN x \in Bases
        ELSE x \notin Bases /\ d[x].left \in DOMAIN d /\ d[d[x].left].right = x
    BY <2>1 DEF WellFormed, LeftLink
  <2>3. CASE x = next
    BY <2>1, <2>2, <2>3, <1>1, <1>2, <1>3, <1>4 DEF NullPtr
  <2>4. CASE x # next
    <3>1. e[x].left = d[x].left
      BY <2>4, <1>1
    <3>2. d[x].left # NullPtr => d[x].left # gone /\ d[x].left # b
      BY <2>1, <2>2, <2>4 DEF gone, next
    <3> QED
      BY <2>2, <3>1, <3>2, <1>1
  <2> QED
    BY <2>3, <2>4
<1>9. RightLink(e)
  <2> SUFFICES ASSUME NEW x \in DOMAIN e, e[x].type # "huge"
               PROVE  IF e[x].right = NullPtr THEN \E c \in Bases : x + e[x].total = c + MaxChunk
                      ELSE /\ e[x].right = x + e[x].total
                           /\ e[x].right \in DOMAIN e
                           /\ e[e[x].right].left = x
    BY DEF RightLink
  <2>1. x \in DOMAIN d /\ x # gone /\ d[x].type # "huge"
    BY <1>1
  <2>2. CASE x = b
    <3>1. next = NullPtr => \E c \in Bases : gone + d[gone].total = c + MaxChunk
      BY <1>3 DEF WellFormed, RightLink, next
    <3> QED
      BY <2>2, <3>1, <1>1, <1>3, <1>4
  <2>3. CASE x # b
    <3>1. e[x].right = d[x].right /\ e[x].total = d[x].total
      BY <2>3, <1>1
    <3>2. IF d[x].right = NullPtr THEN \E c \in Bases : x + d[x].total = c + MaxChunk
          ELSE /\ d[x].right = x + d[x].total
               /\ d[x].right \in DOMAIN d
               /\ d[d[x].right].left = x
      BY <2>1 DEF WellFormed, RightLink
    <3>3. d[x].right # NullPtr => d[x].right # gone /\ d[x].right # next
      BY <2>1, <2>3, <3>2, <1>3
    <3> QED
      BY <3>1, <3>2, <3>3, <1>1
  <2> QED
    BY <2>2, <2>3
<1>10. HugeAlone(e)
  <2> SUFFICES ASSUME NEW x \in DOMAIN e, e[x].type = "huge"
               PROVE  e[x].left = NullPtr /\ e[x].right = NullPtr
    BY DEF HugeAlone
  <2>1. /\ x \in DOMAIN d /\ d[x].type = "huge" /\ x # b
        /\ d[x].left = NullPtr /\ d[x].right = NullPtr
    BY <1>1, <1>3 DEF WellFormed, HugeAlone
  <2>2. x # next
    BY <2>1, <1>2, <1>3 DEF NullPtr
  <2> QED
    BY <2>1, <2>2, <1>1
<1> QED
  BY <1>1, <1>5, <1>7, <1>8, <1>9, <1>10 DEF WellFormed

\* A new block at the start of a region that is not on loan.
NewChunk(d, b, type, total) ==
    Saved(d, [a \in {b} |-> Block(type, total, NullPtr, NullPtr)], {})

FitsRegion(type, total) ==
    /\ total \in Nat \ {0} /\ total <= Stride
    /\ type = "huge" \/ (type = "free" /\ total = MaxChunk)

LEMMA ChunkWF ==
    ASSUME NEW d, WellFormed(d), NEW b \in Bases \ DOMAIN d,
           NEW type, NEW total, FitsRegion(type, total),
           NEW e, e = NewChunk(d, b, type, total)
    PROVE  /\ WellFormed(e)
           /\ DOMAIN e = DOMAIN d \cup {b}
           /\ e[b] = Block(type, total, NullPtr, NullPtr)
           /\ \A x \in DOMAIN d : e[x] = d[x]
<1>1. /\ DOMAIN e = DOMAIN d \cup {b}
      /\ e[b] = Block(type, total, NullPtr, NullPtr)
      /\ \A x \in DOMAIN d : e[x] = d[x]
      /\ e = [x \in DOMAIN e |-> e[x]]
  BY DEF Saved, NewChunk
<1>2. \A x \in DOMAIN d : /\ d[x] \in Blocks /\ x \in Nat \ {0} /\ d[x].total \in Nat \ {0}
                          /\ d[x].left \in Nat /\ d[x].right \in Nat
  BY BlockFields DEF WellFormed
<1>3. b \in Nat \ {0} /\ Stride \in Nat /\ MaxChunk \in Nat /\ MaxChunk <= Stride
  BY BasesFar, Sizes
<1>4. /\ e[b].type = type /\ e[b].total = total
      /\ e[b].left = NullPtr /\ e[b].right = NullPtr /\ e[b] \in Blocks
  BY <1>1 DEF Block, Blocks, NullPtr, FitsRegion
<1>5. Shape(e)
  BY <1>1, <1>2, <1>3, <1>4 DEF Shape
<1>6. ASSUME NEW x \in DOMAIN d
      PROVE  (x < b => x + d[x].total <= b) /\ (b < x => b + total <= x)
  <2>1. PICK c \in Bases : c \in DOMAIN d /\ c <= x /\ x + d[x].total <= c + Stride
    BY <1>2, <1>3, BasesFar DEF WellFormed, InRegion
  <2>2. c \in Nat /\ c # b /\ (c < b => c + Stride <= b) /\ (b < c => b + Stride <= c)
    BY <2>1, BasesFar
  <2> QED
    BY <2>1, <2>2, <1>2, <1>3 DEF FitsRegion
<1>7. Apart(e)
  <2> SUFFICES ASSUME NEW x \in DOMAIN e, NEW y \in DOMAIN e, x < y
               PROVE  x + e[x].total <= y
    BY DEF Apart
  <2>1. CASE x \in DOMAIN d /\ y \in DOMAIN d
    BY <2>1, <1>1 DEF WellFormed, Apart
  <2>2. CASE x = b \/ y = b
    BY <2>2, <1>1, <1>3, <1>4, <1>6
  <2> QED
    BY <2>1, <2>2, <1>1
<1>8. InRegion(e)
  BY <1>1, <1>3, <1>4 DEF WellFormed, InRegion, FitsRegion
<1>9. LeftLink(e)
  BY <1>1, <1>2, <1>4 DEF WellFormed, LeftLink
<1>10. RightLink(e)
  BY <1>1, <1>2, <1>4 DEF WellFormed, RightLink, FitsRegion
<1>11. HugeAlone(e)
  BY <1>1, <1>4 DEF WellFormed, HugeAlone
<1> QED
  BY <1>1, <1>5, <1>7, <1>8, <1>9, <1>10, <1>11 DEF WellFormed

\* The type of a block of a chunk changes.
Retype(d, b, type) == [d EXCEPT ![b].type = type]

Retyped(d, e, b, type) ==
    /\ DOMAIN e = DOMAIN d
    /\ \A x \in DOMAIN d : /\ e[x].type = IF x = b THEN type ELSE d[x].type
                           /\ e[x].total = d[x].total
                           /\ e[x].left = d[x].left /\ e[x].right = d[x].right

LEMMA RetypeWF ==
    ASSUME NEW d, WellFormed(d), NEW b \in DOMAIN d, d[b].type # "huge",
           NEW type \in {"free", "arena"},
           NEW e, e = Retype(d, b, type)
    PROVE  WellFormed(e) /\ Retyped(d, e, b, type)
<1>0. e = [d EXCEPT ![b].type = type]
  BY DEF Retype
<1>1. \A x \in DOMAIN d : d[x] \in Blocks /\ x \in Nat \ {0}
  BY BlockFields DEF WellFormed
<1>2. d \in [DOMAIN d -> Blocks]
  BY DEF WellFormed, Shape
<1>3. e \in [DOMAIN d -> Blocks] /\ DOMAIN e = DOMAIN d
  BY <1>0, <1>2 DEF Blocks
<1>4. /\ e[b] = [d[b] EXCEPT !.type = type]
      /\ \A x \in DOMAIN d \ {b} : e[x] = d[x]
  BY <1>0, <1>2
<1>5. \A x \in DOMAIN d : /\ e[x].type = IF x = b THEN type ELSE d[x].type
                          /\ e[x].total = d[x].total
                          /\ e[x].left = d[x].left /\ e[x].right = d[x].right
  BY <1>1, <1>4 DEF Blocks
<1>6. \A x \in DOMAIN d : e[x].type = "huge" <=> d[x].type = "huge"
  BY <1>5
<1>7. Shape(e)
  BY <1>1, <1>3 DEF Shape
<1>8. Apart(e)
  BY <1>3, <1>5 DEF WellFormed, Apart
<1>9. InRegion(e)
  BY <1>3, <1>5, <1>6 DEF WellFormed, InRegion
<1>10. LeftLink(e)
  BY <1>3, <1>5, <1>6 DEF WellFormed, LeftLink
<1>11. RightLink(e)
  BY <1>3, <1>5, <1>6 DEF WellFormed, RightLink
<1>12. HugeAlone(e)
  BY <1>3, <1>5, <1>6 DEF WellFormed, HugeAlone
<1> QED
  BY <1>3, <1>5, <1>7, <1>8, <1>9, <1>10, <1>11, <1>12 DEF WellFormed, Retyped

\* A block of at least max_chunk_size_ is a whole chunk.
LEMMA WholeChunk ==
    ASSUME NEW d, WellFormed(d), NEW b \in DOMAIN d, d[b].type # "huge",
           d[b].total >= MaxChunk
    PROVE  /\ b \in Bases /\ d[b].total = MaxChunk
           /\ d[b].left = NullPtr /\ d[b].right = NullPtr
<1>1. PICK base \in Bases : base <= b /\ b + d[b].total <= base + MaxChunk
  BY RegionOf
<1>2. /\ b \in Nat \ {0} /\ d[b].total \in Nat \ {0} /\ base \in Nat
      /\ MaxChunk \in Nat \ {0} /\ Stride \in Nat /\ MaxChunk <= Stride
  BY BlockFields, BasesFar, Sizes DEF WellFormed
<1>3. b = base /\ d[b].total = MaxChunk
  BY <1>1, <1>2
<1>4. d[b].left = NullPtr
  BY <1>3 DEF WellFormed, LeftLink
<1>5. ASSUME d[b].right # NullPtr PROVE FALSE
  <2> DEFINE r == d[b].right
  <2>1. r \in DOMAIN d /\ r = b + MaxChunk /\ d[r].left = b /\ d[r].type # "huge"
    BY <1>3, <1>5, Buddies
  <2>2. r \notin Bases
    BY <2>1, <1>2 DEF WellFormed, LeftLink, NullPtr
  <2>3. PICK c \in Bases : c <= r /\ r + d[r].total <= c + MaxChunk
    BY <2>1, RegionOf
  <2>4. c \in Nat /\ r \in Nat /\ d[r].total \in Nat \ {0}
    BY <2>1, BasesFar, BlockFields DEF WellFormed
  <2> HIDE DEF r
  <2>5. c > b
    BY <2>1, <2>3, <2>4, <1>2
  <2>6. b + Stride <= c
    BY <2>5, <1>3, BasesFar
  <2> QED
    BY <2>1, <2>2, <2>3, <2>4, <2>6, <1>2
<1> QED
  BY <1>3, <1>4, <1>5

\* Huge blocks and whole chunks are given back.
Remove(d, S) == Saved(d, [a \in {} |-> 0], S)

WholeOnly(d, S) ==
    \A s \in S : s \in DOMAIN d /\ (d[s].type = "huge" \/ d[s].total >= MaxChunk)

Removed(d, e, S) == DOMAIN e = DOMAIN d \ S /\ \A x \in DOMAIN e : e[x] = d[x]

LEMMA RemoveWF ==
    ASSUME NEW d, WellFormed(d), NEW S, WholeOnly(d, S), NEW e, e = Remove(d, S)
    PROVE  WellFormed(e) /\ Removed(d, e, S)
<1>1. /\ DOMAIN e = DOMAIN d \ S
      /\ \A x \in DOMAIN e : e[x] = d[x]
      /\ e = [x \in DOMAIN e |-> e[x]]
  BY DEF Saved, Remove
<1>2. \A x \in DOMAIN d : /\ d[x] \in Blocks /\ x \in Nat \ {0} /\ d[x].total \in Nat \ {0}
                          /\ d[x].left \in Nat /\ d[x].right \in Nat
  BY BlockFields DEF WellFormed
<1>3. \A s \in S : d[s].left = NullPtr /\ d[s].right = NullPtr
  BY WholeChunk DEF WellFormed, HugeAlone, WholeOnly
<1>4. Shape(e)
  BY <1>1, <1>2 DEF Shape
<1>5. Apart(e)
  BY <1>1 DEF WellFormed, Apart
<1>6. InRegion(e)
  <2> SUFFICES ASSUME NEW x \in DOMAIN e
               PROVE  \E c \in Bases :
                        /\ c \in DOMAIN e /\ c <= x
                        /\ IF e[x].type = "huge" THEN x = c /\ x + e[x].total <= c + Stride
                           ELSE e[c].type # "huge" /\ x + e[x].total <= c + MaxChunk
    BY DEF InRegion
  <2>1. x \in DOMAIN d \ S /\ e[x] = d[x]
    BY <1>1
  <2>2. PICK c \in Bases :
            /\ c \in DOMAIN d /\ c <= x
            /\ IF d[x].type = "huge" THEN x = c /\ x + d[x].total <= c + Stride
               ELSE d[c].type # "huge" /\ x + d[x].total <= c + MaxChunk
    BY <2>1 DEF WellFormed, InRegion
  <2>3. ASSUME c \in S PROVE FALSE
    <3>1. c # x /\ d[c].type # "huge" /\ d[c].total >= MaxChunk
      BY <2>1, <2>2, <2>3 DEF WholeOnly
    <3>2. c + d[c].total <= x
      BY <2>1, <2>2, <3>1, <1>2 DEF WellFormed, Apart
    <3>3. x + d[x].total <= c + MaxChunk
      BY <2>2, <3>1
    <3> QED
      BY <2>1, <2>2, <3>1, <3>2, <3>3, <1>2, Sizes
  <2> QED
    BY <2>1, <2>2, <2>3, <1>1
<1>7. LeftLink(e)
  BY <1>1, <1>2, <1>3 DEF WellFormed, LeftLink, NullPtr
<1>8. RightLink(e)
  BY <1>1, <1>2, <1>3 DEF WellFormed, RightLink, NullPtr
<1>9. HugeAlone(e)
  BY <1>1 DEF WellFormed, HugeAlone
<1> QED
  BY <1>1, <1>4, <1>5, <1>6, <1>7, <1>8, <1>9 DEF WellFormed, Removed

-----------------------------------------------------------------------------
(* The search in the pool *)

\* What the search needs to know of the pool.
Entries(p) == p \subseteq {Index} \X (Nat \ {0}) \X (Nat \ {0})

LEMMA EntryFields ==
    ASSUME NEW p, Entries(p), NEW x \in p
    PROVE  x[1] = Index /\ x[2] \in Nat \ {0} /\ x[3] \in Nat \ {0} /\ x # None
BY DEF Entries, None

LEMMA PoolEntries ==
    ASSUME NEW d, WellFormed(d)
    PROVE  /\ Entries(PoolOf(d))
           /\ \A x \in PoolOf(d) : /\ x[3] \in FreeBlocks(d) /\ x = Entry(d, x[3])
                                   /\ x[2] = d[x[3]].total
<1>1. ASSUME NEW b \in FreeBlocks(d)
      PROVE  /\ Entry(d, b) \in {Index} \X (Nat \ {0}) \X (Nat \ {0})
             /\ Entry(d, b)[3] = b /\ Entry(d, b)[2] = d[b].total
  <2>1. b \in Nat \ {0} /\ d[b].total \in Nat \ {0}
    BY BlockFields DEF WellFormed, FreeBlocks
  <2> QED
    BY <2>1 DEF Entry
<1> QED
  BY <1>1 DEF PoolOf, Entries

\* CHOOSE finds the first entry that is not below x: there is one.
LEMMA LowerBoundIs ==
    ASSUME Entries(pool), NEW x,
           NEW above, above = {y \in pool : ~ Less(y, x)}, above # {}
    PROVE  /\ LowerBound(x) \in above
           /\ \A z \in above : LowerBound(x)[2] <= z[2]
<1> DEFINE sizes == {y[2] : y \in above}
<1>1. \A y \in above : y[1] = Index /\ y[2] \in Nat /\ y[3] \in Nat
  BY EntryFields
<1>2. PICK s \in sizes : \A t \in sizes : s <= t
  <2>1. sizes \subseteq Nat /\ sizes # {}
    BY <1>1
  <2> QED
    BY <2>1, Smallest
<1> DEFINE addresses == {y[3] : y \in {z \in above : z[2] = s}}
<1>3. PICK a \in addresses : \A t \in addresses : a <= t
  <2>1. addresses \subseteq Nat /\ addresses # {}
    BY <1>1
  <2> QED
    BY <2>1, Smallest
<1>4. PICK m \in above : m[2] = s /\ m[3] = a
  OBVIOUS
<1>5. \A z \in above : m[2] <= z[2] /\ (z[2] = m[2] => m[3] <= z[3])
  BY <1>2, <1>3, <1>4
<1>6. Index \in Nat
  BY Sizes
<1>7. \A z \in above : ~ Less(z, m)
  BY <1>1, <1>4, <1>5, <1>6 DEF Less
<1>8. LowerBound(x) = CHOOSE y \in above : \A z \in above : ~ Less(z, y)
  BY DEF LowerBound
<1>9. LowerBound(x) \in above /\ \A z \in above : ~ Less(z, LowerBound(x))
  BY <1>4, <1>7, <1>8
<1>10. ASSUME NEW z \in above PROVE LowerBound(x)[2] <= z[2]
  <2> DEFINE l == LowerBound(x)
  <2>1. /\ l[1] = Index /\ l[2] \in Nat /\ z[1] = Index /\ z[2] \in Nat
        /\ ~ Less(z, l)
    BY <1>1, <1>9
  <2> HIDE DEF l
  <2>2. l[2] <= z[2]
    BY <2>1, <1>6 DEF Less
  <2> QED
    BY <2>2 DEF l
<1> QED
  BY <1>9, <1>10

LEMMA LowerBoundNone ==
    ASSUME NEW x, {y \in pool : ~ Less(y, x)} = {}
    PROVE  LowerBound(x) = None
BY DEF LowerBound

\* FindExistChunk finds the smallest block that is large enough.
LEMMA Found ==
    ASSUME Entries(pool), NEW size \in Nat \ {0},
           NEW it, it = FindExistChunk(size)
    PROVE  \/ it = None /\ \A x \in pool : ~ (x[2] >= size)
           \/ /\ it # None /\ it \in pool /\ it[2] >= size
              /\ \A x \in pool : x[2] >= size => it[2] <= x[2]
<1> DEFINE fitting == {x \in pool : x[2] >= size}
           first == LowerBound(<<0, size, NullPtr>>)
<1> SUFFICES IF fitting = {} THEN it = None
             ELSE it \in fitting /\ \A x \in fitting : it[2] <= x[2]
  BY EntryFields
<1>1. \A y \in pool : y[1] = Index /\ y[2] \in Nat \ {0} /\ y[3] \in Nat \ {0} /\ y # None
  BY EntryFields
<1>2. it = IF first # None /\ first[1] > 0 /\ first[2] < size
             THEN LowerBound(<<first[1], size, NullPtr>>)
             ELSE first
  BY DEF FindExistChunk
<1>3. {y \in pool : ~ Less(y, <<Index, size, NullPtr>>)} = fitting
  <2>1. Index \in Nat
    BY Sizes
  <2>2. \A y \in pool : Less(y, <<Index, size, NullPtr>>) <=> y[2] < size
    BY <1>1, <2>1 DEF Less, NullPtr
  <2> QED
    BY <1>1, <2>2
<1>4. IF fitting = {} THEN LowerBound(<<Index, size, NullPtr>>) = None
      ELSE /\ LowerBound(<<Index, size, NullPtr>>) \in fitting
           /\ \A x \in fitting : LowerBound(<<Index, size, NullPtr>>)[2] <= x[2]
  BY <1>3, LowerBoundIs, LowerBoundNone
<1>5. CASE Index = 0
  <2>1. first # None => first[1] = 0
    BY <1>1, <1>4, <1>5
  <2>2. it = first
    BY <1>2, <2>1
  <2> QED
    BY <1>4, <1>5, <2>2
<1>6. CASE Index = 1
  <2>1. {y \in pool : ~ Less(y, <<0, size, NullPtr>>)} = pool
    BY <1>1, <1>6 DEF Less
  <2>2. CASE pool = {}
    BY <2>1, <2>2, <1>2, LowerBoundNone
  <2>3. CASE pool # {}
    <3>1. first \in pool /\ \A z \in pool : first[2] <= z[2]
      BY <2>1, <2>3, LowerBoundIs
    <3>2. first # None /\ first[1] = 1
      BY <3>1, <1>1, <1>6
    <3>3. CASE first[2] < size
      <4>1. it = LowerBound(<<Index, size, NullPtr>>)
        BY <3>2, <3>3, <1>2, <1>6
      <4> QED
        BY <4>1, <1>4
    <3>4. CASE ~ (first[2] < size)
      <4>1. it = first
        BY <3>4, <1>2
      <4> QED
        BY <3>1, <3>4, <4>1, <1>1
    <3> QED
      BY <3>3, <3>4
  <2> QED
    BY <2>2, <2>3
<1> QED
  BY <1>5, <1>6, Sizes

-----------------------------------------------------------------------------
(* Alloc *)

\* The pool when the free blocks in K are gone and those in A are new.
FreeChange(d, e, K, A) ==
    /\ FreeBlocks(e) = (FreeBlocks(d) \ K) \cup A
    /\ \A a \in FreeBlocks(d) \ K : e[a].total = d[a].total

PoolChanged(d, e, K, A) ==
    \A x : x \in PoolOf(e) <=> \/ x \in PoolOf(d) /\ x[3] \notin K
                              \/ \E a \in A : x = Entry(e, a)

LEMMA PoolChange ==
    ASSUME NEW d, WellFormed(d), NEW e, NEW K, NEW A, FreeChange(d, e, K, A)
    PROVE  PoolChanged(d, e, K, A)
<1>1. \A a \in FreeBlocks(d) \ K : Entry(e, a) = Entry(d, a)
  BY DEF Entry, FreeChange
<1>2. \A a \in FreeBlocks(d) : Entry(d, a) \in PoolOf(d) /\ Entry(d, a)[3] = a
  BY DEF PoolOf, Entry
<1>3. \A x \in PoolOf(d) : x[3] \in FreeBlocks(d) /\ x = Entry(d, x[3])
  BY PoolEntries
<1>4. ASSUME NEW x \in PoolOf(e)
      PROVE  (x \in PoolOf(d) /\ x[3] \notin K) \/ \E a \in A : x = Entry(e, a)
  <2>1. PICK a \in FreeBlocks(e) : x = Entry(e, a)
    BY DEF PoolOf
  <2>2. CASE a \in A
    BY <2>1, <2>2
  <2>3. CASE a \in FreeBlocks(d) \ K
    BY <2>1, <2>3, <1>1, <1>2
  <2> QED
    BY <2>2, <2>3 DEF FreeChange
<1>5. ASSUME NEW x \in PoolOf(d), x[3] \notin K PROVE x \in PoolOf(e)
  BY <1>1, <1>3, <1>5 DEF PoolOf, FreeChange
<1>6. ASSUME NEW a \in A PROVE Entry(e, a) \in PoolOf(e)
  BY DEF PoolOf, FreeChange
<1> QED
  BY <1>4, <1>5, <1>6 DEF PoolChanged

LEMMA SplitToAllocKeeps ==
    ASSUME NEW d, NEW p, Consistent(d, p, live), NEW b \in FreeBlocks(d),
           NEW n \in Requests, ChunkSize(n) <= d[b].total,
           SplitToAlloc(d, p, b, n)
    PROVE  BuddyInv' /\ Chunks(desc') = Chunks(d)
<1> DEFINE size == ChunkSize(n)
           cut == Split(d, b, size)
           new == [cut EXCEPT ![b].type = "arena"]
           rest == new[b].right
           split == d[b].total - size > DescSize
<1>1. /\ desc' = new
      /\ pool' = (p \ {Entry(d, b)})
                     \cup (IF IsFree(new, rest) THEN {Entry(new, rest)} ELSE {})
      /\ live' = live \cup {<<b, n>>}
  BY DEF SplitToAlloc
<1>2. /\ WellFormed(d) /\ p = PoolOf(d) /\ NoAdjacent(d) /\ Held(d, live)
      /\ b \in DOMAIN d /\ d[b].type = "free"
  BY DEF Consistent, FreeBlocks
<1>3. size \in Nat \ {0} /\ n + DescSize <= size /\ size <= d[b].total
  BY ChunkHolds
<1>4. \A x \in DOMAIN d : /\ x \in Nat \ {0} /\ d[x].total \in Nat \ {0}
                          /\ d[x].left \in Nat /\ d[x].right \in Nat
  BY <1>2, BlockFields DEF WellFormed
<1>5. DescSize \in Nat \ {0} /\ n \in Nat
  BY Sizes
<1> HIDE DEF size
<1>6. ~ split => cut = d
  BY <1>2, <1>3, <1>4, <1>5 DEF Split
<1>7. split =>
        /\ WellFormed(cut)
        /\ DOMAIN cut = DOMAIN d \cup {b + size}
        /\ \A x \in DOMAIN d :
             /\ cut[x].type = d[x].type
             /\ cut[x].total = IF x = b THEN size ELSE d[x].total
             /\ cut[x].right = IF x = b THEN b + size ELSE d[x].right
        /\ cut[b + size] = Block("free", d[b].total - size, b, d[b].right)
  BY <1>2, <1>3, SplitFields, SplitWF
<1>8. split => b + size \notin DOMAIN d
  BY <1>2, <1>3, <1>4, <1>5, Inside
<1> HIDE DEF cut
<1>9. WellFormed(cut) /\ b \in DOMAIN cut /\ cut[b].type = "free"
  BY <1>2, <1>6, <1>7
<1>10. /\ WellFormed(new) /\ DOMAIN new = DOMAIN cut
       /\ \A x \in DOMAIN cut : /\ new[x].type = IF x = b THEN "arena" ELSE cut[x].type
                                /\ new[x].total = cut[x].total /\ new[x].right = cut[x].right
                                /\ new[x].left = cut[x].left
  <2>1. new = Retype(cut, b, "arena")
    BY DEF Retype
  <2>2. WellFormed(new) /\ Retyped(cut, new, b, "arena")
    BY <2>1, <1>9, RetypeWF
  <2> QED
    BY <2>2 DEF Retyped
<1> HIDE DEF new
<1>11. /\ DOMAIN d \subseteq DOMAIN new
       /\ \A x \in DOMAIN d \ {b} : /\ new[x].type = d[x].type /\ new[x].total = d[x].total
                                     /\ new[x].right = d[x].right
       /\ new[b].type = "arena" /\ size <= new[b].total
  BY <1>2, <1>3, <1>4, <1>6, <1>7, <1>10
<1>12. Held(new, live \cup {<<b, n>>})
  <2>1. /\ live \subseteq Nat \X Requests
        /\ \A x \in live : /\ x[1] \in DOMAIN d
                           /\ d[x[1]].type # "free"
                           /\ x[2] + DescSize <= d[x[1]].total
        /\ \A x, y \in live : x[1] = y[1] => x = y
    BY <1>2 DEF Held
  <2>2. \A x \in live : x[1] # b
    BY <1>2, <2>1
  <2>3. new[b].total \in Nat
    BY <1>10, <1>11, <1>2, BlockFields DEF WellFormed
  <2>4. n + DescSize <= new[b].total
    BY <1>3, <1>5, <1>11, <2>3
  <2>5. <<b, n>> \in Nat \X Requests
    BY <1>2, <1>4
  <2> QED
    BY <1>2, <1>11, <2>1, <2>2, <2>4, <2>5 DEF Held
<1>13. NoAdjacent(new) /\ pool' = PoolOf(new)
  <2>1. \A a \in FreeBlocks(d) : d[a].right # NullPtr =>
            d[a].right \in DOMAIN d /\ d[d[a].right].type # "free"
    BY <1>2, Buddies DEF NoAdjacent, IsFree, FreeBlocks
  <2>2. p \ {Entry(d, b)} = {x \in PoolOf(d) : x[3] \notin {b}}
    <3>1. \A x \in PoolOf(d) : x = Entry(d, x[3])
      BY <1>2, PoolEntries
    <3>2. Entry(d, b)[3] = b
      BY DEF Entry
    <3> QED
      BY <1>2, <3>1, <3>2
  <2>3. CASE ~ split
    <3>1. DOMAIN new = DOMAIN d /\ rest = d[b].right
      BY <2>3, <1>2, <1>6, <1>10
    <3>2. FreeBlocks(new) = FreeBlocks(d) \ {b}
      BY <3>1, <1>11, <1>2 DEF FreeBlocks
    <3>3. NoAdjacent(new)
      BY <2>1, <3>2, <1>11 DEF NoAdjacent, IsFree, FreeBlocks
    <3>4. ~ IsFree(new, rest)
      BY <2>1, <3>1, <1>11 DEF IsFree
    <3>5. PoolOf(new) = {x \in PoolOf(d) : x[3] \notin {b}}
      <4>1. \A a \in FreeBlocks(d) \ {b} : new[a].total = d[a].total
        BY <1>11 DEF FreeBlocks
      <4>2. FreeChange(d, new, {b}, {})
        BY <3>2, <4>1 DEF FreeChange
      <4>3. PoolChanged(d, new, {b}, {})
        BY <4>2, <1>2, PoolChange
      <4> QED
        BY <4>3 DEF PoolChanged
    <3> QED
      BY <2>2, <3>3, <3>4, <3>5, <1>1
  <2>4. CASE split
    <3>1. /\ DOMAIN new = DOMAIN d \cup {b + size} /\ rest = b + size
          /\ b + size \notin DOMAIN d /\ b + size # NullPtr
      BY <2>4, <1>2, <1>3, <1>4, <1>7, <1>8, <1>10 DEF NullPtr
    <3>2. new[b + size].type = "free" /\ new[b + size].right = d[b].right
      BY <2>4, <3>1, <1>2, <1>7, <1>10 DEF Block
    <3>3. FreeBlocks(new) = (FreeBlocks(d) \ {b}) \cup {b + size}
      BY <3>1, <3>2, <1>2, <1>11 DEF FreeBlocks
    <3>4. NoAdjacent(new)
      <4>1. \A a \in FreeBlocks(d) \ {b} : new[a].right = d[a].right
        BY <1>11 DEF FreeBlocks
      <4> QED
        BY <2>1, <3>1, <3>2, <3>3, <4>1, <1>11 DEF NoAdjacent, IsFree, FreeBlocks
    <3>5. IsFree(new, rest)
      BY <3>1, <3>2 DEF IsFree
    <3>6. PoolChanged(d, new, {b}, {b + size})
      <4>1. \A a \in FreeBlocks(d) \ {b} : new[a].total = d[a].total
        BY <1>11 DEF FreeBlocks
      <4>2. FreeChange(d, new, {b}, {b + size})
        BY <3>3, <4>1 DEF FreeChange
      <4> QED
        BY <4>2, <1>2, PoolChange
    <3> QED
      BY <2>2, <3>1, <3>4, <3>5, <3>6, <1>1 DEF PoolChanged
  <2> QED
    BY <2>3, <2>4
<1>14. Chunks(new) = Chunks(d)
  <2>1. \A x \in DOMAIN d : new[x].type = "huge" <=> d[x].type = "huge"
    BY <1>2, <1>11
  <2>2. CASE ~ split
    BY <2>1, <2>2, <1>6, <1>10 DEF Chunks
  <2>3. CASE split
    <3>1. /\ b + size \in DOMAIN new /\ DOMAIN new = DOMAIN d \cup {b + size}
          /\ new[b + size].type = "free" /\ new[b + size].left = b
      BY <2>3, <1>2, <1>7, <1>8, <1>10 DEF Block
    <3>2. b + size \notin Bases
      BY <3>1, <1>2, <1>4, <1>10 DEF WellFormed, LeftLink, NullPtr
    <3> QED
      BY <2>1, <3>1, <3>2 DEF Chunks
  <2> QED
    BY <2>2, <2>3
<1> QED
  BY <1>1, <1>10, <1>12, <1>13, <1>14 DEF BuddyInv, Consistent

\* A chunk from the system joins the pool.
LEMMA RefillKeeps ==
    ASSUME NEW d, NEW p, Consistent(d, p, live), NEW b \in Bases \ DOMAIN d,
           NEW e, e = NewChunk(d, b, "free", MaxChunk)
    PROVE  /\ Consistent(e, p \cup {Entry(e, b)}, live)
           /\ b \in FreeBlocks(e) /\ e[b].total = MaxChunk
           /\ Chunks(e) = Chunks(d) \cup {b}
<1>1. WellFormed(d) /\ p = PoolOf(d) /\ NoAdjacent(d) /\ Held(d, live)
  BY DEF Consistent
<1>2. MaxChunk \in Nat \ {0} /\ MaxChunk <= Stride
  BY Sizes
<1>3. /\ WellFormed(e) /\ DOMAIN e = DOMAIN d \cup {b}
      /\ e[b] = Block("free", MaxChunk, NullPtr, NullPtr)
      /\ \A x \in DOMAIN d : e[x] = d[x]
  <2>1. FitsRegion("free", MaxChunk)
    BY <1>2 DEF FitsRegion
  <2>2. WellFormed(d) /\ b \in Bases /\ b \notin DOMAIN d
    BY <1>1
  <2>3. WellFormed(e)
    BY <2>1, <2>2, ChunkWF
  <2>4. DOMAIN e = DOMAIN d \cup {b} /\ e[b] = Block("free", MaxChunk, NullPtr, NullPtr)
    BY <2>1, <2>2, ChunkWF
  <2>5. \A x \in DOMAIN d : e[x] = d[x]
    BY <2>2 DEF NewChunk, Saved
  <2> QED
    BY <2>3, <2>4, <2>5
<1>4. e[b].type = "free" /\ e[b].right = NullPtr /\ e[b].total = MaxChunk
  BY <1>3 DEF Block
<1>5. FreeBlocks(e) = FreeBlocks(d) \cup {b}
  BY <1>3, <1>4 DEF FreeBlocks
<1>6. NoAdjacent(e)
  <2>1. \A a \in FreeBlocks(d) : d[a].right # NullPtr => d[a].right \in DOMAIN d
    BY <1>1, Buddies DEF FreeBlocks
  <2> QED
    BY <2>1, <1>1, <1>3, <1>4, <1>5 DEF NoAdjacent, IsFree, FreeBlocks
<1>7. p \cup {Entry(e, b)} = PoolOf(e)
  <2>1. FreeChange(d, e, {}, {b})
    BY <1>3, <1>5 DEF FreeChange, FreeBlocks
  <2>2. PoolChanged(d, e, {}, {b})
    BY <2>1, <1>1, PoolChange
  <2> QED
    BY <2>2, <1>1 DEF PoolChanged
<1>8. Held(e, live)
  BY <1>1, <1>3 DEF Held
<1>9. Chunks(e) = Chunks(d) \cup {b}
  BY <1>3, <1>4 DEF Chunks
<1> QED
  BY <1>3, <1>4, <1>5, <1>6, <1>7, <1>8, <1>9 DEF Consistent

LEMMA AllocHugeKeeps ==
    ASSUME BuddyInv, NEW n \in Requests, AllocHuge(n)
    PROVE  BuddyInv' /\ Chunks(desc') = Chunks(desc)
<1>1. WellFormed(desc) /\ pool = PoolOf(desc) /\ NoAdjacent(desc) /\ Held(desc, live)
  BY DEF BuddyInv, Consistent
<1>2. ChunkSize(n) \in Nat \ {0} /\ n + DescSize <= ChunkSize(n) /\ ChunkSize(n) <= Stride
  BY ChunkHolds
<1>3. PICK b \in Bases :
          /\ b \notin DOMAIN desc
          /\ desc' = NewChunk(desc, b, "huge", ChunkSize(n))
          /\ live' = live \cup {<<b, n>>}
  BY DEF AllocHuge, SystemRegion, NewChunk
<1> DEFINE e == desc'
<1>4. pool' = pool
  BY DEF AllocHuge
<1>5. /\ WellFormed(e) /\ DOMAIN e = DOMAIN desc \cup {b}
      /\ e[b] = Block("huge", ChunkSize(n), NullPtr, NullPtr)
      /\ \A x \in DOMAIN desc : e[x] = desc[x]
  <2>1. FitsRegion("huge", ChunkSize(n))
    BY <1>2 DEF FitsRegion
  <2> QED
    BY <2>1, <1>1, <1>3, ChunkWF
<1>6. e[b].type = "huge" /\ e[b].total = ChunkSize(n)
  BY <1>5 DEF Block
<1> HIDE DEF e
<1>7. FreeBlocks(e) = FreeBlocks(desc) /\ Chunks(e) = Chunks(desc)
  BY <1>5, <1>6 DEF FreeBlocks, Chunks
<1>8. NoAdjacent(e)
  <2>1. \A a \in FreeBlocks(desc) : desc[a].right # NullPtr => desc[a].right \in DOMAIN desc
    BY <1>1, Buddies DEF FreeBlocks
  <2> QED
    BY <2>1, <1>1, <1>5, <1>7 DEF NoAdjacent, IsFree, FreeBlocks
<1>9. PoolOf(e) = PoolOf(desc)
  <2>1. FreeChange(desc, e, {}, {})
    BY <1>5, <1>7 DEF FreeChange, FreeBlocks
  <2>2. PoolChanged(desc, e, {}, {})
    BY <2>1, <1>1, PoolChange
  <2> QED
    BY <2>2 DEF PoolChanged
<1>10. Held(e, live \cup {<<b, n>>})
  <2>1. b \in Nat
    BY BasesFar
  <2> QED
    BY <2>1, <1>1, <1>2, <1>3, <1>5, <1>6 DEF Held
<1> QED
  BY <1>1, <1>3, <1>4, <1>5, <1>7, <1>8, <1>9, <1>10 DEF BuddyInv, Consistent, e

LEMMA AllocExistingKeeps ==
    ASSUME BuddyInv, NEW n \in Requests, AllocExisting(n)
    PROVE  BuddyInv' /\ Chunks(desc') = Chunks(desc)
<1>1. WellFormed(desc) /\ pool = PoolOf(desc) /\ Consistent(desc, pool, live)
  BY DEF BuddyInv, Consistent
<1>2. ChunkSize(n) \in Nat \ {0}
  BY ChunkHolds
<1>3. Entries(pool)
  BY <1>1, PoolEntries
<1> DEFINE it == FindExistChunk(ChunkSize(n))
<1>4. it # None /\ SplitToAlloc(desc, pool, it[3], n)
  BY DEF AllocExisting
<1>5. it \in pool /\ it[2] >= ChunkSize(n)
  BY <1>2, <1>3, <1>4, Found
<1> HIDE DEF it
<1>6. it[3] \in FreeBlocks(desc) /\ desc[it[3]].total >= ChunkSize(n)
  BY <1>1, <1>5, PoolEntries
<1>7. ChunkSize(n) <= desc[it[3]].total
  <2>1. desc[it[3]].total \in Nat
    BY <1>1, <1>6, BlockFields DEF WellFormed, FreeBlocks
  <2> QED
    BY <2>1, <1>2, <1>6
<1> QED
  BY <1>1, <1>4, <1>6, <1>7, SplitToAllocKeeps

LEMMA AllocRefillKeeps ==
    ASSUME BuddyInv, NEW n \in Requests, AllocRefill(n)
    PROVE  BuddyInv' /\ \E b : b \notin Chunks(desc) /\ Chunks(desc') = Chunks(desc) \cup {b}
<1>1. Consistent(desc, pool, live)
  BY DEF BuddyInv
<1>2. PICK b \in Bases :
          /\ b \notin DOMAIN desc
          /\ LET d == NewChunk(desc, b, "free", MaxChunk)
             IN SplitToAlloc(d, pool \cup {Entry(d, b)}, b, n)
  BY DEF AllocRefill, SystemRegion, NewChunk
<1> DEFINE d == NewChunk(desc, b, "free", MaxChunk)
           p == pool \cup {Entry(d, b)}
<1>3. SplitToAlloc(d, p, b, n)
  BY <1>2
<1>4. Consistent(d, p, live) /\ b \in FreeBlocks(d) /\ d[b].total = MaxChunk
  BY <1>1, <1>2, RefillKeeps
<1>5. Chunks(d) = Chunks(desc) \cup {b}
  BY <1>1, <1>2, RefillKeeps
<1> HIDE DEF d, p
<1>6. ChunkSize(n) <= d[b].total
  BY <1>4 DEF AllocRefill
<1>7. BuddyInv' /\ Chunks(desc') = Chunks(d)
  BY <1>3, <1>4, <1>6, SplitToAllocKeeps
<1>8. b \notin Chunks(desc)
  BY <1>2 DEF Chunks
<1> QED
  BY <1>5, <1>7, <1>8

-----------------------------------------------------------------------------
(* Free *)

\* What the steps of Free leave alone: the blocks that are not free.
OthersKept(d, e) ==
    \A x \in DOMAIN d : d[x].type # "free" =>
        x \in DOMAIN e /\ e[x].type = d[x].type /\ e[x].total = d[x].total

\* The right link of a block leads to a block or nowhere, and back.
LEMMA RightOf ==
    ASSUME NEW d, WellFormed(d), NEW a \in DOMAIN d, d[a].right # NullPtr
    PROVE  d[a].right \in DOMAIN d /\ d[d[a].right].left = a /\ d[a].right # a
BY Buddies

LEMMA LeftOfIs ==
    ASSUME NEW d, WellFormed(d), NEW b \in DOMAIN d, d[b].left # NullPtr
    PROVE  d[b].left \in DOMAIN d /\ d[d[b].left].right = b
BY DEF WellFormed, LeftLink, HugeAlone

RightJoined(d, e, b) ==
    /\ d[b].right # b
    /\ FreeBlocks(e) = FreeBlocks(d) \ {d[b].right}
    /\ \A x \in FreeBlocks(e) \ {b} : e[x].total = d[x].total
    /\ OthersKept(d, e)
    /\ Chunks(e) = Chunks(d)

LEMMA MergeRightKeeps ==
    ASSUME NEW d, WellFormed(d), NEW b \in FreeBlocks(d), AdjacentOnlyAt(d, b),
           NEW e, e = MergeRight(d, b)
    PROVE  WellFormed(e) /\ AdjacentOnlyBefore(e, b) /\ RightJoined(d, e, b)
<1>1. b \in DOMAIN d /\ d[b].type = "free"
  BY DEF FreeBlocks
<1>2. NullPtr \notin DOMAIN d
  BY BlockFields DEF WellFormed, NullPtr
<1> DEFINE r == d[b].right
           next == d[r].right
<1>3. CASE IsFree(d, r)
  <2>1. e = Merge(d, b) /\ r # NullPtr /\ d[r].type = "free"
    BY <1>3 DEF MergeRight, IsFree
  <2>2. r \in DOMAIN d /\ r # b /\ next # b /\ next # r
    BY <1>1, <2>1, Buddies
  <2>3. /\ DOMAIN e = DOMAIN d \ {r}
        /\ \A x \in DOMAIN e :
             /\ e[x].type = d[x].type
             /\ e[x].total = IF x = b THEN d[b].total + d[r].total ELSE d[x].total
             /\ e[x].right = IF x = b THEN next ELSE d[x].right
    BY <1>1, <2>1, MergeFields
  <2>4. WellFormed(e)
    BY <1>1, <2>1, MergeWF
  <2> HIDE DEF r, next
  <2>5. FreeBlocks(e) = FreeBlocks(d) \ {r}
    BY <2>3 DEF FreeBlocks
  <2>6. \A x \in FreeBlocks(e) \ {b} : e[x].total = d[x].total
    BY <2>3 DEF FreeBlocks
  <2>7. OthersKept(d, e)
    BY <1>1, <2>1, <2>3 DEF OthersKept
  <2>8. Chunks(e) = Chunks(d)
    <3>1. d[r].left = b /\ d[r].type # "huge"
      BY <1>1, <2>1, Buddies DEF r
    <3>2. r \notin Bases
      BY <1>1, <1>2, <2>2, <3>1 DEF WellFormed, LeftLink
    <3> QED
      BY <2>3, <3>2 DEF Chunks
  <2>9. AdjacentOnlyBefore(e, b)
    <3> SUFFICES ASSUME NEW a \in FreeBlocks(e), IsFree(e, e[a].right) PROVE e[a].right = b
      BY DEF AdjacentOnlyBefore
    <3>1. a \in FreeBlocks(d) /\ a # r /\ a \in DOMAIN e
      BY <2>5 DEF FreeBlocks
    <3>2. e[a].right # NullPtr /\ e[a].right \in DOMAIN e /\ e[e[a].right].type = "free"
      BY <3>1, <2>4, RightOf DEF IsFree
    <3>3. IsFree(d, e[a].right)
      BY <3>2, <2>3 DEF IsFree
    <3>4. CASE a = b
      <4>1. e[a].right = next /\ r \in FreeBlocks(d)
        BY <3>4, <3>1, <2>1, <2>2, <2>3 DEF FreeBlocks
      <4>2. r = b \/ next = b
        BY <4>1, <3>3 DEF AdjacentOnlyAt, next
      <4> QED
        BY <4>2, <2>2
    <3>5. CASE a # b
      BY <3>5, <3>1, <3>3, <2>3 DEF AdjacentOnlyAt
    <3> QED
      BY <3>4, <3>5
  <2> QED
    BY <2>2, <2>4, <2>5, <2>6, <2>7, <2>8, <2>9 DEF r, RightJoined
<1>4. CASE ~ IsFree(d, r)
  <2>1. e = d
    BY <1>4 DEF MergeRight
  <2>2. r \notin FreeBlocks(d)
    BY <1>2, <1>4 DEF IsFree, FreeBlocks
  <2>3. AdjacentOnlyBefore(e, b)
    BY <1>4, <2>1 DEF AdjacentOnlyAt, AdjacentOnlyBefore
  <2>4. r # b
    BY <2>2
  <2> HIDE DEF r
  <2>5. FreeBlocks(e) = FreeBlocks(d) \ {r}
    BY <2>1, <2>2
  <2> QED
    BY <2>1, <2>3, <2>4, <2>5 DEF OthersKept, r, RightJoined
<1> QED
  BY <1>3, <1>4

LeftJoined(d, e, b, whole) ==
    /\ whole \in FreeBlocks(d)
    /\ FreeBlocks(e) = (FreeBlocks(d) \ {b}) \cup {whole}
    /\ \A x \in FreeBlocks(e) \ {whole} : e[x].total = d[x].total
    /\ OthersKept(d, e)
    /\ Chunks(e) = Chunks(d)

LEMMA MergeLeftKeeps ==
    ASSUME NEW d, WellFormed(d), NEW b \in FreeBlocks(d), AdjacentOnlyBefore(d, b),
           NEW e, e = MergeLeft(d, b), NEW whole, whole = LeftOf(d, b)
    PROVE  WellFormed(e) /\ NoAdjacent(e) /\ LeftJoined(d, e, b, whole)
<1>1. b \in DOMAIN d /\ d[b].type = "free"
  BY DEF FreeBlocks
<1>2. NullPtr \notin DOMAIN d
  BY BlockFields DEF WellFormed, NullPtr
<1> DEFINE l == d[b].left
<1>3. CASE IsFree(d, l)
  <2>1. e = Merge(d, l) /\ whole = l /\ l # NullPtr /\ d[l].type = "free"
    BY <1>3 DEF MergeLeft, LeftOf, IsFree
  <2>2. l \in DOMAIN d /\ d[l].right = b
    BY <1>1, <2>1, LeftOfIs
  <2> HIDE DEF l
  <2>3. b # NullPtr
    BY <1>1, <1>2
  <2>4. l # b
    BY <2>2, <2>3, RightOf
  <2>5. /\ DOMAIN e = DOMAIN d \ {b}
        /\ \A x \in DOMAIN e :
             /\ e[x].type = d[x].type
             /\ e[x].total = IF x = l THEN d[l].total + d[b].total ELSE d[x].total
             /\ e[x].right = IF x = l THEN d[b].right ELSE d[x].right
    BY <2>1, <2>2, <2>3, MergeFields
  <2>6. WellFormed(e)
    BY <2>1, <2>2, <2>3, MergeWF
  <2>7. whole \in FreeBlocks(d)
    BY <2>1, <2>2 DEF FreeBlocks
  <2>8. FreeBlocks(e) = (FreeBlocks(d) \ {b}) \cup {whole}
    BY <2>1, <2>2, <2>4, <2>5 DEF FreeBlocks
  <2>9. \A x \in FreeBlocks(e) \ {whole} : e[x].total = d[x].total
    BY <2>1, <2>5 DEF FreeBlocks
  <2>10. OthersKept(d, e)
    BY <1>1, <2>1, <2>5 DEF OthersKept
  <2>11. Chunks(e) = Chunks(d)
    <3>1. b \notin Bases
      BY <1>1, <2>1 DEF WellFormed, LeftLink, l
    <3> QED
      BY <2>5, <3>1 DEF Chunks
  <2>12. NoAdjacent(e)
    <3> SUFFICES ASSUME NEW a \in FreeBlocks(e), IsFree(e, e[a].right) PROVE FALSE
      BY DEF NoAdjacent
    <3>1. a \in DOMAIN e /\ a \in FreeBlocks(d) /\ a # b
      BY <2>5 DEF FreeBlocks
    <3>2. e[a].right # NullPtr /\ e[a].right \in DOMAIN e /\ e[e[a].right].type = "free"
      BY <3>1, <2>6, RightOf DEF IsFree
    <3>3. IsFree(d, e[a].right) /\ e[a].right # b
      BY <3>2, <2>5 DEF IsFree
    <3>4. CASE a = l
      <4>1. IsFree(d, d[b].right) /\ d[b].right # b
        BY <3>1, <3>3, <3>4, <2>5
      <4> QED
        BY <4>1 DEF AdjacentOnlyBefore
    <3>5. CASE a # l
      <4>1. IsFree(d, d[a].right) /\ d[a].right # b
        BY <3>1, <3>3, <3>5, <2>5
      <4> QED
        BY <3>1, <4>1 DEF AdjacentOnlyBefore
    <3> QED
      BY <3>4, <3>5
  <2> QED
    BY <2>6, <2>7, <2>8, <2>9, <2>10, <2>11, <2>12 DEF LeftJoined
<1>4. CASE ~ IsFree(d, l)
  <2>1. e = d /\ whole = b
    BY <1>4 DEF MergeLeft, LeftOf
  <2>2. NoAdjacent(e)
    <3> SUFFICES ASSUME NEW a \in FreeBlocks(d), IsFree(d, d[a].right) PROVE FALSE
      BY <2>1 DEF NoAdjacent
    <3>1. d[a].right = b
      BY DEF AdjacentOnlyBefore
    <3>2. a \in DOMAIN d /\ d[a].type = "free" /\ a # NullPtr /\ b # NullPtr
      BY <1>1, <1>2 DEF FreeBlocks
    <3>3. d[b].left = a
      BY <3>1, <3>2, RightOf
    <3> QED
      BY <3>2, <3>3, <1>4 DEF IsFree
  <2>3. FreeBlocks(e) = (FreeBlocks(d) \ {b}) \cup {whole}
    BY <2>1
  <2> QED
    BY <2>1, <2>2, <2>3 DEF OthersKept, LeftJoined
<1> QED
  BY <1>3, <1>4

\* Blocks that nobody holds are given back to the system.
LEMMA RemoveKeeps ==
    ASSUME NEW d, NEW p, NEW l, Consistent(d, p, l), NEW S, WholeOnly(d, S),
           \A x \in l : x[1] \notin S,
           NEW e, e = Remove(d, S), NEW q, q = {x \in p : x[3] \notin S}
    PROVE  Consistent(e, q, l)
<1>1. WellFormed(d) /\ p = PoolOf(d) /\ NoAdjacent(d) /\ Held(d, l)
  BY DEF Consistent
<1>2. WellFormed(e) /\ DOMAIN e = DOMAIN d \ S /\ \A x \in DOMAIN e : e[x] = d[x]
  BY <1>1, RemoveWF DEF Removed
<1>3. FreeBlocks(e) = FreeBlocks(d) \ S
  BY <1>2 DEF FreeBlocks
<1>4. NoAdjacent(e)
  <2> SUFFICES ASSUME NEW a \in FreeBlocks(e) PROVE ~ IsFree(e, e[a].right)
    BY DEF NoAdjacent
  <2>1. a \in DOMAIN e /\ a \in FreeBlocks(d) /\ e[a] = d[a]
    BY <1>2, <1>3 DEF FreeBlocks
  <2>2. e[a].right # NullPtr => e[a].right \in DOMAIN e
    BY <2>1, <1>2, RightOf
  <2> QED
    BY <2>1, <2>2, <1>1, <1>2 DEF NoAdjacent, IsFree
<1>5. q = PoolOf(e)
  <2>1. FreeChange(d, e, S, {})
    BY <1>2, <1>3 DEF FreeChange, FreeBlocks
  <2>2. PoolChanged(d, e, S, {})
    BY <2>1, <1>1, PoolChange
  <2> QED
    BY <2>2, <1>1 DEF PoolChanged
<1>6. Held(e, l)
  BY <1>1, <1>2 DEF Held
<1> QED
  BY <1>2, <1>4, <1>5, <1>6 DEF Consistent

LEMMA FreeHugeKeeps ==
    ASSUME BuddyInv, NEW b, NEW n, FreeHuge(b, n)
    PROVE  BuddyInv' /\ Chunks(desc') = Chunks(desc)
<1> DEFINE l == live \ {<<b, n>>}
<1>1. /\ <<b, n>> \in live /\ desc[b].type = "huge"
      /\ desc' = Remove(desc, {b})
      /\ live' = l /\ pool' = pool
  BY DEF FreeHuge, Remove
<1>2. WellFormed(desc) /\ pool = PoolOf(desc) /\ NoAdjacent(desc) /\ Held(desc, live)
  BY DEF BuddyInv, Consistent
<1>3. b \in DOMAIN desc
  BY <1>1, <1>2 DEF Held
<1>4. Held(desc, l) /\ \A x \in l : x[1] \notin {b}
  BY <1>1, <1>2 DEF Held
<1> HIDE DEF l
<1>5. Consistent(desc', {x \in pool : x[3] \notin {b}}, l)
  <2>1. Consistent(desc, pool, l)
    BY <1>2, <1>4 DEF Consistent
  <2>2. WholeOnly(desc, {b})
    BY <1>1, <1>3 DEF WholeOnly
  <2> QED
    BY <2>1, <2>2, <1>1, <1>4, RemoveKeeps
<1>6. {x \in pool : x[3] \notin {b}} = pool
  BY <1>1, <1>2, PoolEntries DEF FreeBlocks
<1>7. Chunks(desc') = Chunks(desc)
  <2>1. WholeOnly(desc, {b})
    BY <1>1, <1>3 DEF WholeOnly
  <2>2. Removed(desc, desc', {b})
    BY <2>1, <1>1, <1>2, RemoveWF
  <2> QED
    BY <2>2, <1>1 DEF Removed, Chunks
<1> QED
  BY <1>1, <1>5, <1>6, <1>7 DEF BuddyInv

\* The state after the merges of Free, before idle chunks are given back.
Merged(d, p, l) == Consistent(d, p, l) /\ Chunks(d) = Chunks(desc)

LEMMA MergesKeep ==
    ASSUME BuddyInv, NEW b, NEW n, <<b, n>> \in live, desc[b].type = "arena",
           NEW d1, d1 = [desc EXCEPT ![b].type = "free"],
           NEW d2, d2 = MergeRight(d1, b),
           NEW whole, whole = LeftOf(d2, b),
           NEW d3, d3 = MergeLeft(d2, b),
           NEW p3, p3 = {x \in pool : x[3] \notin {whole, d1[b].right}} \cup {Entry(d3, whole)}
    PROVE  Merged(d3, p3, live \ {<<b, n>>})
<1> DEFINE l == live \ {<<b, n>>}
           r == d1[b].right
<1>1. WellFormed(desc) /\ pool = PoolOf(desc) /\ NoAdjacent(desc) /\ Held(desc, live)
  BY DEF BuddyInv, Consistent
<1>2. b \in DOMAIN desc /\ b \notin FreeBlocks(desc)
  BY <1>1 DEF Held, FreeBlocks
<1>3. /\ WellFormed(d1) /\ DOMAIN d1 = DOMAIN desc
      /\ \A x \in DOMAIN desc : /\ d1[x].type = IF x = b THEN "free" ELSE desc[x].type
                                /\ d1[x].total = desc[x].total
                                /\ d1[x].left = desc[x].left /\ d1[x].right = desc[x].right
  <2>1. d1 = Retype(desc, b, "free")
    BY DEF Retype
  <2>2. WellFormed(d1) /\ Retyped(desc, d1, b, "free")
    BY <2>1, <1>1, <1>2, RetypeWF
  <2> QED
    BY <2>2 DEF Retyped
<1>4. FreeBlocks(d1) = FreeBlocks(desc) \cup {b}
  BY <1>2, <1>3 DEF FreeBlocks
<1>5. AdjacentOnlyAt(d1, b)
  <2> SUFFICES ASSUME NEW a \in FreeBlocks(d1), IsFree(d1, d1[a].right), a # b, d1[a].right # b
               PROVE  FALSE
    BY DEF AdjacentOnlyAt
  <2>1. a \in DOMAIN d1 /\ a \in FreeBlocks(desc) /\ d1[a].right = desc[a].right
    BY <1>3, <1>4 DEF FreeBlocks
  <2>2. d1[a].right \in DOMAIN desc /\ d1[a].right # NullPtr /\ d1[d1[a].right].type = "free"
    BY <2>1, <1>3, RightOf DEF IsFree
  <2>3. IsFree(desc, desc[a].right)
    BY <2>1, <2>2, <1>3 DEF IsFree
  <2> QED
    BY <2>1, <2>3, <1>1 DEF NoAdjacent
<1>6. b \in FreeBlocks(d1)
  BY <1>4
<1>7. /\ WellFormed(d2)
      /\ FreeBlocks(d2) = FreeBlocks(d1) \ {r}
      /\ \A x \in FreeBlocks(d2) \ {b} : d2[x].total = d1[x].total
      /\ OthersKept(d1, d2) /\ Chunks(d2) = Chunks(d1)
      /\ AdjacentOnlyBefore(d2, b)
      /\ r # b
  <2>1. WellFormed(d2) /\ AdjacentOnlyBefore(d2, b) /\ RightJoined(d1, d2, b)
    BY <1>3, <1>5, <1>6, MergeRightKeeps
  <2> QED
    BY <2>1 DEF RightJoined
<1>8. b \in FreeBlocks(d2)
  BY <1>6, <1>7
<1>9. /\ WellFormed(d3)
      /\ whole \in FreeBlocks(d2)
      /\ FreeBlocks(d3) = (FreeBlocks(d2) \ {b}) \cup {whole}
      /\ \A x \in FreeBlocks(d3) \ {whole} : d3[x].total = d2[x].total
      /\ OthersKept(d2, d3) /\ Chunks(d3) = Chunks(d2)
      /\ NoAdjacent(d3)
  <2>1. WellFormed(d3) /\ NoAdjacent(d3) /\ LeftJoined(d2, d3, b, whole)
    BY <1>7, <1>8, MergeLeftKeeps
  <2> QED
    BY <2>1 DEF LeftJoined
<1> HIDE DEF r, l
<1>10. p3 = PoolOf(d3)
  <2>1. FreeBlocks(d3) = (FreeBlocks(desc) \ {whole, r}) \cup {whole}
    BY <1>2, <1>4, <1>7, <1>9
  <2>2. ASSUME NEW a \in FreeBlocks(desc) \ {whole, r} PROVE d3[a].total = desc[a].total
    <3>1. a # b /\ a \in FreeBlocks(d2) /\ a \in FreeBlocks(d3) /\ a \in DOMAIN desc
      BY <1>2, <1>4, <1>7, <1>9 DEF FreeBlocks
    <3> QED
      BY <3>1, <1>3, <1>7, <1>9
  <2>3. FreeChange(desc, d3, {whole, r}, {whole})
    BY <2>1, <2>2 DEF FreeChange
  <2>4. PoolChanged(desc, d3, {whole, r}, {whole})
    BY <2>3, <1>1, PoolChange
  <2> QED
    BY <2>4, <1>1 DEF r, PoolChanged
<1>11. Held(d3, l)
  <2>1. \A x \in l : x \in live /\ x[1] # b
    BY <1>1 DEF Held, l
  <2>2. ASSUME NEW x \in l
        PROVE  x[1] \in DOMAIN d3 /\ d3[x[1]].type # "free" /\ d3[x[1]].total = desc[x[1]].total
    <3> DEFINE a == x[1]
    <3>1. a \in DOMAIN d1 /\ d1[a].type # "free" /\ d1[a].total = desc[a].total
      BY <2>1, <1>1, <1>3 DEF Held
    <3> HIDE DEF a
    <3>2. a \in DOMAIN d2 /\ d2[a].type # "free" /\ d2[a].total = desc[a].total
      BY <3>1, <1>7 DEF OthersKept
    <3>3. a \in DOMAIN d3 /\ d3[a].type # "free" /\ d3[a].total = desc[a].total
      BY <3>2, <1>9 DEF OthersKept
    <3> QED
      BY <3>3 DEF a
  <2>3. l \subseteq live
    BY DEF l
  <2> QED
    BY <2>2, <2>3, <1>1 DEF Held
<1>12. Chunks(d3) = Chunks(desc)
  <2>1. Chunks(d1) = Chunks(desc)
    BY <1>2, <1>3 DEF Chunks
  <2> QED
    BY <2>1, <1>7, <1>9
<1> QED
  BY <1>9, <1>10, <1>11, <1>12 DEF Consistent, l, Merged

\* The chunks given back are whole and free.
LEMMA IdleIsWhole ==
    ASSUME NEW d, NEW p, NEW u, NEW f, WellFormed(d), p = PoolOf(d),
           NEW s \in Idle(d, p, u, f)
    PROVE  s \in FreeBlocks(d) /\ d[s].total >= MaxChunk
<1>1. PICK x \in p : x[2] >= MaxChunk /\ s = x[3]
  BY DEF Idle
<1> QED
  BY <1>1, PoolEntries

LEMMA FreeKeeps ==
    ASSUME BuddyInv, NEW b, NEW n, Free(b, n)
    PROVE  /\ BuddyInv'
           /\ \E idle \in SUBSET Chunks(desc) :
                /\ Chunks(desc') = Chunks(desc) \ idle
                /\ free' = (((free + desc[b].total) % SizeMod) - Cardinality(idle) * MaxChunk) % SizeMod
<1> DEFINE d1 == [desc EXCEPT ![b].type = "free"]
           d2 == MergeRight(d1, b)
           whole == LeftOf(d2, b)
           d3 == MergeLeft(d2, b)
           p3 == {x \in pool : x[3] \notin {whole, d1[b].right}} \cup {Entry(d3, whole)}
           u3 == (used - desc[b].total) % SizeMod
           f3 == (free + desc[b].total) % SizeMod
           idle == IF FreeIdle THEN Idle(d3, p3, u3, f3) ELSE {}
           l == live \ {<<b, n>>}
<1>1. /\ <<b, n>> \in live /\ desc[b].type = "arena"
      /\ live' = l
      /\ desc' = Remove(d3, idle)
      /\ pool' = {x \in p3 : x[3] \notin idle}
      /\ free' = (f3 - Cardinality(idle) * MaxChunk) % SizeMod
  BY DEF Free, Remove
<1>2. Consistent(d3, p3, l) /\ Chunks(d3) = Chunks(desc)
  <2>1. Merged(d3, p3, l)
    BY <1>1, MergesKeep
  <2> QED
    BY <2>1 DEF Merged
<1> HIDE DEF d3, p3, u3, f3
<1>3. \A s \in idle : s \in FreeBlocks(d3) /\ d3[s].total >= MaxChunk
  BY <1>2, IdleIsWhole DEF Consistent
<1> HIDE DEF idle, l
<1>4. \A s \in idle : s \in DOMAIN d3 /\ d3[s].type = "free"
  BY <1>3 DEF FreeBlocks
<1>5. \A x \in l : x[1] \notin idle
  BY <1>2, <1>4 DEF Consistent, Held
<1>6. WholeOnly(d3, idle)
  BY <1>3, <1>4 DEF WholeOnly
<1>7. Consistent(desc', pool', l)
  BY <1>1, <1>2, <1>5, <1>6, RemoveKeeps
<1>8. BuddyInv'
  BY <1>1, <1>7 DEF BuddyInv, Consistent, Held, PoolOf, FreeBlocks, Entry, NoAdjacent, IsFree,
                    WellFormed, Shape, Apart, InRegion, LeftLink, RightLink, HugeAlone
<1>9. idle \subseteq Chunks(desc)
  <2>1. \A s \in idle : s \in Bases
    BY <1>2, <1>3, <1>4, WholeChunk DEF Consistent
  <2> QED
    BY <2>1, <1>2, <1>4 DEF Chunks
<1>10. Chunks(desc') = Chunks(desc) \ idle
  <2>1. Removed(d3, desc', idle)
    BY <1>1, <1>2, <1>6, RemoveWF DEF Consistent
  <2>2. Chunks(desc') = Chunks(d3) \ idle
    BY <2>1 DEF Removed, Chunks
  <2> QED
    BY <2>2, <1>2
<1> QED
  BY <1>1, <1>8, <1>9, <1>10 DEF f3

-----------------------------------------------------------------------------
(* The theorems *)

LEMMA InitInv == BuddyInit => BuddyInv
<1> SUFFICES ASSUME BuddyInit PROVE BuddyInv
  OBVIOUS
<1>1. desc = [a \in {} |-> 0] /\ DOMAIN desc = {} /\ pool = {} /\ live = {}
  BY DEF BuddyInit
<1>2. Shape(desc)
  BY <1>1 DEF Shape
<1>3. WellFormed(desc)
  BY <1>1, <1>2 DEF WellFormed, Apart, InRegion, LeftLink, RightLink, HugeAlone
<1>4. FreeBlocks(desc) = {}
  BY <1>1 DEF FreeBlocks
<1> QED
  BY <1>1, <1>3, <1>4 DEF BuddyInv, Consistent, PoolOf, NoAdjacent, Held

LEMMA StepKeepsInv == BuddyInv /\ [BuddyNext]_buddyVars => BuddyInv'
<1> SUFFICES ASSUME BuddyInv, [BuddyNext]_buddyVars PROVE BuddyInv'
  OBVIOUS
<1>1. ASSUME NEW n \in Requests, AllocHuge(n) \/ AllocExisting(n) \/ AllocRefill(n)
      PROVE  BuddyInv'
  BY <1>1, AllocHugeKeeps, AllocExistingKeeps, AllocRefillKeeps
<1>2. ASSUME NEW h \in live, Free(h[1], h[2]) PROVE BuddyInv'
  BY <1>2, FreeKeeps
<1>3. ASSUME NEW h \in live, FreeHuge(h[1], h[2]) PROVE BuddyInv'
  BY <1>3, FreeHugeKeeps
<1>4. CASE UNCHANGED buddyVars
  BY <1>4 DEF buddyVars, BuddyInv, Consistent, WellFormed, Shape, Apart, InRegion, LeftLink,
              RightLink, HugeAlone, PoolOf, FreeBlocks, Entry, NoAdjacent, IsFree, Held
<1> QED
  BY <1>1, <1>2, <1>3, <1>4 DEF BuddyNext

LEMMA InvHolds == BuddySpec => []BuddyInv
BY InitInv, StepKeepsInv, PTL DEF BuddySpec

\* The blocks of a chunk tile it after any sequence of Alloc and Free: split
\* and merge keep the sizes and both links of every block right.
THEOREM ChunksTiled == BuddySpec => []BlocksTile
<1>1. BuddyInv => BlocksTile
  BY DEF BuddyInv, Consistent, WellFormed, LeftLink, RightLink, BlocksTile
<1> QED
  BY <1>1, InvHolds, PTL

\* pool_ holds exactly the free blocks, and no two of them are neighbours:
\* Free leaves no entry of a block that was merged away.
THEOREM PoolExact == BuddySpec => []PoolIsFreeBlocks
<1>1. BuddyInv => PoolIsFreeBlocks
  BY DEF BuddyInv, Consistent, PoolOf, FreeBlocks, NoAdjacent, PoolIsFreeBlocks
<1> QED
  BY <1>1, InvHolds, PTL

\* Alloc never gives a byte to two callers, and what it gives is large enough
\* for the request behind the descriptor.
THEOREM HoldersApart == BuddySpec => []HoldersDisjoint
<1>1. BuddyInv => HoldersDisjoint
  <2> SUFFICES ASSUME BuddyInv, NEW x \in live, NEW y \in live
               PROVE  /\ x[2] + DescSize <= desc[x[1]].total
                      /\ x # y => \/ x[1] + desc[x[1]].total <= y[1]
                                  \/ y[1] + desc[y[1]].total <= x[1]
    BY DEF HoldersDisjoint
  <2>1. WellFormed(desc) /\ Held(desc, live)
    BY DEF BuddyInv, Consistent
  <2>2. /\ x[1] \in DOMAIN desc /\ y[1] \in DOMAIN desc
        /\ x[2] + DescSize <= desc[x[1]].total
        /\ x # y => x[1] # y[1]
    BY <2>1 DEF Held
  <2>3. x[1] \in Nat /\ y[1] \in Nat
    BY <2>1, <2>2, BlockFields DEF WellFormed
  <2> QED
    BY <2>1, <2>2, <2>3 DEF WellFormed, Apart
<1> QED
  BY <1>1, InvHolds, PTL

\* FindExistChunk's loop over the ordered pool agrees with its purpose: the
\* smallest block that is large enough, and none only if there is none.
THEOREM SearchIsBestFit == BuddySpec => []BestFit
<1>1. BuddyInv => BestFit
  <2> SUFFICES ASSUME BuddyInv, NEW n \in Requests,
                      NEW fitting, fitting = {x \in pool : x[2] >= ChunkSize(n)},
                      NEW it, it = FindExistChunk(ChunkSize(n))
               PROVE  IF fitting = {} THEN it = None
                      ELSE it \in fitting /\ \A x \in fitting : it[2] <= x[2]
    BY DEF BestFit
  <2>1. Entries(pool)
    BY PoolEntries DEF BuddyInv, Consistent
  <2>2. ChunkSize(n) \in Nat \ {0}
    BY ChunkHolds
  <2> DEFINE size == ChunkSize(n)
  <2> HIDE DEF size
  <2>3. \/ it = None /\ \A x \in pool : ~ (x[2] >= size)
        \/ /\ it # None /\ it \in pool /\ it[2] >= size
           /\ \A x \in pool : x[2] >= size => it[2] <= x[2]
    BY <2>1, <2>2, Found DEF size
  <2> QED
    BY <2>3 DEF size
<1> QED
  BY <1>1, InvHolds, PTL

-----------------------------------------------------------------------------
(* The counters *)

\* Sizes wrap around: what the modulus keeps.
LEMMA ModParts ==
    ASSUME NEW a \in Int, NEW m \in Nat \ {0}
    PROVE  a % m \in 0..(m - 1) /\ a \div m \in Int /\ a = m * (a \div m) + (a % m)
<1>1. a % m \in 0..(m - 1)
  OBVIOUS
<1>2. a \div m \in Int
  OBVIOUS
<1>3. a = m * (a \div m) + (a % m)
  OBVIOUS
<1> QED
  BY <1>1, <1>2, <1>3

LEMMA ModRest ==
    ASSUME NEW m \in Nat \ {0}, NEW q \in Int, NEW r \in 0..(m - 1)
    PROVE  (m * q + r) % m = r
OBVIOUS

LEMMA ModShift ==
    ASSUME NEW b \in Int, NEW k \in Int, NEW m \in Nat \ {0}
    PROVE  (b + m * k) % m = b % m
<1> DEFINE q == b \div m
           r == b % m
<1>1. q \in Int /\ r \in 0..(m - 1) /\ b = m * q + r
  BY ModParts
<1> HIDE DEF q, r
<1>2. m * (q + k) = m * q + m * k
  BY <1>1
<1>3. m * q \in Int /\ m * k \in Int /\ r \in Int
  BY <1>1
<1>4. b + m * k = m * (q + k) + r
  BY <1>1, <1>2, <1>3
<1>5. q + k \in Int
  BY <1>1
<1>6. (m * (q + k) + r) % m = r
  BY <1>1, <1>5, ModRest
<1> QED
  BY <1>4, <1>6 DEF r

LEMMA ModAdd ==
    ASSUME NEW a \in Int, NEW b \in Int, NEW m \in Nat \ {0}
    PROVE  ((a % m) + b) % m = (a + b) % m
<1> DEFINE q == a \div m
           r == a % m
<1>1. q \in Int /\ r \in 0..(m - 1) /\ a = m * q + r
  BY ModParts
<1> HIDE DEF q, r
<1>2. m * q \in Int /\ r \in Int /\ r + b \in Int
  BY <1>1
<1>3. a + b = (r + b) + m * q
  BY <1>1, <1>2
<1>4. ((r + b) + m * q) % m = (r + b) % m
  BY <1>1, <1>2, ModShift
<1> QED
  BY <1>3, <1>4 DEF r

LEMMA ModSum ==
    ASSUME NEW a \in Int, NEW b \in Int, NEW m \in Nat \ {0}
    PROVE  ((a % m) + (b % m)) % m = (a + b) % m
<1>1. a % m \in Int /\ b % m \in Int
  BY ModParts
<1>2. ((a % m) + (b % m)) % m = (a + (b % m)) % m
  BY <1>1, ModAdd
<1>3. a + (b % m) = (b % m) + a /\ a + b = b + a
  BY <1>1
<1>4. ((b % m) + a) % m = (b + a) % m
  BY ModAdd
<1> QED
  BY <1>2, <1>3, <1>4

Congruent(a, b, m) == a % m = b % m

LEMMA ModCongruent ==
    ASSUME NEW a \in Int, NEW b \in Int, NEW c \in Int, NEW m \in Nat \ {0}, Congruent(a, b, m)
    PROVE  Congruent(a + c, b + c, m)
<1>1. ((a % m) + c) % m = (a + c) % m
  BY ModAdd
<1>2. ((b % m) + c) % m = (b + c) % m
  BY ModAdd
<1> QED
  BY <1>1, <1>2 DEF Congruent

LEMMA ChunksFinite ==
    ASSUME NEW d
    PROVE  IsFiniteSet(Chunks(d)) /\ Cardinality(Chunks(d)) \in Nat
<1> DEFINE f == [r \in Regions |-> Base(r)]
<1>1. f \in Surjection(Regions, Bases)
  BY DEF Surjection, Bases
<1>2. IsFiniteSet(Bases)
  BY <1>1, FS_Surjection, BuddyAssumption
<1>3. Chunks(d) \in SUBSET Bases
  BY DEF Chunks
<1> QED
  BY <1>2, <1>3, FS_Subset, FS_CardinalityType

\* The counters are sizes and add up to the chunks.
Accounted ==
    /\ used \in 0..(SizeMod - 1) /\ free \in 0..(SizeMod - 1)
    /\ (used + free) % SizeMod = (MaxChunk * Cardinality(Chunks(desc))) % SizeMod

\* The counters move by c and -c, and by k chunks.
LEMMA CountersMove ==
    ASSUME NEW m \in Nat \ {0}, NEW u \in Int, NEW f \in Int, NEW c \in Int, NEW x \in Int,
           NEW s \in Int, Congruent(u + f, s, m)
    PROVE  Congruent(((u + c) % m) + ((f + x - c) % m), s + x, m)
<1> DEFINE a == u + c
           b == f + x - c
           t == u + f
<1>1. a \in Int /\ b \in Int /\ t \in Int /\ a + b = t + x
  OBVIOUS
<1>2. Congruent(t, s, m)
  OBVIOUS
<1> HIDE DEF a, b, t
<1>3. ((a % m) + (b % m)) % m = (a + b) % m
  BY <1>1, ModSum
<1>4. Congruent(t + x, s + x, m)
  BY <1>1, <1>2, ModCongruent
<1> QED
  BY <1>1, <1>3, <1>4 DEF a, b, Congruent

LEMMA CountedKeeps ==
    ASSUME Accounted, NEW n \in Requests, NEW refilled \in Int, Counted(n, refilled),
           MaxChunk * Cardinality(Chunks(desc')) = MaxChunk * Cardinality(Chunks(desc)) + refilled
    PROVE  Accounted'
<1> DEFINE c == ChunkSize(n)
           s == MaxChunk * Cardinality(Chunks(desc))
<1>1. c \in Int /\ SizeMod \in Nat \ {0} /\ MaxChunk \in Nat
  BY ChunkHolds, Sizes
<1>2. used \in Int /\ free \in Int /\ (used + free) % SizeMod = s % SizeMod
  BY <1>1 DEF Accounted
<1>3. s \in Int
  BY <1>1, ChunksFinite
<1>4. /\ used' = (used + c) % SizeMod
      /\ free' = (free + refilled - c) % SizeMod
  BY DEF Counted
<1>5. used' \in 0..(SizeMod - 1) /\ free' \in 0..(SizeMod - 1)
  <2> DEFINE a == used + c
             b == free + refilled - c
  <2>1. a \in Int /\ b \in Int
    BY <1>1, <1>2
  <2> HIDE DEF a, b
  <2>2. a % SizeMod \in 0..(SizeMod - 1) /\ b % SizeMod \in 0..(SizeMod - 1)
    BY <2>1, <1>1, ModParts
  <2> QED
    BY <2>2, <1>4 DEF a, b
<1>6. MaxChunk * Cardinality(Chunks(desc')) = s + refilled
  OBVIOUS
<1> HIDE DEF c, s
<1>7. (used' + free') % SizeMod = (s + refilled) % SizeMod
  <2>1. Congruent(used + free, s, SizeMod)
    BY <1>2 DEF Congruent
  <2>2. Congruent(((used + c) % SizeMod) + ((free + refilled - c) % SizeMod), s + refilled, SizeMod)
    BY <1>1, <1>2, <1>3, <2>1, CountersMove
  <2> QED
    BY <2>2, <1>4 DEF Congruent
<1> QED
  BY <1>5, <1>6, <1>7 DEF Accounted, Chunks

\* Free moves the block's total_size from one counter to the other and takes
\* the chunks that were given back off the free memory.
LEMMA FreeCounts ==
    ASSUME BuddyInv, Accounted, NEW b, NEW n, Free(b, n)
    PROVE  Accounted'
<1> DEFINE t == desc[b].total
           s == MaxChunk * Cardinality(Chunks(desc))
<1>1. PICK idle \in SUBSET Chunks(desc) :
          /\ Chunks(desc') = Chunks(desc) \ idle
          /\ free' = (((free + t) % SizeMod) - Cardinality(idle) * MaxChunk) % SizeMod
  BY FreeKeeps
<1>2. used' = (used - t) % SizeMod /\ <<b, n>> \in live
  BY DEF Free
<1>3. t \in Int
  <2>1. b \in DOMAIN desc /\ Shape(desc)
    BY <1>2 DEF BuddyInv, Consistent, Held, WellFormed
  <2> QED
    BY <2>1, BlockFields
<1>4. SizeMod \in Nat \ {0} /\ MaxChunk \in Nat
  BY Sizes
<1>5. used \in Int /\ free \in Int /\ (used + free) % SizeMod = s % SizeMod
  BY <1>4 DEF Accounted
<1>6. /\ Cardinality(idle) \in Nat /\ Cardinality(Chunks(desc)) \in Nat
      /\ Cardinality(Chunks(desc')) = Cardinality(Chunks(desc)) - Cardinality(idle)
  <2>1. IsFiniteSet(Chunks(desc)) /\ Cardinality(Chunks(desc)) \in Nat
    BY ChunksFinite
  <2>2. IsFiniteSet(idle)
    BY <2>1, FS_Subset
  <2>3. Cardinality(idle) \in Nat
    BY <2>2, FS_CardinalityType
  <2>4. Chunks(desc) \cap idle = idle
    OBVIOUS
  <2>5. Cardinality(Chunks(desc) \ idle) = Cardinality(Chunks(desc)) - Cardinality(Chunks(desc) \cap idle)
    BY <2>1, FS_Difference
  <2> QED
    BY <2>1, <2>3, <2>4, <2>5, <1>1
<1> DEFINE x == 0 - Cardinality(idle) * MaxChunk
           c == 0 - t
<1>7. x \in Int /\ c \in Int /\ s \in Int
  BY <1>3, <1>4, <1>6
<1>8. MaxChunk * Cardinality(Chunks(desc')) = s + x
  BY <1>4, <1>6
<1>9. used - t = used + c /\ free + t + x = free + x - c
  BY <1>3, <1>5, <1>7
<1>10. free' = (free + x - c) % SizeMod
  <2> DEFINE a == free + t
  <2>1. a \in Int
    BY <1>3, <1>5
  <2>2. (a % SizeMod) - Cardinality(idle) * MaxChunk = (a % SizeMod) + x
    <3>1. a % SizeMod \in Int
      BY <2>1, <1>4, ModParts
    <3> QED
      BY <3>1, <1>4, <1>6
  <2> HIDE DEF a
  <2>3. ((a % SizeMod) + x) % SizeMod = (a + x) % SizeMod
    BY <2>1, <1>4, <1>7, ModAdd
  <2> QED
    BY <2>2, <2>3, <1>1, <1>9 DEF a
<1> HIDE DEF t, s, x, c
<1>11. Congruent(((used + c) % SizeMod) + ((free + x - c) % SizeMod), s + x, SizeMod)
  <2>1. Congruent(used + free, s, SizeMod)
    BY <1>5 DEF Congruent
  <2> QED
    BY <2>1, <1>4, <1>5, <1>7, CountersMove
<1>12. (used' + free') % SizeMod = (MaxChunk * Cardinality(Chunks(desc'))) % SizeMod
  BY <1>2, <1>8, <1>9, <1>10, <1>11 DEF Congruent
<1>13. used' \in 0..(SizeMod - 1) /\ free' \in 0..(SizeMod - 1)
  <2> DEFINE a == used + c
             d == free + x - c
  <2>1. a \in Int /\ d \in Int
    BY <1>5, <1>7
  <2> HIDE DEF a, d
  <2>2. a % SizeMod \in 0..(SizeMod - 1) /\ d % SizeMod \in 0..(SizeMod - 1)
    BY <2>1, <1>4, ModParts
  <2> QED
    BY <2>2, <1>2, <1>9, <1>10 DEF a, d
<1> QED
  BY <1>12, <1>13 DEF Accounted, Chunks

LEMMA StepKeepsAccounts == BuddyInv /\ Accounted /\ [BuddyNext]_buddyVars => Accounted'
<1> SUFFICES ASSUME BuddyInv, Accounted, [BuddyNext]_buddyVars PROVE Accounted'
  OBVIOUS
<1>1. MaxChunk \in Nat /\ Cardinality(Chunks(desc)) \in Nat /\ IsFiniteSet(Chunks(desc))
  BY Sizes, ChunksFinite
<1>2. ASSUME NEW n \in Requests, AllocExisting(n) PROVE Accounted'
  <2>1. Chunks(desc') = Chunks(desc)
    BY <1>2, AllocExistingKeeps
  <2>2. MaxChunk * Cardinality(Chunks(desc')) = MaxChunk * Cardinality(Chunks(desc)) + 0
    BY <2>1, <1>1
  <2>3. Counted(n, 0)
    BY <1>2 DEF AllocExisting
  <2> QED
    BY <2>2, <2>3, CountedKeeps
<1>3. ASSUME NEW n \in Requests, AllocRefill(n) PROVE Accounted'
  <2>1. PICK b : b \notin Chunks(desc) /\ Chunks(desc') = Chunks(desc) \cup {b}
    BY <1>3, AllocRefillKeeps
  <2>2. Cardinality(Chunks(desc')) = Cardinality(Chunks(desc)) + 1
    BY <2>1, <1>1, FS_AddElement
  <2>3. MaxChunk * Cardinality(Chunks(desc')) = MaxChunk * Cardinality(Chunks(desc)) + MaxChunk
    BY <2>2, <1>1
  <2>4. Counted(n, MaxChunk)
    BY <1>3 DEF AllocRefill
  <2>5. MaxChunk \in Int
    BY <1>1
  <2> QED
    BY <2>3, <2>4, <2>5, CountedKeeps
<1>4. ASSUME NEW h \in live, Free(h[1], h[2]) PROVE Accounted'
  BY <1>4, FreeCounts
<1>5. ASSUME Chunks(desc') = Chunks(desc), UNCHANGED <<used, free>> PROVE Accounted'
  BY <1>5 DEF Accounted, Chunks
<1>6. ASSUME NEW n \in Requests, AllocHuge(n) PROVE Accounted'
  <2>1. Chunks(desc') = Chunks(desc)
    BY <1>6, AllocHugeKeeps
  <2> QED
    BY <1>5, <1>6, <2>1 DEF AllocHuge
<1>7. ASSUME NEW h \in live, FreeHuge(h[1], h[2]) PROVE Accounted'
  <2>1. Chunks(desc') = Chunks(desc)
    BY <1>7, FreeHugeKeeps
  <2> QED
    BY <1>5, <1>7, <2>1 DEF FreeHuge
<1>8. CASE UNCHANGED buddyVars
  BY <1>8 DEF buddyVars, Accounted, Chunks
<1> QED
  BY <1>2, <1>3, <1>4, <1>6, <1>7, <1>8 DEF BuddyNext

LEMMA InitAccounts == BuddyInit => Accounted
<1> SUFFICES ASSUME BuddyInit PROVE Accounted
  OBVIOUS
<1>1. used = 0 /\ free = 0 /\ Chunks(desc) = {}
  BY DEF BuddyInit, Chunks
<1>2. MaxChunk * Cardinality({}) = 0
  BY Sizes, FS_EmptySet
<1> QED
  BY <1>1, <1>2, Sizes DEF Accounted

\* total_used_ and total_free_ always add up to the chunks taken from the
\* system, although Alloc and Free count different sizes of the same block.
THEOREM CountersAddUp == BuddySpec => []MemoryAccounted
<1>1. Accounted => MemoryAccounted
  BY DEF Accounted, MemoryAccounted, Chunks
<1> QED
  BY <1>1, InvHolds, InitAccounts, StepKeepsAccounts, PTL DEF BuddySpec

\* Types: every block lies in a region, so do its links, and what callers
\* hold is a valid block.
THEOREM BuddyTypeCorrect == BuddySpec => []BuddyTypeOK
<1>1. ASSUME BuddyInv, Accounted PROVE BuddyTypeOK
  <2>1. WellFormed(desc) /\ pool = PoolOf(desc) /\ Held(desc, live)
    BY <1>1 DEF BuddyInv, Consistent
  <2>2. ASSUME NEW b \in DOMAIN desc
        PROVE  /\ b \in Addr /\ desc[b].total \in 1..Stride
               /\ desc[b].type # "huge" => desc[b].total \in 1..MaxChunk
    <3>1. PICK base \in Bases :
            /\ base <= b
            /\ b + desc[b].total <= base + Stride
            /\ desc[b].type # "huge" => b + desc[b].total <= base + MaxChunk
      BY <2>1, BlockFields, BasesFar, Sizes DEF WellFormed, InRegion
    <3>2. b \in Nat /\ desc[b].total \in Nat \ {0} /\ base \in Nat
      BY <2>1, BlockFields, BasesFar DEF WellFormed
    <3>3. PICK r \in Regions : base = Base(r)
      BY DEF Bases
    <3>4. b \in base..(base + Stride - 1)
      BY <3>1, <3>2, Sizes
    <3>5. b \in Addr
      BY <3>3, <3>4 DEF Addr
    <3> QED
      BY <3>1, <3>2, <3>5, Sizes
  <2>3. ASSUME NEW b \in DOMAIN desc PROVE desc[b] \in Desc
    <3>1. desc[b] \in Blocks
      BY <2>1, BlockFields DEF WellFormed
    <3>2. desc[b].left \in Addr \cup {NullPtr}
      BY <2>1, <2>2, LeftOfIs
    <3>3. desc[b].right \in Addr \cup {NullPtr}
      BY <2>1, <2>2, RightOf
    <3> QED
      BY <2>2, <3>1, <3>2, <3>3 DEF Blocks, Desc
  <2>4. \A x \in pool : x[1] = Index /\ x[2] \in 1..MaxChunk /\ x[3] \in Addr
    BY <2>1, <2>2, PoolEntries, EntryFields DEF FreeBlocks
  <2>5. live \subseteq (DOMAIN desc) \X Requests
    BY <2>1 DEF Held
  <2> QED
    BY <1>1, <2>2, <2>3, <2>4, <2>5 DEF BuddyTypeOK, Accounted
<1> QED
  BY <1>1, InvHolds, InitAccounts, StepKeepsAccounts, PTL DEF BuddySpec
=============================================================================
