----------------------------- MODULE MemoryProofs ----------------------------
(***************************************************************************)
(* Proofs about the console's memory: the kernel heap (Heap), for every    *)
(* size of the region, of the headers and of the alignment, and the        *)
(* address spaces (AddressSpaces), for any number of games and of pages.   *)
(***************************************************************************)
EXTENDS Heap, AddressSpaces, FiniteSetTheorems, TLAPS, WellFoundedInduction

(***************************************************************************)
(* Natural numbers.                                                        *)
(***************************************************************************)
LEMMA LeastExists ==
  ASSUME NEW S \in SUBSET Nat, S # {}
  PROVE  \E m \in S : \A k \in S : m <= k
<1>1. \E m \in S : \A k \in S : ~ (<<k, m>> \in OpToRel(<, Nat))
  BY NatLessThanWellFounded, WFMin, Zenon
<1>2. PICK m \in S : \A k \in S : ~ (<<k, m>> \in OpToRel(<, Nat))
  BY <1>1
<1>3. ASSUME NEW k \in S PROVE m <= k
  <2>1. ~ (<<k, m>> \in OpToRel(<, Nat))
    BY <1>2
  <2>2. QED
    BY <2>1 DEF OpToRel
<1>4. QED
  BY <1>3

\* Induction, over a set of numbers.
LEMMA AllNumbers ==
  ASSUME NEW S \in SUBSET Nat, 0 \in S, \A n \in S : n + 1 \in S
  PROVE  S = Nat
<1> SUFFICES ASSUME Nat \ S # {} PROVE FALSE
  OBVIOUS
<1>1. PICK m \in Nat \ S : \A k \in Nat \ S : m <= k
  BY LeastExists
<1>2. m - 1 \in Nat /\ m - 1 \notin Nat \ S
  BY <1>1
<1>3. m - 1 + 1 \in S
  BY <1>2
<1>4. QED
  BY <1>1, <1>3

-----------------------------------------------------------------------------
(***************************************************************************)
(* The kernel heap.                                                        *)
(***************************************************************************)
EndOf(b, h) == h + HEADER_SIZE + b[h].size

\* The blocks of b, in list order, tile the region.
Tiled(b) ==
    /\ DOMAIN b \subseteq Addresses /\ b \in [DOMAIN b -> Blocks]
    /\ 0 \in DOMAIN b
    /\ \A h \in DOMAIN b :
        /\ EndOf(b, h) <= HEAP_TOTAL
        /\ b[h].next = NIL => EndOf(b, h) = HEAP_TOTAL
        /\ b[h].next # NIL => b[h].next = EndOf(b, h) /\ EndOf(b, h) \in DOMAIN b
        /\ \A g \in DOMAIN b : g > h => g >= EndOf(b, h)

BlocksInUse(b) == {h \in DOMAIN b : ~b[h].free}

\* The blocks in use are those of o, each with the room o asks for.
Owns(b, o) ==
    /\ {h + HEADER_SIZE : h \in BlocksInUse(b)} = DOMAIN o
    /\ \A p \in DOMAIN o : o[p] <= b[p - HEADER_SIZE].size

HeapInv ==
    /\ Tiled(heap) /\ Owns(heap, owned) /\ Mergeable(heap) = {}
    /\ \A p \in DOMAIN owned : owned[p] \in Requests

\* c keeps the blocks that b has in use.
KeepsUsed(b, c) ==
    BlocksInUse(c) = BlocksInUse(b) /\ \A h \in BlocksInUse(b) : c[h].size = b[h].size

LEMMA HeapNumbers ==
  /\ HEAP_TOTAL \in Nat \ {0} /\ HEADER_SIZE \in Nat \ {0} /\ BLOCK_ALIGN \in Nat \ {0}
  /\ HEADER_SIZE + BLOCK_ALIGN < HEAP_TOTAL /\ Requests \subseteq Nat
  BY HeapAssumption

LEMMA BlockIs ==
  ASSUME NEW b, Tiled(b), NEW h \in DOMAIN b
  PROVE  /\ h \in Nat /\ h <= HEAP_TOTAL /\ b[h] \in Blocks
         /\ b[h].size \in Nat /\ b[h].size <= HEAP_TOTAL /\ b[h].free \in BOOLEAN
         /\ b[h].next \in Nat /\ EndOf(b, h) \in Nat /\ h < EndOf(b, h)
         /\ h + HEADER_SIZE <= EndOf(b, h)
<1>1. h \in Addresses /\ b[h] \in Blocks
  BY DEF Tiled
<1>2. b[h].size \in Addresses /\ b[h].next \in Addresses /\ b[h].free \in BOOLEAN
  BY <1>1 DEF Blocks
<1>3. QED
  BY <1>1, <1>2, HeapNumbers DEF Addresses, EndOf

LEMMA FirstIsIn ==
  ASSUME NEW S \in SUBSET Nat, S # {}
  PROVE  First(S) \in S
  BY LeastExists DEF First

LEMMA AlignIsUp ==
  ASSUME NEW n \in Nat
  PROVE  align_up(n) \in Nat /\ n <= align_up(n)
<1> PICK a \in Nat : a = n + BLOCK_ALIGN - 1
  BY HeapNumbers
<1>1. a = BLOCK_ALIGN * (a \div BLOCK_ALIGN) + (a % BLOCK_ALIGN)
      /\ a % BLOCK_ALIGN \in 0 .. BLOCK_ALIGN - 1 /\ a \div BLOCK_ALIGN \in Nat
  BY HeapNumbers
<1> PICK q \in Nat : q = a \div BLOCK_ALIGN
  BY <1>1
<1>2. align_up(n) = q * BLOCK_ALIGN
  BY DEF align_up
<1>3. q * BLOCK_ALIGN \in Nat /\ q * BLOCK_ALIGN = BLOCK_ALIGN * q
  BY HeapNumbers
<1>4. QED
  BY <1>1, <1>2, <1>3, HeapNumbers

\* Two neighbours become one block.
LEMMA MergeTiles ==
  ASSUME NEW b, Tiled(b), NEW h \in Mergeable(b)
  PROVE  /\ Tiled(Merge(b, h)) /\ KeepsUsed(b, Merge(b, h))
         /\ b[h].next \in DOMAIN b /\ DOMAIN Merge(b, h) = DOMAIN b \ {b[h].next}
<1> PICK n : n = b[h].next
  OBVIOUS
<1> PICK c : c = Merge(b, h)
  OBVIOUS
<1>1. /\ h \in DOMAIN b /\ n \in DOMAIN b /\ n # NIL /\ n = EndOf(b, h) /\ n # h
      /\ b[h].free /\ b[n].free
  <2>1. h \in DOMAIN b /\ n # NIL /\ b[h].free /\ b[n].free
    BY DEF Mergeable
  <2>2. n \in DOMAIN b /\ n = EndOf(b, h)
    BY <2>1 DEF Tiled
  <2>3. QED
    BY <2>1, <2>2, BlockIs
<1>r. PICK r : r = [b[h] EXCEPT !.size = @ + HEADER_SIZE + b[n].size, !.next = b[n].next]
  OBVIOUS
<1>2. c = [g \in DOMAIN b \ {n} |-> IF g = h THEN r ELSE b[g]]
  BY <1>r DEF Merge
<1>3. /\ b[h] \in Blocks /\ b[n] \in Blocks /\ EndOf(b, n) <= HEAP_TOTAL
      /\ b[h].size + HEADER_SIZE + b[n].size \in Addresses
  BY <1>1, BlockIs, HeapNumbers DEF Tiled, EndOf, Addresses
<1>4. /\ r \in Blocks /\ r.size = b[h].size + HEADER_SIZE + b[n].size
      /\ r.next = b[n].next /\ r.free = b[h].free
  BY <1>3, <1>r DEF Blocks
<1>5. DOMAIN c = DOMAIN b \ {n} /\ c[h] = r /\ \A g \in DOMAIN c \ {h} : c[g] = b[g]
  BY <1>1, <1>2
<1>6. EndOf(c, h) = EndOf(b, n)
  <2>1. /\ h \in Nat /\ b[h].size \in Nat /\ b[n].size \in Nat /\ HEADER_SIZE \in Nat
        /\ n = h + HEADER_SIZE + b[h].size
    BY <1>1, BlockIs, HeapNumbers DEF EndOf
  <2>2. c[h].size = b[h].size + HEADER_SIZE + b[n].size
    BY <1>4, <1>5
  <2>3. QED
    BY <2>1, <2>2 DEF EndOf
<1>7. \A g \in DOMAIN c \ {h} : EndOf(c, g) = EndOf(b, g)
  BY <1>5 DEF EndOf
\* Two blocks do not end at the same place.
<1>8. \A g \in DOMAIN b \ {h} : EndOf(b, g) # n
  <2> SUFFICES ASSUME NEW g \in DOMAIN b \ {h}, EndOf(b, g) = EndOf(b, h) PROVE FALSE
    BY <1>1
  <2>1. g \in Nat /\ h \in Nat /\ g < EndOf(b, g) /\ h < EndOf(b, h) /\ EndOf(b, h) \in Nat
    BY <1>1, BlockIs
  <2>2. g > h => g >= EndOf(b, h)
    BY <1>1 DEF Tiled
  <2>3. h > g => h >= EndOf(b, g)
    BY <1>1 DEF Tiled
  <2>4. QED
    BY <2>1, <2>2, <2>3
<1>9. n # 0
  BY <1>1 DEF NIL
<1>10. c \in [DOMAIN c -> Blocks] /\ DOMAIN c \subseteq Addresses /\ 0 \in DOMAIN c
  BY <1>2, <1>4, <1>5, <1>9 DEF Tiled
<1>11. ASSUME NEW g \in DOMAIN c
       PROVE  /\ EndOf(c, g) <= HEAP_TOTAL
              /\ c[g].next = NIL => EndOf(c, g) = HEAP_TOTAL
              /\ c[g].next # NIL => c[g].next = EndOf(c, g) /\ EndOf(c, g) \in DOMAIN c
              /\ \A k \in DOMAIN c : k > g => k >= EndOf(c, g)
  <2>1. CASE g = h
    <3>0. /\ EndOf(b, n) <= HEAP_TOTAL
          /\ b[n].next = NIL => EndOf(b, n) = HEAP_TOTAL
          /\ b[n].next # NIL => b[n].next = EndOf(b, n) /\ EndOf(b, n) \in DOMAIN b
      BY <1>1 DEF Tiled
    <3>1. c[g].next = b[n].next /\ EndOf(c, g) = EndOf(b, n)
      BY <1>4, <1>5, <1>6, <2>1
    <3>2. EndOf(b, n) # n
      BY <1>1, BlockIs
    <3>3. ASSUME NEW k \in DOMAIN c, k > h PROVE k >= EndOf(b, n)
      <4>1. k >= n /\ k # n
        BY <1>1, <1>5, <3>3 DEF Tiled
      <4>2. k \in Nat /\ n \in Nat
        BY <1>1, <1>5, BlockIs
      <4>3. k > n
        BY <4>1, <4>2
      <4>4. QED
        BY <1>1, <1>5, <4>3 DEF Tiled
    <3>4. QED
      BY <1>5, <2>1, <3>0, <3>1, <3>2, <3>3
  <2>2. CASE g # h
    <3>1. c[g] = b[g] /\ EndOf(c, g) = EndOf(b, g) /\ g \in DOMAIN b
      BY <1>5, <1>7, <2>2
    <3>2. EndOf(b, g) # n
      BY <1>8, <2>2, <3>1
    <3>3. /\ EndOf(b, g) <= HEAP_TOTAL
          /\ b[g].next = NIL => EndOf(b, g) = HEAP_TOTAL
          /\ b[g].next # NIL => b[g].next = EndOf(b, g) /\ EndOf(b, g) \in DOMAIN b
          /\ \A k \in DOMAIN b : k > g => k >= EndOf(b, g)
      BY <3>1 DEF Tiled
    <3>4. QED
      BY <1>5, <3>1, <3>2, <3>3
  <2>3. QED
    BY <2>1, <2>2
<1>12. Tiled(c)
  BY <1>10, <1>11 DEF Tiled
<1>13. KeepsUsed(b, c)
  <2>1. \A g \in DOMAIN c : c[g].free = b[g].free
    BY <1>4, <1>5
  <2>2. BlocksInUse(c) = BlocksInUse(b)
    BY <1>1, <1>5, <2>1 DEF BlocksInUse
  <2>3. \A g \in BlocksInUse(b) : g \in DOMAIN c \ {h}
    BY <1>1, <1>5 DEF BlocksInUse
  <2>4. QED
    BY <1>5, <2>2, <2>3 DEF KeepsUsed
<1>14. QED
  BY <1>1, <1>5, <1>12, <1>13

\* One step of the walk.
Step(b) == IF Mergeable(b) = {} THEN b ELSE Merge(b, First(Mergeable(b)))

\* f is the walk from b, up to its step n.
IsWalk(f, b, n) ==
    /\ f[0] = b
    /\ \A k \in 0 .. n - 1 : f[k + 1] = Step(f[k])

LEMMA WalkExists ==
  ASSUME NEW b, NEW n \in Nat
  PROVE  \E f : IsWalk(f, b, n)
<1> DEFINE S == {m \in Nat : \E f : IsWalk(f, b, m)}
<1>1. 0 \in S
  <2>1. IsWalk([k \in {0} |-> b], b, 0)
    BY DEF IsWalk
  <2>2. QED
    BY <2>1
<1>2. ASSUME NEW m \in S PROVE m + 1 \in S
  <2>1. PICK f : IsWalk(f, b, m)
    OBVIOUS
  <2>2. PICK s : s = Step(f[m])
    OBVIOUS
  <2>3. PICK g : g = [k \in 0 .. m + 1 |-> IF k = m + 1 THEN s ELSE f[k]]
    OBVIOUS
  <2>4. m \in Nat /\ g[0] = f[0] /\ g[m + 1] = Step(f[m])
        /\ \A k \in 0 .. m : g[k] = f[k]
    BY <2>2, <2>3
  <2>5. ASSUME NEW k \in 0 .. m PROVE g[k + 1] = Step(g[k])
    <3>1. CASE k = m
      BY <2>4, <3>1
    <3>2. CASE k # m
      <4>1. k \in 0 .. m - 1 /\ k + 1 \in 0 .. m
        BY <2>4, <3>2
      <4>2. f[k + 1] = Step(f[k])
        BY <2>1, <4>1 DEF IsWalk
      <4>3. QED
        BY <2>4, <4>1, <4>2
    <3>3. QED
      BY <3>1, <3>2
  <2>6. IsWalk(g, b, m + 1)
    <3>1. m + 1 - 1 = m
      BY <2>4
    <3>2. QED
      BY <2>1, <2>4, <2>5, <3>1 DEF IsWalk
  <2>7. QED
    BY <2>4, <2>6
<1> HIDE DEF S
<1>3. S = Nat
  BY <1>1, <1>2, AllNumbers DEF S
<1>4. QED
  BY <1>3 DEF S

\* Two walks from the same blocks are the same as far as both go.
LEMMA WalkIsOne ==
  ASSUME NEW b, NEW m \in Nat, NEW n \in Nat, NEW f, NEW g,
         IsWalk(f, b, m), IsWalk(g, b, n), NEW k \in Nat, k <= m, k <= n
  PROVE  f[k] = g[k]
<1> DEFINE S == {i \in Nat : i <= m /\ i <= n => f[i] = g[i]}
<1>1. 0 \in S
  BY DEF IsWalk
<1>2. ASSUME NEW i \in S PROVE i + 1 \in S
  <2> SUFFICES ASSUME i + 1 <= m, i + 1 <= n PROVE f[i + 1] = g[i + 1]
    OBVIOUS
  <2>1. i \in 0 .. m - 1 /\ i \in 0 .. n - 1 /\ f[i] = g[i]
    OBVIOUS
  <2>2. QED
    BY <2>1 DEF IsWalk
<1> HIDE DEF S
<1>3. S = Nat
  BY <1>1, <1>2, AllNumbers DEF S
<1>4. QED
  BY <1>3 DEF S

\* Heap's walk takes the steps it says it takes.
LEMMA WalkIs ==
  ASSUME NEW b
  PROVE  \E w : w[0] = b /\ (\A k \in Nat : w[k + 1] = Step(w[k]))
                /\ Coalesced(b) = w[Cardinality(DOMAIN b)]
<1> DEFINE Rec(w) == w = [k \in Nat |->
                IF k = 0 THEN b
                ELSE LET v == w[k - 1] IN
                     IF Mergeable(v) = {} THEN v ELSE Merge(v, First(Mergeable(v)))]
           f[n \in Nat] == CHOOSE h : IsWalk(h, b, n)
           g == [n \in Nat |-> f[n][n]]
<1>1. \A n \in Nat : IsWalk(f[n], b, n)
  BY WalkExists
<1> HIDE DEF f
<1>2. g[0] = b
  BY <1>1 DEF IsWalk
<1>3. ASSUME NEW n \in Nat PROVE g[n + 1] = Step(g[n])
  <2>1. n + 1 \in Nat /\ n \in 0 .. (n + 1) - 1
    OBVIOUS
  <2>2. f[n + 1][n + 1] = Step(f[n + 1][n])
    BY <1>1, <2>1 DEF IsWalk
  <2> PICK x, y : x = f[n + 1] /\ y = f[n]
    OBVIOUS
  <2>3. f[n + 1][n] = f[n][n]
    <3>1. IsWalk(x, b, n + 1) /\ IsWalk(y, b, n)
      BY <1>1, <2>1
    <3>2. n \in Nat /\ n + 1 \in Nat /\ n <= n + 1 /\ n <= n
      OBVIOUS
    <3>3. x[n] = y[n]
      BY <3>1, <3>2, WalkIsOne
    <3>4. QED
      BY <3>3
  <2>4. QED
    BY <2>1, <2>2, <2>3
<1>4. Rec(g)
  <2> SUFFICES ASSUME NEW k \in Nat
               PROVE  g[k] = IF k = 0 THEN b
                             ELSE LET v == g[k - 1] IN
                                  IF Mergeable(v) = {} THEN v
                                  ELSE Merge(v, First(Mergeable(v)))
    OBVIOUS
  <2>1. CASE k = 0
    BY <1>2, <2>1
  <2>2. CASE k # 0
    <3>1. k - 1 \in Nat /\ k - 1 + 1 = k
      BY <2>2
    <3>2. g[k] = Step(g[k - 1])
      BY <1>3, <3>1
    <3>3. QED
      BY <2>2, <3>2 DEF Step
  <2>3. QED
    BY <2>1, <2>2
<1> HIDE DEF g
<1>5. PICK w : w = CHOOSE v : Rec(v)
  OBVIOUS
<1>6. Rec(w)
  BY <1>4, <1>5
<1>7. Coalesced(b) = w[Cardinality(DOMAIN b)]
  BY <1>5 DEF Coalesced
<1>8. w[0] = b
  BY <1>6
<1>9. ASSUME NEW k \in Nat PROVE w[k + 1] = Step(w[k])
  <2>1. k + 1 \in Nat /\ k + 1 # 0 /\ k + 1 - 1 = k
    OBVIOUS
  <2>2. QED
    BY <1>6, <2>1 DEF Step
<1>10. QED
  BY <1>7, <1>8, <1>9

\* Merging ends with no two free neighbours, and touches no block in use.
LEMMA CoalescedTiles ==
  ASSUME NEW b, Tiled(b)
  PROVE  /\ Tiled(Coalesced(b)) /\ KeepsUsed(b, Coalesced(b))
         /\ Mergeable(Coalesced(b)) = {}
<1> PICK w : /\ w[0] = b /\ (\A k \in Nat : w[k + 1] = Step(w[k]))
             /\ Coalesced(b) = w[Cardinality(DOMAIN b)]
  BY WalkIs
<1> PICK all : all = Cardinality(DOMAIN b)
  OBVIOUS
<1>f. ASSUME NEW c, Tiled(c) PROVE IsFiniteSet(DOMAIN c) /\ Cardinality(DOMAIN c) \in Nat
  <2>1. IsFiniteSet(0 .. HEAP_TOTAL)
    BY FS_Interval, HeapNumbers
  <2>2. IsFiniteSet(DOMAIN c)
    BY <1>f, <2>1, FS_Subset DEF Tiled, Addresses
  <2>3. QED
    BY <2>2, FS_CardinalityType
<1> DEFINE Far(v, k) == /\ Tiled(v) /\ KeepsUsed(b, v)
                        /\ Mergeable(v) = {} \/ Cardinality(DOMAIN v) + k <= all
           S == {k \in Nat : Far(w[k], k)}
<1>1. 0 \in S
  <2>1. KeepsUsed(b, b)
    BY DEF KeepsUsed
  <2>2. Cardinality(DOMAIN b) + 0 <= all
    BY <1>f
  <2>3. QED
    BY <2>1, <2>2
<1>2. ASSUME NEW k \in S PROVE k + 1 \in S
  <2> PICK x, y : x = w[k] /\ y = w[k + 1]
    OBVIOUS
  <2>1. k \in Nat /\ Tiled(x) /\ KeepsUsed(b, x) /\ y = Step(x)
        /\ (Mergeable(x) = {} \/ Cardinality(DOMAIN x) + k <= all)
    OBVIOUS
  <2> SUFFICES Far(y, k + 1)
    BY <2>1
  <2>2. CASE Mergeable(x) = {}
    <3>1. y = x
      BY <2>1, <2>2 DEF Step
    <3>2. QED
      BY <2>1, <2>2, <3>1
  <2>3. CASE Mergeable(x) # {}
    <3>1. Mergeable(x) \subseteq Nat
      BY <2>1, BlockIs DEF Mergeable
    <3>2. PICK h \in Mergeable(x) : y = Merge(x, h)
      BY <2>1, <2>3, <3>1, FirstIsIn DEF Step
    <3>3. /\ Tiled(y) /\ KeepsUsed(x, y)
          /\ x[h].next \in DOMAIN x /\ DOMAIN y = DOMAIN x \ {x[h].next}
      BY <2>1, <3>2, MergeTiles
    <3>4. Cardinality(DOMAIN y) = Cardinality(DOMAIN x) - 1
      BY <1>f, <2>1, <3>3, FS_RemoveElement
    <3>5. Cardinality(DOMAIN y) + (k + 1) <= all
      BY <1>f, <2>1, <2>3, <3>4
    <3>6. KeepsUsed(b, y)
      BY <2>1, <3>3 DEF KeepsUsed
    <3>7. k + 1 \in Nat
      BY <2>1
    <3>8. QED
      BY <3>3, <3>5, <3>6, <3>7
  <2>4. QED
    BY <2>2, <2>3
<1> HIDE DEF S
<1>3. S = Nat
  BY <1>1, <1>2, AllNumbers DEF S
<1>4. all \in S
  BY <1>3, <1>f
<1> PICK c : c = w[all]
  OBVIOUS
<1>5. Tiled(c) /\ KeepsUsed(b, c) /\ (Mergeable(c) = {} \/ Cardinality(DOMAIN c) + all <= all)
  BY <1>4 DEF S
<1>6. Cardinality(DOMAIN c) # 0
  BY <1>5, <1>f, FS_EmptySet DEF Tiled
<1>7. Mergeable(c) = {}
  BY <1>5, <1>6, <1>f
<1>8. QED
  BY <1>5, <1>7

\* A block is taken or given back.
LEMMA MarkTiles ==
  ASSUME NEW b, Tiled(b), NEW h \in DOMAIN b, NEW v \in BOOLEAN
  PROVE  Tiled([b EXCEPT ![h].free = v])
<1> PICK c : c = [b EXCEPT ![h].free = v]
  OBVIOUS
<1>r. PICK r : r = [b[h] EXCEPT !.free = v]
  OBVIOUS
<1>1. DOMAIN c = DOMAIN b /\ c[h] = r /\ \A g \in DOMAIN b \ {h} : c[g] = b[g]
  BY <1>r
<1>2. b[h] \in Blocks
  BY BlockIs
<1>3. r \in Blocks /\ r.size = b[h].size /\ r.next = b[h].next
  BY <1>2, <1>r DEF Blocks
<1>4. \A g \in DOMAIN b : c[g] \in Blocks /\ c[g].next = b[g].next /\ EndOf(c, g) = EndOf(b, g)
  BY <1>1, <1>3 DEF Tiled, EndOf
<1>5. c \in [DOMAIN c -> Blocks]
  BY <1>1, <1>4
<1>6. Tiled(c)
  BY <1>1, <1>4, <1>5 DEF Tiled
<1>7. QED
  BY <1>6

\* One block becomes two, and the first of them is taken.
LEMMA SplitTiles ==
  ASSUME Tiled(heap), NEW h \in DOMAIN heap, NEW n \in Nat, n + HEADER_SIZE < heap[h].size
  PROVE  LET c == Split(h, n) IN
         /\ Tiled(c) /\ h \in DOMAIN c /\ c[h].size = n
         /\ BlocksInUse(c) = BlocksInUse(heap) \cup {h}
         /\ \A g \in BlocksInUse(heap) \ {h} : c[g].size = heap[g].size
         /\ heap[h].free /\ Mergeable(heap) = {} => Mergeable(c) = {}
<1> PICK b : b = heap
  OBVIOUS
<1> PICK rest : rest = h + HEADER_SIZE + n
  OBVIOUS
<1>r. PICK r1, r2 : /\ r1 = [size |-> n, free |-> FALSE, next |-> rest]
                    /\ r2 = [size |-> b[h].size - n - HEADER_SIZE, free |-> TRUE,
                             next |-> b[h].next]
  OBVIOUS
<1> PICK c : c = Split(h, n)
  OBVIOUS
<1>b. /\ Tiled(b) /\ h \in DOMAIN b
      /\ h \in Nat /\ b[h].size \in Nat /\ EndOf(b, h) \in Nat /\ EndOf(b, h) <= HEAP_TOTAL
      /\ EndOf(b, h) = h + HEADER_SIZE + b[h].size /\ n + HEADER_SIZE < b[h].size
      /\ HEADER_SIZE \in Nat \ {0} /\ b[h].next \in Nat /\ HEAP_TOTAL \in Nat
  BY BlockIs, HeapNumbers DEF Tiled, EndOf
<1>1. /\ rest \in Nat /\ rest > h /\ rest < EndOf(b, h) /\ rest \in Addresses /\ rest # 0
      /\ n \in Addresses /\ b[h].size - n - HEADER_SIZE \in Addresses
  BY <1>b DEF Addresses
<1>2. rest \notin DOMAIN b
  <2> SUFFICES ASSUME rest \in DOMAIN b PROVE FALSE
    OBVIOUS
  <2>1. rest >= EndOf(b, h)
    BY <1>1, <1>b DEF Tiled
  <2>2. QED
    BY <1>1, <1>b, <2>1
<1>3. c = [g \in DOMAIN b \cup {rest} |->
             CASE g = h -> r1 [] g = rest -> r2 [] OTHER -> b[g]]
  BY <1>r DEF Split
<1>4. /\ DOMAIN c = DOMAIN b \cup {rest} /\ h # rest
      /\ c[h] = r1 /\ c[rest] = r2 /\ \A g \in DOMAIN b \ {h} : c[g] = b[g] /\ g # rest
  BY <1>1, <1>2, <1>3, <1>b
<1>5. b[h].next \in Addresses
  BY <1>b DEF Tiled, Blocks
<1>6. /\ r1 \in Blocks /\ r1.size = n /\ r1.next = rest /\ r1.free = FALSE
      /\ r2 \in Blocks /\ r2.size = b[h].size - n - HEADER_SIZE /\ r2.next = b[h].next
      /\ r2.free = TRUE
  BY <1>1, <1>5, <1>r DEF Blocks
<1>7. /\ EndOf(c, h) = rest /\ EndOf(c, rest) = EndOf(b, h)
      /\ \A g \in DOMAIN b \ {h} : EndOf(c, g) = EndOf(b, g)
  <2>1. c[h].size = n /\ c[rest].size = b[h].size - n - HEADER_SIZE
    BY <1>4, <1>6
  <2>2. rest + HEADER_SIZE + (b[h].size - n - HEADER_SIZE) = h + HEADER_SIZE + b[h].size
    BY <1>b
  <2>3. QED
    BY <1>4, <1>b, <2>1, <2>2 DEF EndOf
<1>8. c \in [DOMAIN c -> Blocks] /\ DOMAIN c \subseteq Addresses /\ 0 \in DOMAIN c
  <2>1. \A g \in DOMAIN c : c[g] \in Blocks
    BY <1>4, <1>6, <1>b DEF Tiled
  <2>2. QED
    BY <1>1, <1>3, <1>4, <1>b, <2>1 DEF Tiled
<1>9. ASSUME NEW g \in DOMAIN c
      PROVE  /\ EndOf(c, g) <= HEAP_TOTAL
             /\ c[g].next = NIL => EndOf(c, g) = HEAP_TOTAL
             /\ c[g].next # NIL => c[g].next = EndOf(c, g) /\ EndOf(c, g) \in DOMAIN c
             /\ \A k \in DOMAIN c : k > g => k >= EndOf(c, g)
  <2>1. CASE g = h
    <3>1. EndOf(c, g) = rest /\ c[g].next = rest /\ rest # NIL /\ rest <= HEAP_TOTAL
      BY <1>1, <1>4, <1>6, <1>7, <1>b, <2>1 DEF NIL
    <3>2. ASSUME NEW k \in DOMAIN c, k > h PROVE k >= rest
      <4>1. CASE k = rest
        BY <1>1, <4>1
      <4>2. CASE k # rest
        <5>1. k \in DOMAIN b /\ k \in Nat
          BY <1>4, <1>b, <4>2, BlockIs
        <5>2. k >= EndOf(b, h)
          BY <1>b, <3>2, <5>1 DEF Tiled
        <5>3. QED
          BY <1>1, <1>b, <5>1, <5>2
      <4>3. QED
        BY <4>1, <4>2
    <3>3. QED
      BY <1>4, <2>1, <3>1, <3>2
  <2>2. CASE g = rest
    <3>1. EndOf(c, g) = EndOf(b, h) /\ c[g].next = b[h].next
      BY <1>4, <1>6, <1>7, <2>2
    <3>2. /\ b[h].next = NIL => EndOf(b, h) = HEAP_TOTAL
          /\ b[h].next # NIL => b[h].next = EndOf(b, h) /\ EndOf(b, h) \in DOMAIN b
      BY <1>b DEF Tiled
    <3>3. ASSUME NEW k \in DOMAIN c, k > rest PROVE k >= EndOf(b, h)
      <4>1. k \in DOMAIN b
        BY <1>1, <1>4, <3>3
      <4>2. k \in Nat
        BY <1>b, <4>1, BlockIs
      <4>3. k > h
        BY <1>1, <1>b, <3>3, <4>2
      <4>4. QED
        BY <1>b, <4>1, <4>3 DEF Tiled
    <3>4. QED
      BY <1>4, <1>b, <2>2, <3>1, <3>2, <3>3
  <2>3. CASE g # h /\ g # rest
    <3>1. g \in DOMAIN b /\ c[g] = b[g] /\ EndOf(c, g) = EndOf(b, g)
      BY <1>4, <1>7, <2>3
    <3>2. /\ EndOf(b, g) <= HEAP_TOTAL
          /\ b[g].next = NIL => EndOf(b, g) = HEAP_TOTAL
          /\ b[g].next # NIL => b[g].next = EndOf(b, g) /\ EndOf(b, g) \in DOMAIN b
          /\ \A k \in DOMAIN b : k > g => k >= EndOf(b, g)
      BY <1>b, <3>1 DEF Tiled
    <3>3. rest > g => rest >= EndOf(b, g)
      <4> SUFFICES ASSUME rest > g PROVE rest >= EndOf(b, g)
        OBVIOUS
      <4>1. g \in Nat /\ EndOf(b, g) \in Nat /\ g < EndOf(b, g)
        BY <1>b, <3>1, BlockIs
      <4>2. g > h => g >= EndOf(b, h)
        BY <1>b, <3>1 DEF Tiled
      <4>3. h > g
        BY <1>1, <1>b, <2>3, <4>1, <4>2
      <4>4. h >= EndOf(b, g)
        BY <1>b, <3>2, <4>3
      <4>5. QED
        BY <1>1, <1>b, <4>1, <4>4
    <3>4. QED
      BY <1>4, <3>1, <3>2, <3>3
  <2>4. QED
    BY <2>1, <2>2, <2>3
<1>10. Tiled(c)
  BY <1>8, <1>9 DEF Tiled
<1>11. BlocksInUse(c) = BlocksInUse(b) \cup {h}
  BY <1>4, <1>6, <1>b DEF BlocksInUse
<1>12. \A g \in BlocksInUse(b) \ {h} : c[g].size = b[g].size
  BY <1>4 DEF BlocksInUse
<1>13. ASSUME b[h].free, Mergeable(b) = {} PROVE Mergeable(c) = {}
  <2> SUFFICES ASSUME NEW g \in DOMAIN c, c[g].free, c[g].next # NIL, c[c[g].next].free
               PROVE  FALSE
    BY DEF Mergeable
  <2>0. \A x \in DOMAIN b : b[x].free /\ b[x].next # NIL => ~b[b[x].next].free
    BY <1>13 DEF Mergeable
  <2>1. g # h
    BY <1>4, <1>6
  <2>2. PICK x \in DOMAIN b : b[x].free /\ b[x].next = c[g].next
    BY <1>13, <1>4, <1>6, <1>b, <2>1
  <2> PICK y : y = b[x].next
    OBVIOUS
  <2>3. y \in DOMAIN b /\ y # h
    BY <1>4, <1>6, <1>b, <2>2 DEF Tiled
  <2>4. b[y].free
    BY <1>4, <2>2, <2>3
  <2>5. QED
    BY <2>0, <2>2, <2>4
<1>14. QED
  BY <1>4, <1>6, <1>10, <1>11, <1>12, <1>13

\* One more block is handed out, or one comes back.
LEMMA OwnsMore ==
  ASSUME NEW b, NEW c, NEW o, NEW d, NEW h, NEW n, Tiled(b), Tiled(c), Owns(b, o),
         h \in DOMAIN c, h \notin BlocksInUse(b), BlocksInUse(c) = BlocksInUse(b) \cup {h},
         \A g \in BlocksInUse(b) : c[g].size = b[g].size, n <= c[h].size,
         DOMAIN d = DOMAIN o \cup {h + HEADER_SIZE}, d[h + HEADER_SIZE] = n,
         \A p \in DOMAIN o \ {h + HEADER_SIZE} : d[p] = o[p]
  PROVE  Owns(c, d)
<1> PICK q : q = h + HEADER_SIZE
  OBVIOUS
<1>1. h \in Nat /\ HEADER_SIZE \in Nat /\ q - HEADER_SIZE = h
  BY BlockIs, HeapNumbers
<1>2. {g + HEADER_SIZE : g \in BlocksInUse(c)} = DOMAIN d
  BY DEF Owns
<1>3. ASSUME NEW p \in DOMAIN d PROVE d[p] <= c[p - HEADER_SIZE].size
  <2>1. CASE p = q
    BY <1>1, <2>1
  <2>2. CASE p # q
    <3>1. p \in DOMAIN o /\ d[p] = o[p] /\ o[p] <= b[p - HEADER_SIZE].size
      BY <2>2 DEF Owns
    <3>2. PICK g \in BlocksInUse(b) : p = g + HEADER_SIZE
      BY <3>1 DEF Owns
    <3>3. g \in Nat
      BY BlockIs DEF BlocksInUse
    <3>4. p - HEADER_SIZE = g
      BY <1>1, <3>2, <3>3
    <3>5. QED
      BY <3>1, <3>4
  <2>3. QED
    BY <2>1, <2>2
<1>4. QED
  BY <1>2, <1>3 DEF Owns

LEMMA OwnsLess ==
  ASSUME NEW b, NEW c, NEW o, NEW d, Tiled(b), Owns(b, o), NEW p \in DOMAIN o,
         BlocksInUse(c) = BlocksInUse(b) \ {p - HEADER_SIZE},
         \A g \in BlocksInUse(c) : c[g].size = b[g].size,
         DOMAIN d = DOMAIN o \ {p}, \A q \in DOMAIN d : d[q] = o[q]
  PROVE  Owns(c, d)
<1>1. \A g \in BlocksInUse(b) : g \in Nat /\ (g + HEADER_SIZE) - HEADER_SIZE = g
  BY BlockIs, HeapNumbers DEF BlocksInUse
<1>2. \A g \in BlocksInUse(b) : g = p - HEADER_SIZE <=> g + HEADER_SIZE = p
  <2>1. PICK k \in BlocksInUse(b) : p = k + HEADER_SIZE
    BY DEF Owns
  <2>2. QED
    BY <1>1, <2>1
<1>3. {g + HEADER_SIZE : g \in BlocksInUse(c)} = DOMAIN d
  BY <1>2 DEF Owns
<1>4. ASSUME NEW q \in DOMAIN d PROVE d[q] <= c[q - HEADER_SIZE].size
  <2>1. PICK g \in BlocksInUse(c) : q = g + HEADER_SIZE
    BY <1>3
  <2>2. q - HEADER_SIZE = g
    BY <1>1, <2>1
  <2>3. d[q] = o[q] /\ o[q] <= b[q - HEADER_SIZE].size
    BY DEF Owns
  <2>4. QED
    BY <2>2, <2>3
<1>5. QED
  BY <1>3, <1>4 DEF Owns

LEMMA HeapInitially == heap_init => HeapInv
<1> SUFFICES ASSUME heap_init PROVE HeapInv
  OBVIOUS
<1>1. HEAP_TOTAL - HEADER_SIZE \in Addresses /\ NIL \in Addresses /\ 0 \in Addresses
  BY HeapNumbers DEF Addresses, NIL
<1>r. PICK r : r = [size |-> HEAP_TOTAL - HEADER_SIZE, free |-> TRUE, next |-> NIL]
  OBVIOUS
<1>2. /\ r \in Blocks /\ r.size = HEAP_TOTAL - HEADER_SIZE /\ r.free = TRUE /\ r.next = NIL
      /\ DOMAIN heap = {0} /\ heap[0] = r /\ heap = [h \in {0} |-> r]
  BY <1>1, <1>r DEF heap_init, Blocks
<1>3. EndOf(heap, 0) = HEAP_TOTAL
  BY <1>2, HeapNumbers DEF EndOf
<1>4. heap \in [DOMAIN heap -> Blocks]
  BY <1>2
<1>5. Tiled(heap)
  BY <1>1, <1>2, <1>3, <1>4, HeapNumbers DEF Tiled
<1>6. BlocksInUse(heap) = {} /\ Mergeable(heap) = {}
  BY <1>2 DEF BlocksInUse, Mergeable
<1>7. DOMAIN owned = {}
  BY DEF heap_init
<1>8. QED
  BY <1>5, <1>6, <1>7 DEF HeapInv, Owns

LEMMA Alloc ==
  ASSUME HeapInv, NEW n \in Requests, kmalloc(n)
  PROVE  HeapInv'
<1> PICK a : a = align_up(n)
  OBVIOUS
<1> PICK h : h = First(Fits(a))
  OBVIOUS
<1> PICK o : o = [p \in DOMAIN owned \cup {h + HEADER_SIZE} |->
                    IF p = h + HEADER_SIZE THEN n ELSE owned[p]]
  OBVIOUS
<1>1. /\ Tiled(heap) /\ Owns(heap, owned) /\ Mergeable(heap) = {}
      /\ \A p \in DOMAIN owned : owned[p] \in Requests
  BY DEF HeapInv
<1>2. a \in Nat /\ n \in Nat /\ n <= a
  BY AlignIsUp, HeapNumbers
<1>3. h \in DOMAIN heap /\ heap[h].free /\ heap[h].size >= a
  <2>1. Fits(a) # {} /\ Fits(a) \in SUBSET Nat
    BY <1>1, BlockIs DEF kmalloc, Fits
  <2>2. h \in Fits(a)
    BY <2>1, FirstIsIn
  <2>3. QED
    BY <2>2 DEF Fits
<1>4. h \notin BlocksInUse(heap) /\ heap[h].size \in Nat
  BY <1>1, <1>3, BlockIs DEF BlocksInUse
<1> PICK c : c = heap'
  OBVIOUS
<1>5. owned' = o /\ c = IF WorthSplitting(h, a) THEN Split(h, a)
                        ELSE [heap EXCEPT ![h].free = FALSE]
  BY DEF kmalloc
<1>6. /\ Tiled(c) /\ h \in DOMAIN c /\ BlocksInUse(c) = BlocksInUse(heap) \cup {h} /\ n <= c[h].size
      /\ \A g \in BlocksInUse(heap) : c[g].size = heap[g].size
      /\ Mergeable(c) = {}
  <2>1. CASE WorthSplitting(h, a)
    <3>1. a + HEADER_SIZE < heap[h].size
      BY <1>2, <1>4, <2>1, HeapNumbers DEF WorthSplitting
    <3>2. /\ Tiled(c) /\ h \in DOMAIN c /\ c[h].size = a
          /\ BlocksInUse(c) = BlocksInUse(heap) \cup {h}
          /\ \A g \in BlocksInUse(heap) \ {h} : c[g].size = heap[g].size
          /\ Mergeable(c) = {}
      BY <1>1, <1>2, <1>3, <1>5, <2>1, <3>1, SplitTiles
    <3>3. QED
      BY <1>2, <1>4, <3>2
  <2>2. CASE ~WorthSplitting(h, a)
    <3>0. c = [heap EXCEPT ![h].free = FALSE]
      BY <1>5, <2>2
    <3>1. c = [heap EXCEPT ![h].free = FALSE] /\ Tiled(c)
      <4>1. Tiled([heap EXCEPT ![h].free = FALSE])
        BY <1>1, <1>3, MarkTiles
      <4>2. QED
        BY <3>0, <4>1
    <3>r. PICK r : r = [heap[h] EXCEPT !.free = FALSE]
      OBVIOUS
    <3>2. heap[h] \in Blocks
      BY <1>1, <1>3, BlockIs
    <3>3. r.free = FALSE /\ r.size = heap[h].size /\ r.next = heap[h].next
      BY <3>r, <3>2 DEF Blocks
    <3>4. DOMAIN c = DOMAIN heap /\ c[h] = r /\ \A g \in DOMAIN heap \ {h} : c[g] = heap[g]
      BY <1>3, <3>1, <3>r
    <3>5. BlocksInUse(c) = BlocksInUse(heap) \cup {h}
      BY <1>3, <3>3, <3>4 DEF BlocksInUse
    <3>6. n <= c[h].size
      BY <1>2, <1>3, <1>4, <3>3, <3>4
    <3>7. \A g \in BlocksInUse(heap) : c[g].size = heap[g].size
      BY <1>4, <3>4 DEF BlocksInUse
    <3>8. Mergeable(c) = {}
      <4> SUFFICES ASSUME NEW g \in DOMAIN c, c[g].free, c[g].next # NIL, c[c[g].next].free
                   PROVE  FALSE
        BY DEF Mergeable
      <4>1. g # h /\ g \in DOMAIN heap /\ c[g] = heap[g]
        BY <3>3, <3>4
      <4> PICK y : y = heap[g].next
        OBVIOUS
      <4>2. y \in DOMAIN heap /\ y # h
        BY <1>1, <3>3, <3>4, <4>1 DEF Tiled
      <4>3. heap[y].free
        BY <3>4, <4>1, <4>2
      <4>4. QED
        BY <1>1, <4>1, <4>3 DEF Mergeable
    <3>9. QED
      BY <1>3, <3>1, <3>4, <3>5, <3>6, <3>7, <3>8
  <2>3. QED
    BY <2>1, <2>2
<1>7. Owns(c, o)
  <2> PICK b, ow : b = heap /\ ow = owned
    OBVIOUS
  <2>1. /\ Tiled(b) /\ Tiled(c) /\ Owns(b, ow) /\ h \in DOMAIN c /\ h \notin BlocksInUse(b)
        /\ BlocksInUse(c) = BlocksInUse(b) \cup {h} /\ n <= c[h].size
        /\ \A g \in BlocksInUse(b) : c[g].size = b[g].size
    BY <1>1, <1>4, <1>6
  <2>2. /\ DOMAIN o = DOMAIN ow \cup {h + HEADER_SIZE} /\ o[h + HEADER_SIZE] = n
        /\ \A p \in DOMAIN ow \ {h + HEADER_SIZE} : o[p] = ow[p]
    OBVIOUS
  <2>3. QED
    BY <2>1, <2>2, OwnsMore
<1>8. \A p \in DOMAIN o : o[p] \in Requests
  BY <1>1
<1>9. QED
  BY <1>5, <1>6, <1>7, <1>8 DEF HeapInv

LEMMA Free ==
  ASSUME HeapInv, NEW p \in DOMAIN owned, kfree(p)
  PROVE  HeapInv'
<1> PICK h : h = p - HEADER_SIZE
  OBVIOUS
<1>1. /\ Tiled(heap) /\ Owns(heap, owned)
      /\ \A q \in DOMAIN owned : owned[q] \in Requests
  BY DEF HeapInv
<1>2. h \in BlocksInUse(heap)
  <2>1. PICK k \in BlocksInUse(heap) : p = k + HEADER_SIZE
    BY <1>1 DEF Owns
  <2>2. k \in Nat
    BY <1>1, BlockIs DEF BlocksInUse
  <2>3. h = k
    BY <2>1, <2>2, HeapNumbers
  <2>4. QED
    BY <2>3
<1>3. h \in DOMAIN heap /\ heap[h] \in Blocks
  BY <1>1, <1>2, BlockIs DEF BlocksInUse
<1>b. PICK b : b = [heap EXCEPT ![h].free = TRUE]
  OBVIOUS
<1>4. Tiled(b)
  BY <1>1, <1>3, <1>b, MarkTiles
<1>r. PICK r : r = [heap[h] EXCEPT !.free = TRUE]
  OBVIOUS
<1>5. r.free = TRUE
  BY <1>3, <1>r DEF Blocks
<1>6. DOMAIN b = DOMAIN heap /\ b[h] = r /\ \A g \in DOMAIN heap \ {h} : b[g] = heap[g]
  BY <1>3, <1>b, <1>r
<1>7. BlocksInUse(b) = BlocksInUse(heap) \ {h}
  BY <1>5, <1>6 DEF BlocksInUse
<1>8. \A g \in BlocksInUse(b) : b[g].size = heap[g].size
  BY <1>6, <1>7 DEF BlocksInUse
<1>c. PICK c : c = Coalesced(b)
  OBVIOUS
<1>9. Tiled(c) /\ KeepsUsed(b, c) /\ Mergeable(c) = {}
  BY <1>4, <1>c, CoalescedTiles
<1>10. /\ BlocksInUse(c) = BlocksInUse(heap) \ {h}
       /\ \A g \in BlocksInUse(c) : c[g].size = heap[g].size
  BY <1>7, <1>8, <1>9 DEF KeepsUsed
<1>o. PICK o : o = [q \in DOMAIN owned \ {p} |-> owned[q]]
  OBVIOUS
<1>11. heap' = c /\ owned' = o
  BY <1>b, <1>c, <1>o DEF kfree
<1>12. Owns(c, o)
  <2> PICK d, ow : d = heap /\ ow = owned
    OBVIOUS
  <2>1. /\ Tiled(d) /\ Owns(d, ow) /\ p \in DOMAIN ow
        /\ BlocksInUse(c) = BlocksInUse(d) \ {p - HEADER_SIZE}
        /\ \A g \in BlocksInUse(c) : c[g].size = d[g].size
    BY <1>1, <1>10
  <2>2. DOMAIN o = DOMAIN ow \ {p} /\ \A q \in DOMAIN o : o[q] = ow[q]
    BY <1>o
  <2>3. QED
    BY <2>1, <2>2, OwnsLess
<1>13. \A q \in DOMAIN o : o[q] \in Requests
  BY <1>1, <1>o
<1>14. QED
  BY <1>9, <1>11, <1>12, <1>13 DEF HeapInv

LEMMA HeapInvSound == HeapInv => HeapTypeOK /\ HeapIsSound
<1> SUFFICES ASSUME HeapInv PROVE HeapTypeOK /\ HeapIsSound
  OBVIOUS
<1>1. Tiled(heap) /\ Owns(heap, owned) /\ Mergeable(heap) = {}
  BY DEF HeapInv
<1>2. \A h \in DOMAIN heap : End(h) = EndOf(heap, h)
  BY DEF End, EndOf
<1>3. DOMAIN owned \subseteq Addresses
  <2> SUFFICES ASSUME NEW p \in DOMAIN owned PROVE p \in Addresses
    OBVIOUS
  <2>1. PICK h \in BlocksInUse(heap) : p = h + HEADER_SIZE
    BY <1>1 DEF Owns
  <2>2. h \in DOMAIN heap
    BY DEF BlocksInUse
  <2>3. /\ h \in Nat /\ heap[h].size \in Nat /\ EndOf(heap, h) <= HEAP_TOTAL
        /\ EndOf(heap, h) \in Nat
    BY <1>1, <2>2, BlockIs DEF Tiled
  <2>4. QED
    BY <2>1, <2>3, HeapNumbers DEF EndOf, Addresses
<1>4. HeapTypeOK
  BY <1>1, <1>3 DEF HeapInv, HeapTypeOK, Tiled
<1>5. {h + HEADER_SIZE : h \in {g \in DOMAIN heap : ~heap[g].free}} = DOMAIN owned
  BY <1>1 DEF Owns, BlocksInUse
<1>6. \A h \in DOMAIN heap :
        /\ End(h) <= HEAP_TOTAL
        /\ IF heap[h].next = NIL THEN End(h) = HEAP_TOTAL
           ELSE heap[h].next = End(h) /\ End(h) \in DOMAIN heap
        /\ \A g \in DOMAIN heap : g > h => g >= End(h)
  BY <1>1, <1>2 DEF Tiled
<1>7. HeapIsSound
  BY <1>1, <1>5, <1>6 DEF HeapIsSound, Tiled, Owns
<1>8. QED
  BY <1>4, <1>7

\* heap.c: however the kernel asks for memory and gives it back, in any order
\* and in any sizes, the blocks tile the region, the blocks in use are those
\* handed out, each with the room asked for, and no two free blocks are
\* neighbours: kfree's walk along the list merges all there is to merge.
THEOREM HeapStaysSound == HeapSpec => [](HeapTypeOK /\ HeapIsSound)
<1>1. heap_init => HeapInv
  BY HeapInitially
<1>2. HeapInv /\ [HeapNext]_heapVars => HeapInv'
  <2> SUFFICES ASSUME HeapInv, [HeapNext]_heapVars PROVE HeapInv'
    OBVIOUS
  <2>1. ASSUME NEW n \in Requests, kmalloc(n) PROVE HeapInv'
    BY <2>1, Alloc
  <2>2. ASSUME NEW p \in DOMAIN owned, kfree(p) PROVE HeapInv'
    BY <2>2, Free
  <2>3. ASSUME UNCHANGED heapVars PROVE HeapInv'
    BY <2>3 DEF heapVars, HeapInv, Tiled, Owns, BlocksInUse, EndOf, Mergeable
  <2>4. QED
    BY <2>1, <2>2, <2>3 DEF HeapNext
<1>3. QED
  BY <1>1, <1>2, HeapInvSound, PTL DEF HeapSpec
-----------------------------------------------------------------------------
(***************************************************************************)
(* Address spaces.  k holds the kernel's own three tables, one of each     *)
(* upper level; lev gives every page table its level, 1 (PML4) to 4 (PT).  *)
(***************************************************************************)
Kernels(k) == {k[1], k[2], k[3]}

\* The kernel's tables are what paging_init made them, closed to ring 3.
KernelAt(m, k, lev) ==
    /\ k[1] # k[2] /\ k[2] # k[3] /\ k[1] # k[3]
    /\ Kernels(k) \subseteq DOMAIN m.table
    /\ lev[k[1]] = 1 /\ lev[k[2]] = 2 /\ lev[k[3]] = 3
    /\ m.table[k[1]][0] = Link(k[2], FALSE) /\ m.table[k[2]][0] = Link(k[3], FALSE)
    /\ \A i \in Indices \ {0} : ~m.table[k[1]][i].present /\ ~m.table[k[2]][i].present
    /\ \A i \in Indices : ~m.table[k[3]][i].user /\ m.table[k[3]][i].ps

\* An entry of level n that ring 3 may follow: to a table of the next level
\* that is not the kernel's, or from the last level to a page of a game.
Leads(m, k, lev, e, n) ==
    /\ n < 4 => /\ ~e.ps /\ e.to \in DOMAIN m.table \ Kernels(k)
                /\ lev[e.to] = n + 1
    /\ n = 4 => e.to \notin DOMAIN m.table \cup Reserved /\ (e.to = NULL => m.used = Frames)

\* An entry of level n that ring 3 may not follow: the kernel's, or a copy.
Closed(k, e, n, i) ==
    /\ n = 1 => i = 0 /\ e.to = k[2]
    /\ n = 2 => i = 0 /\ e.to = k[3]
    /\ n = 3 => e.ps
    /\ n # 4

EntryFits(m, k, lev, e, n, i) ==
    e.present => /\ e.to \in m.used
                 /\ e.user => Leads(m, k, lev, e, n)
                 /\ ~e.user => Closed(k, e, n, i)

\* Nothing ring 3 may follow is reached by two entries.
OneParent(m) ==
    \A f, g \in DOMAIN m.table : \A i, j \in Indices :
        /\ Granted(m.table[f][i]) /\ Granted(m.table[g][j])
        /\ m.table[f][i].to = m.table[g][j].to /\ m.table[f][i].to # NULL
        => f = g /\ i = j

Tables(m, k, lev) ==
    /\ m = [used |-> m.used, table |-> m.table]
    /\ m.used \subseteq Frames /\ Reserved \cup {NULL} \subseteq m.used
    /\ DOMAIN m.table \subseteq m.used \ {NULL}
    /\ m.table \in [DOMAIN m.table -> [Indices -> Entry]]
    /\ lev \in [DOMAIN m.table -> 1 .. 4]
    /\ KernelAt(m, k, lev)
    /\ \A f \in DOMAIN m.table : \A i \in Indices :
        EntryFits(m, k, lev, m.table[f][i], lev[f], i)
    /\ OneParent(m)

\* No entry leads ring 3 to f.
Unled(m, f) ==
    \A g \in DOMAIN m.table : \A i \in Indices :
        Granted(m.table[g][i]) => m.table[g][i].to # f

\* A page taken for a game and mapped nowhere, or the 0 of a failed alloc.
Spare(m, f) ==
    /\ f \in m.used
    /\ f \notin DOMAIN m.table \cup Reserved
    /\ f = NULL => m.used = Frames
    /\ f # NULL => Unled(m, f)

\* From m to w tables are only added, and what is spare stays so.
Grows(m, lev, w, lew) ==
    /\ DOMAIN m.table \subseteq DOMAIN w.table
    /\ \A g \in DOMAIN m.table : lew[g] = lev[g]
    /\ \A f \in Frames : Spare(m, f) => Spare(w, f)

\* r is a table of level n, not the kernel's, or NULL, and w what m became.
Reached(m, k, lev, r, n) ==
    \E lew : /\ Tables(r.m, k, lew) /\ Grows(m, lev, r.m, lew)
             /\ r.t # NULL => r.t \in DOMAIN r.m.table \ Kernels(k) /\ lew[r.t] = n

\* Live games have PML4s of their own.
LiveIn(x) == {l \in Loaders : x[l].at # "none"}

Roots(m, k, lev, x) ==
    /\ \A l \in LiveIn(x) : x[l].pml4 \in DOMAIN m.table \ Kernels(k) /\ lev[x[l].pml4] = 1
    /\ \A l, j \in LiveIn(x) : x[l].pml4 = x[j].pml4 => l = j

Spaces(m, kp, x) == \E k, lev : Tables(m, k, lev) /\ k[1] = kp /\ Roots(m, k, lev, x)

SpaceInv ==
    /\ Spaces(Memory, kernel_pml4, exec)
    /\ exec \in [Loaders -> [at : {"none", "mapping", "ring3"}, pml4 : Frames,
                             loads : 0 .. MAX_LOADS]]
    /\ cr3 \in [Loaders -> Frames]

LEMMA FrameNumbers ==
  /\ IsFiniteSet(Frames) /\ Frames \subseteq Nat /\ NULL \in Frames
  /\ Reserved \subseteq Frames \ {NULL} /\ AppPages \subseteq Indices /\ MAX_LOADS \in Nat
  /\ 0 \in Indices
  BY FramesAssumption DEF Indices

LEMMA EntryIs ==
  /\ None \in Entry /\ ~None.present
  /\ \A t \in Frames, u \in BOOLEAN :
        /\ Link(t, u) \in Entry /\ Link(t, u).to = t /\ Link(t, u).present
        /\ ~Link(t, u).ps /\ Link(t, u).user = u
  /\ Blank \in [Indices -> Entry] /\ \A i \in Indices : ~Blank[i].present
<1>1. None \in Entry /\ ~None.present
  BY FrameNumbers DEF None, Entry
<1>2. QED
  BY <1>1 DEF Link, Entry, Blank

LEMMA AllocIsFree ==
  ASSUME NEW m, m.used \subseteq Frames, NULL \in m.used
  PROVE  /\ pmm_alloc_page(m) = NULL <=> m.used = Frames
         /\ pmm_alloc_page(m) # NULL => pmm_alloc_page(m) \in Frames \ m.used
<1> PICK S : S = Frames \ m.used
  OBVIOUS
<1>1. CASE m.used = Frames
  BY <1>1 DEF pmm_alloc_page
<1>2. CASE m.used # Frames
  <2>1. S # {} /\ S \in SUBSET Nat
    BY <1>2, FrameNumbers
  <2>2. \E f \in S : \A g \in S : f <= g
    BY <2>1, LeastExists
  <2>3. pmm_alloc_page(m) = CHOOSE f \in S : \A g \in S : f <= g
    BY <1>2 DEF pmm_alloc_page
  <2>4. pmm_alloc_page(m) \in S
    BY <2>2, <2>3
  <2>5. QED
    BY <1>2, <2>4
<1>3. QED
  BY <1>1, <1>2

LEMMA TableIs ==
  ASSUME NEW m, NEW k, NEW lev, Tables(m, k, lev)
  PROVE  /\ \A f \in DOMAIN m.table : /\ f \in Frames \ {NULL} /\ m.table[f] \in [Indices -> Entry]
                                      /\ lev[f] \in 1 .. 4
         /\ \A f \in DOMAIN m.table, i \in Indices :
                /\ m.table[f][i] \in Entry /\ m.table[f][i].to \in Frames
                /\ m.table[f][i].present \in BOOLEAN /\ m.table[f][i].user \in BOOLEAN
                /\ m.table[f][i].ps \in BOOLEAN
<1>1. \A f \in DOMAIN m.table : /\ f \in Frames \ {NULL} /\ m.table[f] \in [Indices -> Entry]
                                /\ lev[f] \in 1 .. 4
  BY DEF Tables
<1>2. \A f \in DOMAIN m.table, i \in Indices : m.table[f][i] \in Entry
  BY <1>1
<1>3. QED
  BY <1>1, <1>2 DEF Entry

\* w is m with one more table, n, of level c, that no entry leads to yet.
Added(m, k, lev, w, n, c) ==
    \E lew : /\ Tables(w, k, lew) /\ Grows(m, lev, w, lew)
             /\ n \in DOMAIN w.table \ Kernels(k) /\ lew[n] = c
             /\ Unled(w, n)

\* What a table lets ring 3 reach: nothing, when it is new.
AllClosed(m, k, content, c) ==
    \A i \in Indices : content[i].present =>
        ~content[i].user /\ content[i].to \in m.used /\ Closed(k, content[i], c, i)

\* A new table, n, that lets ring 3 nowhere.
LEMMA TableIsAdded ==
  ASSUME NEW m, NEW k, NEW lev, Tables(m, k, lev), NEW n \in Frames \ m.used,
         NEW c \in 1 .. 4, NEW content \in [Indices -> Entry], AllClosed(m, k, content, c),
         NEW w, w = [used |-> w.used, table |-> w.table], w.used = m.used \cup {n},
         DOMAIN w.table = DOMAIN m.table \cup {n}, w.table \in [DOMAIN w.table -> [Indices -> Entry]],
         w.table[n] = content, \A g \in DOMAIN m.table : w.table[g] = m.table[g]
  PROVE  Added(m, k, lev, w, n, c)
<1>l. PICK lew : lew = [g \in DOMAIN m.table \cup {n} |-> IF g = n THEN c ELSE lev[g]]
  OBVIOUS
<1>1. /\ n \notin DOMAIN m.table /\ n \notin Kernels(k) /\ n \notin Reserved \cup {NULL}
      /\ m.used # Frames /\ Kernels(k) \subseteq DOMAIN m.table
  BY DEF Tables, KernelAt
<1>2. /\ DOMAIN lew = DOMAIN w.table /\ lew[n] = c
      /\ \A g \in DOMAIN m.table : lew[g] = lev[g] /\ g # n
      /\ lew \in [DOMAIN w.table -> 1 .. 4]
  <2>1. DOMAIN lew = DOMAIN w.table /\ lew[n] = c
    BY <1>l
  <2>2. \A g \in DOMAIN m.table : lew[g] = lev[g] /\ g # n
    BY <1>1, <1>l
  <2>3. \A g \in DOMAIN m.table : lev[g] \in 1 .. 4
    BY TableIs
  <2>4. lew \in [DOMAIN w.table -> 1 .. 4]
    BY <1>l, <2>1, <2>2, <2>3
  <2>5. QED
    BY <2>1, <2>2, <2>4
<1>3. w.used \subseteq Frames /\ Reserved \cup {NULL} \subseteq w.used
      /\ DOMAIN w.table \subseteq w.used \ {NULL}
  BY <1>1 DEF Tables
<1>4. KernelAt(w, k, lew)
  <2>1. /\ k[1] \in DOMAIN m.table /\ k[2] \in DOMAIN m.table /\ k[3] \in DOMAIN m.table
        /\ KernelAt(m, k, lev)
    BY <1>1 DEF Kernels, Tables
  <2>2. /\ w.table[k[1]] = m.table[k[1]] /\ w.table[k[2]] = m.table[k[2]]
        /\ w.table[k[3]] = m.table[k[3]]
        /\ lew[k[1]] = lev[k[1]] /\ lew[k[2]] = lev[k[2]] /\ lew[k[3]] = lev[k[3]]
        /\ Kernels(k) \subseteq DOMAIN w.table
    BY <1>1, <1>2, <2>1
  <2>3. QED
    BY <2>1, <2>2 DEF KernelAt
<1>5. ASSUME NEW f \in DOMAIN w.table, NEW i \in Indices
      PROVE  EntryFits(w, k, lew, w.table[f][i], lew[f], i)
  <2>1. CASE f = n
    BY <1>2, <2>1 DEF EntryFits, AllClosed
  <2>2. CASE f # n
    <3>1. f \in DOMAIN m.table /\ w.table[f] = m.table[f] /\ lew[f] = lev[f]
      BY <1>2, <2>2
    <3> PICK e : e = m.table[f][i]
      OBVIOUS
    <3>2. EntryFits(m, k, lev, e, lev[f], i)
      BY <3>1 DEF Tables
    <3>3. ASSUME e.present, e.user PROVE Leads(w, k, lew, e, lev[f])
      <4>1. Leads(m, k, lev, e, lev[f]) /\ e.to \in m.used
        BY <3>2, <3>3 DEF EntryFits
      <4>2. QED
        BY <1>1, <1>2, <4>1 DEF Leads
    <3>4. QED
      BY <3>1, <3>2, <3>3 DEF EntryFits
  <2>3. QED
    BY <2>1, <2>2
<1>6. \A i \in Indices : ~Granted(w.table[n][i])
  BY DEF Granted, AllClosed
<1>7. OneParent(w)
  <2>1. OneParent(m)
    BY DEF Tables
  <2>2. \A f \in DOMAIN w.table, i \in Indices :
          Granted(w.table[f][i]) => f \in DOMAIN m.table /\ w.table[f] = m.table[f]
    BY <1>6
  <2> SUFFICES ASSUME NEW f \in DOMAIN w.table, NEW g \in DOMAIN w.table,
                      NEW j \in Indices, NEW h \in Indices,
                      Granted(w.table[f][j]), Granted(w.table[g][h]),
                      w.table[f][j].to = w.table[g][h].to, w.table[f][j].to # NULL
               PROVE  f = g /\ j = h
    BY DEF OneParent
  <2>3. /\ f \in DOMAIN m.table /\ g \in DOMAIN m.table
        /\ w.table[f][j] = m.table[f][j] /\ w.table[g][h] = m.table[g][h]
    BY <2>2
  <2>4. QED
    BY <2>1, <2>3 DEF OneParent
<1>8. Tables(w, k, lew)
  BY <1>2, <1>3, <1>4, <1>5, <1>7 DEF Tables
<1>9. ASSUME NEW f \in Frames, Spare(m, f) PROVE Spare(w, f)
  <2>1. f # n
    BY <1>9 DEF Spare
  <2>2. f # NULL
    BY <1>1, <1>9 DEF Spare
  <2>3. Unled(w, f)
    BY <1>6, <1>9, <2>2 DEF Spare, Unled
  <2>4. QED
    BY <1>9, <2>1, <2>2, <2>3 DEF Spare
<1>10. Grows(m, lev, w, lew)
  BY <1>2, <1>9 DEF Grows
<1>11. ASSUME NEW g \in DOMAIN w.table, NEW i \in Indices, Granted(w.table[g][i])
       PROVE  w.table[g][i].to # n
  <2>1. g \in DOMAIN m.table /\ w.table[g] = m.table[g]
    BY <1>6, <1>11
  <2>2. m.table[g][i].to \in m.used
    BY <1>11, <2>1 DEF Tables, EntryFits, Granted
  <2>3. QED
    BY <2>1, <2>2
<1>12. QED
  BY <1>1, <1>2, <1>8, <1>10, <1>11 DEF Added, Unled

\* A new entry, in a table that is not the kernel's, to where none leads yet.
LEMMA EntryIsSet ==
  ASSUME NEW m, NEW k, NEW lev, Tables(m, k, lev),
         NEW t \in DOMAIN m.table \ Kernels(k), NEW i \in Indices,
         NEW e \in Entry, e.present, e.user, e.to \in m.used, Leads(m, k, lev, e, lev[t]),
         e.to = NULL \/ Unled(m, e.to),
         NEW w, w = [used |-> w.used, table |-> w.table], w.used = m.used,
         w.table = [m.table EXCEPT ![t][i] = e]
  PROVE  /\ Tables(w, k, lev)
         /\ \A f \in Frames : Spare(m, f) /\ f # e.to => Spare(w, f)
<1>1. /\ DOMAIN w.table = DOMAIN m.table /\ w.table[t][i] = e
      /\ \A j \in Indices \ {i} : w.table[t][j] = m.table[t][j]
      /\ \A g \in DOMAIN m.table \ {t} : w.table[g] = m.table[g]
      /\ w.table \in [DOMAIN w.table -> [Indices -> Entry]]
  <2>1. m.table[t] \in [Indices -> Entry] /\ m.table \in [DOMAIN m.table -> [Indices -> Entry]]
    BY DEF Tables
  <2>2. QED
    BY <2>1
<1>2. \A g \in DOMAIN m.table, j \in Indices :
        g # t \/ j # i => w.table[g][j] = m.table[g][j]
  BY <1>1
<1>3. KernelAt(w, k, lev)
  <2>1. KernelAt(m, k, lev) /\ t \notin Kernels(k)
    BY DEF Tables
  <2>2. /\ w.table[k[1]] = m.table[k[1]] /\ w.table[k[2]] = m.table[k[2]]
        /\ w.table[k[3]] = m.table[k[3]]
    BY <1>1, <2>1 DEF Kernels, KernelAt
  <2>3. QED
    BY <1>1, <2>1, <2>2 DEF KernelAt
<1>4. ASSUME NEW f \in DOMAIN w.table, NEW j \in Indices
      PROVE  EntryFits(w, k, lev, w.table[f][j], lev[f], j)
  <2> PICK d : d = w.table[f][j]
    OBVIOUS
  <2>1. CASE f = t /\ j = i
    BY <1>1, <2>1 DEF EntryFits, Leads
  <2>2. CASE ~(f = t /\ j = i)
    <3>1. d = m.table[f][j]
      BY <1>1, <1>2, <2>2
    <3>2. EntryFits(m, k, lev, d, lev[f], j)
      BY <1>1, <3>1 DEF Tables
    <3>3. QED
      BY <1>1, <3>2 DEF EntryFits, Leads
  <2>3. QED
    BY <2>1, <2>2
<1>5. OneParent(w)
  <2> SUFFICES ASSUME NEW f \in DOMAIN w.table, NEW g \in DOMAIN w.table,
                      NEW j \in Indices, NEW h \in Indices,
                      Granted(w.table[f][j]), Granted(w.table[g][h]),
                      w.table[f][j].to = w.table[g][h].to, w.table[f][j].to # NULL
               PROVE  f = g /\ j = h
    BY DEF OneParent
  <2>1. CASE ~(f = t /\ j = i) /\ ~(g = t /\ h = i)
    <3>1. w.table[f][j] = m.table[f][j] /\ w.table[g][h] = m.table[g][h]
      BY <1>1, <1>2, <2>1
    <3>2. QED
      BY <1>1, <3>1 DEF Tables, OneParent
  <2>2. CASE (f = t /\ j = i) /\ ~(g = t /\ h = i)
    <3>1. w.table[f][j] = e /\ w.table[g][h] = m.table[g][h]
      BY <1>1, <1>2, <2>2
    <3>2. QED
      BY <1>1, <3>1 DEF Unled
  <2>3. CASE ~(f = t /\ j = i) /\ (g = t /\ h = i)
    <3>1. w.table[f][j] = m.table[f][j] /\ w.table[g][h] = e
      BY <1>1, <1>2, <2>3
    <3>2. QED
      BY <1>1, <3>1 DEF Unled
  <2>4. QED
    BY <2>1, <2>2, <2>3
<1>6. Tables(w, k, lev)
  BY <1>1, <1>3, <1>4, <1>5 DEF Tables
<1>7. ASSUME NEW f \in Frames, Spare(m, f), f # e.to PROVE Spare(w, f)
  <2>1. ASSUME f # NULL, NEW g \in DOMAIN w.table, NEW j \in Indices, Granted(w.table[g][j])
        PROVE  w.table[g][j].to # f
    <3>1. CASE g = t /\ j = i
      BY <1>1, <1>7, <3>1
    <3>2. CASE ~(g = t /\ j = i)
      BY <1>1, <1>2, <1>7, <2>1, <3>2 DEF Spare, Unled
    <3>3. QED
      BY <3>1, <3>2
  <2>2. QED
    BY <1>1, <1>7, <2>1 DEF Spare, Unled
<1>8. QED
  BY <1>6, <1>7

LEMMA Unmoved ==
  ASSUME NEW m, NEW k, NEW lev, Tables(m, k, lev), NEW t, NEW n,
         t # NULL => t \in DOMAIN m.table \ Kernels(k) /\ lev[t] = n
  PROVE  Reached(m, k, lev, [m |-> m, t |-> t], n)
<1>1. Grows(m, lev, m, lev)
  BY DEF Grows
<1>2. QED
  BY <1>1 DEF Reached

\* A table is made below t, with nothing in it for ring 3 yet.
LEMMA FreshReached ==
  ASSUME NEW m, NEW k, NEW lev, Tables(m, k, lev),
         NEW t \in DOMAIN m.table \ Kernels(k), NEW n \in 1 .. 3, lev[t] = n,
         NEW i \in Indices, NEW content \in [Indices -> Entry],
         AllClosed(m, k, content, n + 1)
  PROVE  Reached(m, k, lev, Fresh(m, t, i, content), n + 1)
<1>f. PICK f : f = pmm_alloc_page(m)
  OBVIOUS
<1>1. f # NULL => f \in Frames \ m.used
  BY <1>f, AllocIsFree DEF Tables
<1>2. CASE f = NULL
  <2>1. Fresh(m, t, i, content) = [m |-> m, t |-> NULL]
    BY <1>2, <1>f DEF Fresh, alloc_table
  <2>2. Reached(m, k, lev, [m |-> m, t |-> NULL], n + 1)
    BY Unmoved
  <2>3. QED
    BY <2>1, <2>2
<1>3. CASE f # NULL
  <2>w. PICK w : w = [used |-> m.used \cup {f},
                      table |-> [g \in DOMAIN m.table \cup {f} |->
                                    IF g = f THEN content ELSE m.table[g]]]
    OBVIOUS
  <2>1. /\ w = [used |-> w.used, table |-> w.table] /\ w.used = m.used \cup {f}
        /\ DOMAIN w.table = DOMAIN m.table \cup {f} /\ w.table[f] = content
        /\ \A g \in DOMAIN m.table : w.table[g] = m.table[g]
        /\ w.table \in [DOMAIN w.table -> [Indices -> Entry]]
    <3>1. f \notin DOMAIN m.table
      BY <1>1, <1>3 DEF Tables
    <3>2. \A g \in DOMAIN m.table : m.table[g] \in [Indices -> Entry]
      BY TableIs
    <3>3. w.table = [g \in DOMAIN m.table \cup {f} |-> IF g = f THEN content ELSE m.table[g]]
      BY <2>w
    <3>4. w.table \in [DOMAIN w.table -> [Indices -> Entry]]
      BY <3>2, <3>3
    <3>5. QED
      BY <2>w, <3>1, <3>3, <3>4
  <2>2. Added(m, k, lev, w, f, n + 1)
    <3>1. f \in Frames \ m.used /\ n + 1 \in 1 .. 4
      BY <1>1, <1>3
    <3>2. QED
      BY <2>1, <3>1, TableIsAdded
  <2> PICK lew : /\ Tables(w, k, lew) /\ Grows(m, lev, w, lew)
                 /\ f \in DOMAIN w.table \ Kernels(k) /\ lew[f] = n + 1
                 /\ Unled(w, f)
    BY <2>2 DEF Added
  <2>e. PICK e : e = Link(f, TRUE)
    OBVIOUS
  <2>3. e \in Entry /\ e.to = f /\ e.present /\ ~e.ps /\ e.user
    BY <1>1, <1>3, <2>e, EntryIs
  <2>a. PICK T : T = [g \in DOMAIN m.table \cup {f} |-> IF g = f THEN Blank ELSE m.table[g]]
    OBVIOUS
  <2>b. PICK u : u = m.used \cup {f}
    OBVIOUS
  <2>4. alloc_table(m) = [m |-> [used |-> u, table |-> T], t |-> f]
    BY <1>3, <1>f, <2>a, <2>b DEF alloc_table
  <2>5. Fresh(m, t, i, content)
          = [m |-> [used |-> u, table |-> [[T EXCEPT ![f] = content] EXCEPT ![t][i] = e]],
             t |-> f]
    <3>n. PICK al : al = alloc_table(m)
      OBVIOUS
    <3>1. al = [m |-> [used |-> u, table |-> T], t |-> f]
      BY <2>4, <3>n
    <3>2. al.t = f /\ al.m = [used |-> u, table |-> T]
      BY <3>1
    <3>m. PICK y : y = al.m
      OBVIOUS
    <3>l. PICK linked : linked = [T EXCEPT ![f] = content, ![t][i] = e]
      OBVIOUS
    <3>0. Fresh(m, t, i, content)
            = [m |-> [al.m EXCEPT !.table = [al.m.table EXCEPT ![al.t] = content,
                                                              ![t][i] = Link(al.t, TRUE)]],
               t |-> al.t]
      BY <1>3, <3>2, <3>n DEF Fresh
    <3>3. Fresh(m, t, i, content) = [m |-> [y EXCEPT !.table = linked], t |-> f]
      BY <2>e, <3>0, <3>2, <3>l, <3>m
    <3>4. [y EXCEPT !.table = linked] = [used |-> u, table |-> linked]
      BY <3>2, <3>m
    <3>5. QED
      BY <3>3, <3>4, <3>l
  <2>6. [T EXCEPT ![f] = content] = w.table
    BY <2>a, <2>w
  <2>x. PICK x : x = [used |-> u, table |-> [w.table EXCEPT ![t][i] = e]]
    OBVIOUS
  <2>7. Fresh(m, t, i, content) = [m |-> x, t |-> f]
    BY <2>5, <2>6, <2>x
  <2>8. /\ x = [used |-> x.used, table |-> x.table] /\ x.used = w.used
        /\ x.table = [w.table EXCEPT ![t][i] = e]
    BY <2>1, <2>b, <2>x
  <2>9. t \in DOMAIN w.table \ Kernels(k) /\ lew[t] = n
    BY <2>1, <2>2 DEF Grows
  <2>10. Leads(w, k, lew, e, lew[t]) /\ e.to \in w.used
    <3>1. n # 4
      OBVIOUS
    <3>2. QED
      BY <2>1, <2>2, <2>3, <2>9, <3>1 DEF Leads
  <2>11. /\ Tables(x, k, lew)
         /\ \A h \in Frames : Spare(w, h) /\ h # f => Spare(x, h)
    BY <2>2, <2>3, <2>8, <2>9, <2>10, EntryIsSet
  <2>12. DOMAIN x.table = DOMAIN w.table
    BY <2>8
  <2>13. Grows(m, lev, x, lew)
    <3>1. \A h \in Frames : Spare(w, h) => h # f
      BY <2>2 DEF Spare
    <3>2. QED
      BY <2>2, <2>11, <2>12, <3>1 DEF Grows
  <2>r. PICK r : r = [m |-> x, t |-> f]
    OBVIOUS
  <2>14. r.m = x /\ r.t = f
    BY <2>r
  <2>15. Reached(m, k, lev, r, n + 1)
    BY <2>2, <2>11, <2>12, <2>13, <2>14 DEF Reached
  <2>16. QED
    BY <2>7, <2>15, <2>r
<1>4. QED
  BY <1>2, <1>3

LEMMA BlankReached ==
  ASSUME NEW m, NEW k, NEW lev, Tables(m, k, lev),
         NEW t \in DOMAIN m.table \ Kernels(k), NEW n \in 1 .. 3, lev[t] = n,
         NEW i \in Indices
  PROVE  Reached(m, k, lev, Fresh(m, t, i, Blank), n + 1)
<1>1. Blank \in [Indices -> Entry] /\ \A j \in Indices : ~Blank[j].present
  BY EntryIs
<1> PICK b : b = Blank
  OBVIOUS
<1>2. AllClosed(m, k, b, n + 1)
  BY <1>1 DEF AllClosed
<1>3. QED
  BY <1>1, <1>2, FreshReached

\* One level down, never into a table of the kernel's: that one is copied.
LEMMA NextLevel ==
  ASSUME NEW m, NEW k, NEW lev, Tables(m, k, lev),
         NEW t \in DOMAIN m.table \ Kernels(k), NEW n \in 1 .. 2, lev[t] = n,
         NEW i \in Indices
  PROVE  Reached(m, k, lev, user_next_level(m, t, i, k[n]), n + 1)
<1>e. PICK e : e = m.table[t][i]
  OBVIOUS
<1>k. PICK kt : kt = k[n]
  OBVIOUS
<1>0. n \in 1 .. 3 /\ (n = 1 \/ n = 2)
  OBVIOUS
<1>1. EntryFits(m, k, lev, e, n, i)
  BY <1>e DEF Tables
<1>2. /\ kt \in DOMAIN m.table /\ kt # NULL
      /\ m.table[kt][0] = Link(k[n + 1], FALSE) /\ k[n + 1] \in Kernels(k)
      /\ k[n + 1] \in DOMAIN m.table /\ lev[k[n + 1]] = n + 1
      /\ \A j \in Indices \ {0} : ~m.table[kt][j].present
  <2>1. KernelAt(m, k, lev)
    BY DEF Tables
  <2>2. CASE n = 1
    <3>1. kt = k[1] /\ n + 1 = 2 /\ k[1] \in DOMAIN m.table /\ k[2] \in DOMAIN m.table
      BY <1>k, <2>1, <2>2 DEF KernelAt, Kernels
    <3>2. kt # NULL
      BY <3>1, TableIs
    <3>3. QED
      BY <2>1, <3>1, <3>2 DEF KernelAt, Kernels
  <2>3. CASE n = 2
    <3>1. kt = k[2] /\ n + 1 = 3 /\ k[2] \in DOMAIN m.table /\ k[3] \in DOMAIN m.table
      BY <1>k, <2>1, <2>3 DEF KernelAt, Kernels
    <3>2. kt # NULL
      BY <3>1, TableIs
    <3>3. QED
      BY <2>1, <3>1, <3>2 DEF KernelAt, Kernels
  <2>4. QED
    BY <1>0, <2>2, <2>3
<1> PICK q : q = k[n + 1]
  OBVIOUS
<1>3. q \in Frames /\ m.table[kt][0].present /\ m.table[kt][0].to = q
  BY <1>2, TableIs, EntryIs
<1>4. CASE ~e.present
  BY <1>0, <1>4, <1>e, BlankReached DEF user_next_level
<1>5. CASE e.present /\ Shared(m, t, i, kt)
  <2>1. i = 0
    BY <1>2, <1>5 DEF Shared
  <2>c. PICK c : c = m.table[q]
    OBVIOUS
  <2>2. user_next_level(m, t, i, kt) = Fresh(m, t, i, c)
    BY <1>3, <1>5, <1>e, <2>1, <2>c DEF user_next_level
  <2>3. c \in [Indices -> Entry]
    BY <1>2, <2>c, TableIs
  <2>4. ASSUME NEW j \in Indices, c[j].present
        PROVE  ~c[j].user /\ c[j].to \in m.used /\ Closed(k, c[j], n + 1, j)
    <3>1. EntryFits(m, k, lev, c[j], n + 1, j)
      BY <1>2, <2>c DEF Tables
    <3>2. ~c[j].user
      <4>1. KernelAt(m, k, lev)
        BY DEF Tables
      <4>2. CASE n = 1
        <5>1. c = m.table[k[2]] /\ k[3] \in Frames
          BY <2>c, <4>1, <4>2, TableIs DEF KernelAt, Kernels
        <5>2. j = 0
          BY <2>4, <4>1, <5>1 DEF KernelAt
        <5>3. QED
          BY <4>1, <5>1, <5>2, EntryIs DEF KernelAt
      <4>3. CASE n = 2
        <5>1. c = m.table[k[3]]
          BY <2>c, <4>3
        <5>2. QED
          BY <4>1, <5>1 DEF KernelAt
      <4>4. QED
        BY <1>0, <4>2, <4>3
    <3>3. QED
      BY <2>4, <3>1, <3>2 DEF EntryFits
  <2>5. Reached(m, k, lev, Fresh(m, t, i, c), n + 1)
    <3>1. AllClosed(m, k, c, n + 1)
      BY <2>4 DEF AllClosed
    <3>2. QED
      BY <1>0, <2>3, <3>1, FreshReached
  <2>6. QED
    BY <1>k, <2>2, <2>5
<1>6. CASE e.present /\ ~Shared(m, t, i, kt)
  <2>1. user_next_level(m, t, i, kt) = [m |-> m, t |-> e.to]
    BY <1>6, <1>e DEF user_next_level
  <2>2. e.user
    <3> SUFFICES ASSUME ~e.user PROVE FALSE
      BY <1>e, TableIs
    <3>1. Closed(k, e, n, i)
      BY <1>1, <1>6 DEF EntryFits
    <3>2. i = 0 /\ e.to = q
      BY <1>0, <3>1 DEF Closed
    <3>3. QED
      BY <1>2, <1>3, <1>6, <1>e, <3>2 DEF Shared
  <2>3. e.to \in DOMAIN m.table \ Kernels(k) /\ lev[e.to] = n + 1
    BY <1>0, <1>1, <1>6, <2>2 DEF EntryFits, Leads
  <2>4. Reached(m, k, lev, [m |-> m, t |-> e.to], n + 1)
    BY <2>3, Unmoved
  <2>5. QED
    BY <1>k, <2>1, <2>4
<1>7. QED
  BY <1>4, <1>5, <1>6, <1>k

LEMMA PageTableReached ==
  ASSUME NEW m, NEW k, NEW lev, Tables(m, k, lev),
         NEW t \in DOMAIN m.table \ Kernels(k), lev[t] = 3, NEW i \in Indices
  PROVE  Reached(m, k, lev, PageTable(m, t, i), 4)
<1>e. PICK e : e = m.table[t][i]
  OBVIOUS
<1>1. EntryFits(m, k, lev, e, 3, i) /\ 3 \in 1 .. 3 /\ 3 + 1 = 4
  BY <1>e DEF Tables
<1>2. CASE ~e.present \/ e.ps
  <2>1. PageTable(m, t, i) = Fresh(m, t, i, Blank)
    BY <1>2, <1>e DEF PageTable
  <2>2. QED
    BY <1>1, <2>1, BlankReached
<1>3. CASE e.present /\ ~e.ps
  <2>1. PageTable(m, t, i) = [m |-> m, t |-> e.to]
    BY <1>3, <1>e DEF PageTable
  <2>2. e.user
    BY <1>1, <1>3, <1>e, TableIs DEF EntryFits, Closed
  <2>3. e.to \in DOMAIN m.table \ Kernels(k) /\ lev[e.to] = 4
    BY <1>1, <1>3, <2>2 DEF EntryFits, Leads
  <2>4. Reached(m, k, lev, [m |-> m, t |-> e.to], 4)
    BY <2>3, Unmoved
  <2>5. QED
    BY <2>1, <2>4
<1>4. QED
  BY <1>2, <1>3, <1>e, TableIs

\* Two steps down are one: from the table the first of them reached, if any.
LEMMA ReachedOn ==
  ASSUME NEW m, NEW k, NEW lev, NEW r, NEW n, NEW s, NEW c, Reached(m, k, lev, r, n),
         r.t = NULL => s = r,
         \A lew : /\ Tables(r.m, k, lew) /\ r.t # NULL
                  /\ r.t \in DOMAIN r.m.table \ Kernels(k) /\ lew[r.t] = n
                  => Reached(r.m, k, lew, s, c)
  PROVE  Reached(m, k, lev, s, c)
<1>1. PICK lew : /\ Tables(r.m, k, lew) /\ Grows(m, lev, r.m, lew)
                 /\ r.t # NULL => r.t \in DOMAIN r.m.table \ Kernels(k) /\ lew[r.t] = n
  BY DEF Reached
<1>2. CASE r.t = NULL
  BY <1>1, <1>2 DEF Reached
<1>3. CASE r.t # NULL
  <2>1. Reached(r.m, k, lew, s, c)
    BY <1>1, <1>3
  <2>2. PICK lex : /\ Tables(s.m, k, lex) /\ Grows(r.m, lew, s.m, lex)
                   /\ s.t # NULL => s.t \in DOMAIN s.m.table \ Kernels(k) /\ lex[s.t] = c
    BY <2>1 DEF Reached
  <2>3. Grows(m, lev, s.m, lex)
    BY <1>1, <2>2 DEF Grows
  <2>4. QED
    BY <2>2, <2>3 DEF Reached
<1>4. QED
  BY <1>2, <1>3

LEMMA PagesAre ==
  ASSUME NEW v \in Pages
  PROVE  v[1] = 0 /\ v[2] \in Indices /\ v[3] \in Indices /\ v[4] \in Indices
<1>1. CASE v = StackPage
  BY <1>1 DEF StackPage, Indices
<1>2. CASE \E i \in AppPages : v = AppPage(i)
  <2>1. PICK i \in AppPages : v = AppPage(i)
    BY <1>2
  <2>2. i \in Indices
    BY FrameNumbers
  <2>3. QED
    BY <2>1, <2>2 DEF AppPage, Indices
<1>3. QED
  BY <1>1, <1>2 DEF Pages

\* What m became by one more page, or by giving up on it.
Mapped(m, k, lev, w) ==
    \E lew : /\ Tables(w, k, lew) /\ DOMAIN m.table \subseteq DOMAIN w.table
             /\ \A g \in DOMAIN m.table : lew[g] = lev[g]

LEMMA PageIsMapped ==
  ASSUME NEW m, NEW k, NEW lev, Tables(m, k, lev), k[1] = kernel_pml4,
         NEW pml4 \in DOMAIN m.table \ Kernels(k), lev[pml4] = 1,
         NEW v \in Pages, NEW frame \in Frames, Spare(m, frame), NEW write \in BOOLEAN
  PROVE  Mapped(m, k, lev, paging_map_page_to(m, pml4, v, frame, write))
<1>v. v[1] = 0 /\ v[2] \in Indices /\ v[3] \in Indices /\ v[4] \in Indices /\ v[1] \in Indices
  BY PagesAre, FrameNumbers
<1>a. PICK pdpt : pdpt = user_next_level(m, pml4, v[1], kernel_pml4)
  OBVIOUS
<1>b. PICK pd : pd = IF pdpt.t = NULL THEN pdpt
                     ELSE user_next_level(pdpt.m, pdpt.t, v[2], k[2])
  OBVIOUS
<1>c. PICK pt : pt = IF pd.t = NULL THEN pd ELSE PageTable(pd.m, pd.t, v[3])
  OBVIOUS
<1>e. PICK e : e = [to |-> frame, present |-> TRUE, ps |-> FALSE, user |-> TRUE,
                    write |-> write]
  OBVIOUS
<1>1. KernelNext(m, kernel_pml4, v[1]) = k[2]
  <2>1. /\ k[1] \in DOMAIN m.table /\ k[2] \in DOMAIN m.table
        /\ m.table[k[1]][0] = Link(k[2], FALSE)
    BY DEF Tables, KernelAt, Kernels
  <2>2. k[1] # NULL /\ k[2] \in Frames
    BY <2>1, TableIs
  <2>3. m.table[k[1]][0].present /\ m.table[k[1]][0].to = k[2]
    BY <2>1, <2>2, EntryIs
  <2>4. QED
    BY <1>v, <2>2, <2>3 DEF KernelNext
<1>w. PICK w : w = paging_map_page_to(m, pml4, v, frame, write)
  OBVIOUS
<1>2. w = IF pt.t = NULL THEN pt.m ELSE [pt.m EXCEPT !.table[pt.t][v[4]] = e]
  <2> DEFINE kp == KernelNext(m, kernel_pml4, v[1])
             A == user_next_level(m, pml4, v[1], kernel_pml4)
             B == IF A.t = NULL THEN A ELSE user_next_level(A.m, A.t, v[2], kp)
             C == IF B.t = NULL THEN B ELSE PageTable(B.m, B.t, v[3])
             D == [to |-> frame, present |-> TRUE, ps |-> FALSE, user |-> TRUE, write |-> write]
  <2>1. w = IF C.t = NULL THEN C.m ELSE [C.m EXCEPT !.table[C.t][v[4]] = D]
    BY <1>w DEF paging_map_page_to
  <2>2. kp = k[2] /\ A = pdpt /\ D = e
    BY <1>1, <1>a, <1>e
  <2> HIDE DEF kp, A, D
  <2>3. B = pd
    BY <1>b, <2>2
  <2> HIDE DEF B
  <2>4. C = pt
    BY <1>c, <2>3
  <2> HIDE DEF C
  <2>5. QED
    BY <2>1, <2>2, <2>4
<1>3. Reached(m, k, lev, pdpt, 2)
  <2>1. Reached(m, k, lev, user_next_level(m, pml4, v[1], k[1]), 1 + 1)
    BY <1>v, NextLevel
  <2>2. QED
    BY <1>a, <2>1
<1>4. Reached(m, k, lev, pd, 3)
  <2>1. ASSUME NEW lew, Tables(pdpt.m, k, lew), pdpt.t # NULL,
               pdpt.t \in DOMAIN pdpt.m.table \ Kernels(k), lew[pdpt.t] = 2
        PROVE  Reached(pdpt.m, k, lew, pd, 3)
    <3>1. Reached(pdpt.m, k, lew, user_next_level(pdpt.m, pdpt.t, v[2], k[2]), 2 + 1)
      BY <1>v, <2>1, NextLevel
    <3>2. QED
      BY <1>b, <2>1, <3>1
  <2>2. pdpt.t = NULL => pd = pdpt
    BY <1>b
  <2>3. QED
    BY <1>3, <2>1, <2>2, ReachedOn
<1>5. Reached(m, k, lev, pt, 4)
  <2>1. ASSUME NEW lew, Tables(pd.m, k, lew), pd.t # NULL,
               pd.t \in DOMAIN pd.m.table \ Kernels(k), lew[pd.t] = 3
        PROVE  Reached(pd.m, k, lew, pt, 4)
    <3>1. Reached(pd.m, k, lew, PageTable(pd.m, pd.t, v[3]), 4)
      BY <1>v, <2>1, PageTableReached
    <3>2. QED
      BY <1>c, <2>1, <3>1
  <2>2. pd.t = NULL => pt = pd
    BY <1>c
  <2>3. QED
    BY <1>4, <2>1, <2>2, ReachedOn
<1>6. PICK lew : /\ Tables(pt.m, k, lew) /\ Grows(m, lev, pt.m, lew)
                 /\ pt.t # NULL => pt.t \in DOMAIN pt.m.table \ Kernels(k) /\ lew[pt.t] = 4
  BY <1>5 DEF Reached
<1>7. CASE pt.t = NULL
  <2>1. w = pt.m
    BY <1>2, <1>7
  <2>2. Mapped(m, k, lev, w)
    BY <1>6, <2>1 DEF Mapped, Grows
  <2>3. QED
    BY <1>w, <2>2
<1>8. CASE pt.t # NULL
  <2>y. PICK y, t, i : y = pt.m /\ t = pt.t /\ i = v[4]
    OBVIOUS
  <2>1. /\ Tables(y, k, lew) /\ t \in DOMAIN y.table \ Kernels(k) /\ lew[t] = 4
        /\ i \in Indices /\ Spare(y, frame)
    BY <1>6, <1>8, <1>v, <2>y DEF Grows
  <2>0. w = [y EXCEPT !.table[t][i] = e]
    BY <1>2, <1>8, <2>y
  <2>2. /\ e \in Entry /\ e.to = frame /\ e.present /\ e.user
    BY <1>e DEF Entry
  <2>3. y = [used |-> y.used, table |-> y.table]
    BY <2>1 DEF Tables
  <2>4. /\ w = [used |-> w.used, table |-> w.table] /\ w.used = y.used
        /\ w.table = [y.table EXCEPT ![t][i] = e]
    BY <2>0, <2>3
  <2>5. /\ e.to \in y.used /\ Leads(y, k, lew, e, lew[t])
        /\ e.to = NULL \/ Unled(y, e.to)
    BY <2>1, <2>2 DEF Spare, Leads
  <2>6. Tables(w, k, lew)
    BY <2>1, <2>2, <2>4, <2>5, EntryIsSet
  <2>7. DOMAIN w.table = DOMAIN y.table
    BY <2>4
  <2>8. Mapped(m, k, lev, w)
    BY <1>6, <2>6, <2>7, <2>y DEF Mapped, Grows
  <2>9. QED
    BY <1>w, <2>8
<1>9. QED
  BY <1>7, <1>8

LEMMA PageIsTaken ==
  ASSUME NEW m, NEW k, NEW lev, Tables(m, k, lev), NEW f, f = pmm_alloc_page(m),
         NEW x, x = IF f = NULL THEN m ELSE Taking(m, f)
  PROVE  Tables(x, k, lev) /\ Spare(x, f) /\ x.table = m.table /\ f \in Frames
<1>1. /\ m = [used |-> m.used, table |-> m.table]
      /\ m.used \subseteq Frames /\ Reserved \cup {NULL} \subseteq m.used
      /\ DOMAIN m.table \subseteq m.used \ {NULL}
  BY DEF Tables
<1>2. /\ f = NULL <=> m.used = Frames
      /\ f # NULL => f \in Frames \ m.used
  BY <1>1, AllocIsFree
<1>3. CASE f = NULL
  BY <1>1, <1>2, <1>3, FrameNumbers DEF Spare
<1>4. CASE f # NULL
  <2>0. x = [m EXCEPT !.used = @ \cup {f}]
    BY <1>4 DEF Taking
  <2>1. x = [used |-> x.used, table |-> x.table] /\ x.used = m.used \cup {f} /\ x.table = m.table
    BY <1>1, <2>0
  <2>2. KernelAt(x, k, lev)
    BY <2>1 DEF Tables, KernelAt
  <2>3. OneParent(x)
    BY <2>1 DEF Tables, OneParent
  <2>4. ASSUME NEW g \in DOMAIN x.table, NEW i \in Indices
        PROVE  EntryFits(x, k, lev, x.table[g][i], lev[g], i)
    <3> PICK e : e = x.table[g][i]
      OBVIOUS
    <3>1. EntryFits(m, k, lev, e, lev[g], i)
      BY <2>1 DEF Tables
    <3>2. QED
      BY <1>2, <1>4, <2>1, <3>1 DEF EntryFits, Leads
  <2>5. Tables(x, k, lev)
    BY <1>1, <1>2, <1>4, <2>1, <2>2, <2>3, <2>4 DEF Tables
  <2>6. Unled(x, f)
    <3> SUFFICES ASSUME NEW g \in DOMAIN m.table, NEW i \in Indices, Granted(m.table[g][i])
                 PROVE  m.table[g][i].to # f
      BY <2>1 DEF Unled
    <3>1. m.table[g][i].to \in m.used
      BY DEF Tables, EntryFits, Granted
    <3>2. QED
      BY <1>2, <1>4, <3>1
  <2>7. Spare(x, f)
    BY <1>1, <1>2, <1>4, <2>1, <2>6 DEF Spare
  <2>8. QED
    BY <1>2, <1>4, <2>1, <2>5, <2>7
<1>5. QED
  BY <1>3, <1>4

LEMMA PageMapped ==
  ASSUME NEW k, NEW lev, Tables(Memory, k, lev), k[1] = kernel_pml4,
         NEW pml4 \in DOMAIN table \ Kernels(k), lev[pml4] = 1,
         NEW v \in Pages, NEW write \in BOOLEAN, MapPage(pml4, v, write)
  PROVE  Mapped(Memory, k, lev, Memory')
<1>m. PICK m : m = Memory
  OBVIOUS
<1>f. PICK f : f = pmm_alloc_page(m)
  OBVIOUS
<1>x. PICK x : x = IF f = NULL THEN m ELSE Taking(m, f)
  OBVIOUS
<1>w. PICK w : w = paging_map_page_to(x, pml4, v, f, write)
  OBVIOUS
<1>1. Tables(m, k, lev) /\ m.table = table
  BY <1>m DEF Memory
<1>2. Become(w)
  BY <1>f, <1>m, <1>w, <1>x DEF MapPage
<1>3. Tables(x, k, lev) /\ Spare(x, f) /\ x.table = m.table /\ f \in Frames
  BY <1>1, <1>f, <1>x, PageIsTaken
<1>4. Mapped(x, k, lev, w)
  <2>1. pml4 \in DOMAIN x.table \ Kernels(k)
    BY <1>1, <1>3
  <2>2. QED
    BY <1>3, <1>w, <2>1, PageIsMapped
<1>5. PICK lew : /\ Tables(w, k, lew) /\ DOMAIN x.table \subseteq DOMAIN w.table
                 /\ \A g \in DOMAIN x.table : lew[g] = lev[g]
  BY <1>4 DEF Mapped
<1>6. Mapped(m, k, lev, w)
  BY <1>3, <1>5 DEF Mapped
<1>7. w = [used |-> w.used, table |-> w.table]
  BY <1>5 DEF Tables
<1>8. Memory' = w
  BY <1>2, <1>7 DEF Become, Memory
<1>9. QED
  BY <1>6, <1>8, <1>m

\* A step that maps a page, whatever becomes of the task.
LEMMA SpacesGrow ==
  ASSUME NEW m, NEW w, NEW kp, NEW x, NEW y, NEW k, NEW lev,
         Tables(m, k, lev), k[1] = kp, Roots(m, k, lev, x), Mapped(m, k, lev, w),
         LiveIn(y) \subseteq LiveIn(x), \A l \in LiveIn(y) : y[l].pml4 = x[l].pml4
  PROVE  Spaces(w, kp, y)
<1>1. PICK lew : /\ Tables(w, k, lew) /\ DOMAIN m.table \subseteq DOMAIN w.table
                 /\ \A g \in DOMAIN m.table : lew[g] = lev[g]
  BY DEF Mapped
<1>2. Roots(w, k, lew, y)
  BY <1>1 DEF Roots
<1>3. QED
  BY <1>1, <1>2 DEF Spaces

LEMMA SpacesStay ==
  ASSUME NEW m, NEW kp, NEW x, NEW y, Spaces(m, kp, x),
         LiveIn(y) \subseteq LiveIn(x), \A l \in LiveIn(y) : y[l].pml4 = x[l].pml4
  PROVE  Spaces(m, kp, y)
<1>1. PICK k, lev : Tables(m, k, lev) /\ k[1] = kp /\ Roots(m, k, lev, x)
  BY DEF Spaces
<1>2. Mapped(m, k, lev, m)
  BY <1>1 DEF Mapped
<1>3. QED
  BY <1>1, <1>2, SpacesGrow

LEMMA BeginExecKeeps ==
  ASSUME SpaceInv, NEW l \in Loaders, BeginExec(l)
  PROVE  SpaceInv'
<1>m. PICK m, kp, x : m = Memory /\ kp = kernel_pml4 /\ x = exec
  OBVIOUS
<1>1. PICK k, lev : Tables(m, k, lev) /\ k[1] = kp /\ Roots(m, k, lev, x)
  BY <1>m DEF SpaceInv, Spaces
<1>2. kp \in DOMAIN m.table /\ kp \in Frames
  BY <1>1, TableIs DEF Tables, KernelAt, Kernels
<1>3. cr3' \in [Loaders -> Frames]
  <2>1. cr3 \in [Loaders -> Frames] /\ cr3' = [cr3 EXCEPT ![l] = kp]
    BY <1>m DEF SpaceInv, BeginExec
  <2>2. QED
    BY <1>2, <2>1
<1>f. PICK f : f = pmm_alloc_page(m)
  OBVIOUS
<1>4. CASE f = NULL
  <2>1. alloc_table(m).t = NULL
    BY <1>4, <1>f DEF alloc_table
  <2>2. UNCHANGED <<used, table, exec, kernel_pml4>>
    BY <1>m, <2>1 DEF BeginExec
  <2>3. QED
    BY <1>3, <2>2 DEF SpaceInv, Memory
<1>5. CASE f # NULL
  <2>1. f \in Frames \ m.used
    BY <1>1, <1>5, <1>f, AllocIsFree DEF Tables
  <2>c. PICK c : c = m.table[kp]
    OBVIOUS
  <2>u. PICK u : u = m.used \cup {f}
    OBVIOUS
  <2>t. PICK T : T = [g \in DOMAIN m.table \cup {f} |-> IF g = f THEN Blank ELSE m.table[g]]
    OBVIOUS
  <2>2. alloc_table(m) = [m |-> [used |-> u, table |-> T], t |-> f]
    BY <1>5, <1>f, <2>t, <2>u DEF alloc_table
  <2>a. PICK al : al = alloc_table(m)
    OBVIOUS
  <2>3. al.t = f /\ al.m = [used |-> u, table |-> T]
    BY <2>2, <2>a
  <2>w. PICK w : w = [used |-> u, table |-> [T EXCEPT ![f] = c]]
    OBVIOUS
  <2>z. PICK z : z = al.m
    OBVIOUS
  <2>4. [z EXCEPT !.table[f] = c] = w
    BY <2>3, <2>w, <2>z
  <2>5. Become(w) /\ exec' = [x EXCEPT ![l] = [at |-> "mapping", pml4 |-> f, loads |-> 0]]
        /\ kernel_pml4' = kp /\ x[l].at = "none"
    <3>1. /\ Become([al.m EXCEPT !.table[al.t] = table[kernel_pml4]])
          /\ exec' = [x EXCEPT ![l] = [at |-> "mapping", pml4 |-> al.t, loads |-> 0]]
          /\ kernel_pml4' = kp /\ x[l].at = "none"
      BY <1>5, <1>m, <2>3, <2>a DEF BeginExec
    <3>2. table[kernel_pml4] = c
      BY <1>m, <2>c DEF Memory
    <3>3. QED
      BY <2>3, <2>4, <2>z, <3>1, <3>2
  <2>6. /\ w = [used |-> w.used, table |-> w.table] /\ w.used = m.used \cup {f}
        /\ DOMAIN w.table = DOMAIN m.table \cup {f} /\ w.table[f] = c
        /\ \A g \in DOMAIN m.table : w.table[g] = m.table[g]
        /\ w.table \in [DOMAIN w.table -> [Indices -> Entry]]
    <3>1. f \notin DOMAIN m.table
      BY <1>1, <2>1 DEF Tables
    <3>2. \A g \in DOMAIN m.table : m.table[g] \in [Indices -> Entry]
      BY <1>1, TableIs
    <3>3. w.table = [g \in DOMAIN m.table \cup {f} |-> IF g = f THEN c ELSE m.table[g]]
      BY <2>t, <2>w
    <3>4. w.table \in [DOMAIN w.table -> [Indices -> Entry]]
      BY <1>2, <2>c, <3>2, <3>3
    <3>5. QED
      BY <2>u, <2>w, <3>1, <3>3, <3>4
  <2>7. c \in [Indices -> Entry] /\ AllClosed(m, k, c, 1) /\ 1 \in 1 .. 4
    <3>1. c \in [Indices -> Entry]
      BY <1>1, <1>2, <2>c, TableIs
    <3>2. KernelAt(m, k, lev) /\ k[2] \in Frames
      BY <1>1, TableIs DEF Tables, KernelAt, Kernels
    <3>3. ASSUME NEW i \in Indices, c[i].present
          PROVE  ~c[i].user /\ c[i].to \in m.used /\ Closed(k, c[i], 1, i)
      <4>1. EntryFits(m, k, lev, c[i], 1, i)
        BY <1>1, <1>2, <2>c, <3>2 DEF Tables, KernelAt
      <4>2. i = 0
        BY <1>1, <2>c, <3>2, <3>3 DEF KernelAt
      <4>3. ~c[i].user
        BY <1>1, <2>c, <3>2, <4>2, EntryIs DEF KernelAt
      <4>4. QED
        BY <3>3, <4>1, <4>3 DEF EntryFits
    <3>4. QED
      BY <3>1, <3>3 DEF AllClosed
  <2>8. Added(m, k, lev, w, f, 1)
    BY <1>1, <2>1, <2>6, <2>7, TableIsAdded
  <2>9. PICK lew : /\ Tables(w, k, lew) /\ Grows(m, lev, w, lew)
                   /\ f \in DOMAIN w.table \ Kernels(k) /\ lew[f] = 1
    BY <2>8 DEF Added
  <2>y. PICK y : y = exec'
    OBVIOUS
  <2>10. /\ y[l].pml4 = f /\ l \notin LiveIn(x)
         /\ \A j \in Loaders \ {l} : y[j] = x[j]
         /\ y \in [Loaders -> [at : {"none", "mapping", "ring3"}, pml4 : Frames,
                               loads : 0 .. MAX_LOADS]]
    <3>1. x \in [Loaders -> [at : {"none", "mapping", "ring3"}, pml4 : Frames,
                             loads : 0 .. MAX_LOADS]]
      BY <1>m DEF SpaceInv
    <3>2. 0 \in 0 .. MAX_LOADS
      BY FrameNumbers
    <3>3. [at |-> "mapping", pml4 |-> f, loads |-> 0] \in
            [at : {"none", "mapping", "ring3"}, pml4 : Frames, loads : 0 .. MAX_LOADS]
      BY <2>1, <3>2
    <3>4. QED
      BY <2>5, <2>y, <3>1, <3>3 DEF LiveIn
  <2>11. Roots(w, k, lew, y)
    <3>1. \A j \in LiveIn(y) \ {l} : j \in LiveIn(x) /\ y[j].pml4 = x[j].pml4
      BY <2>10 DEF LiveIn
    <3>2. \A j \in LiveIn(x) : x[j].pml4 \in DOMAIN m.table /\ x[j].pml4 # f
      BY <1>1, <2>1 DEF Roots, Tables
    <3>3. QED
      BY <1>1, <2>9, <2>10, <3>1, <3>2 DEF Roots, Grows
  <2>12. Memory' = w
    BY <2>5, <2>6 DEF Become, Memory
  <2>13. Spaces(w, kp, y)
    BY <1>1, <2>9, <2>11 DEF Spaces
  <2>14. QED
    BY <1>3, <2>5, <2>10, <2>12, <2>13, <2>y DEF SpaceInv
<1>6. QED
  BY <1>4, <1>5

\* LoadPage and EnterUserMode: slot l, which is live, maps v.
LEMMA MappingKeeps ==
  ASSUME SpaceInv, NEW l \in Loaders, exec[l].at = "mapping",
         NEW v \in Pages, NEW write \in BOOLEAN, MapPage(exec[l].pml4, v, write),
         LiveIn(exec') \subseteq LiveIn(exec), kernel_pml4' = kernel_pml4,
         \A j \in LiveIn(exec') : exec'[j].pml4 = exec[j].pml4
  PROVE  Spaces(Memory, kernel_pml4, exec)'
<1>m. PICK m, kp, x, y, w : /\ m = Memory /\ kp = kernel_pml4 /\ x = exec /\ y = exec'
                            /\ w = Memory'
  OBVIOUS
<1>1. PICK k, lev : Tables(m, k, lev) /\ k[1] = kp /\ Roots(m, k, lev, x)
  BY <1>m DEF SpaceInv, Spaces
<1>2. l \in LiveIn(x)
  BY <1>m DEF LiveIn
<1>3. x[l].pml4 \in DOMAIN m.table \ Kernels(k) /\ lev[x[l].pml4] = 1
  BY <1>1, <1>2 DEF Roots
<1>4. Mapped(m, k, lev, w)
  <2>1. /\ Tables(Memory, k, lev) /\ k[1] = kernel_pml4 /\ lev[exec[l].pml4] = 1
        /\ exec[l].pml4 \in DOMAIN table \ Kernels(k)
    BY <1>1, <1>3, <1>m DEF Memory
  <2>p. PICK p : p = exec[l].pml4
    OBVIOUS
  <2>2. /\ Tables(Memory, k, lev) /\ k[1] = kernel_pml4 /\ lev[p] = 1
        /\ p \in DOMAIN table \ Kernels(k) /\ MapPage(p, v, write)
    BY <2>1, <2>p
  <2>3. Mapped(Memory, k, lev, Memory')
    BY <2>2, PageMapped
  <2>4. QED
    BY <2>3, <1>m
<1>5. LiveIn(y) \subseteq LiveIn(x) /\ \A j \in LiveIn(y) : y[j].pml4 = x[j].pml4
  BY <1>m
<1>6. Spaces(w, kp, y)
  BY <1>1, <1>4, <1>5, SpacesGrow
<1>7. QED
  BY <1>6, <1>m

LEMMA PagesHas == StackPage \in Pages /\ \A i \in AppPages : AppPage(i) \in Pages
  BY DEF Pages

LEMMA LoadPageKeeps ==
  ASSUME SpaceInv, NEW l \in Loaders, LoadPage(l)
  PROVE  SpaceInv'
<1>1. /\ exec[l].at = "mapping" /\ exec[l].loads < MAX_LOADS
      /\ exec' = [exec EXCEPT ![l].loads = @ + 1]
      /\ kernel_pml4' = kernel_pml4 /\ cr3' = cr3
  BY DEF LoadPage
<1>2. PICK i \in AppPages : MapPage(exec[l].pml4, AppPage(i), i \notin TextPages)
  BY DEF LoadPage
<1>3. exec \in [Loaders -> [at : {"none", "mapping", "ring3"}, pml4 : Frames,
                            loads : 0 .. MAX_LOADS]]
  BY DEF SpaceInv
<1>r. PICK r : r = [exec[l] EXCEPT !.loads = @ + 1]
  OBVIOUS
<1>4. /\ r \in [at : {"none", "mapping", "ring3"}, pml4 : Frames, loads : 0 .. MAX_LOADS]
      /\ r.at = exec[l].at /\ r.pml4 = exec[l].pml4
  <2>1. exec[l] \in [at : {"none", "mapping", "ring3"}, pml4 : Frames, loads : 0 .. MAX_LOADS]
    BY <1>3
  <2>2. exec[l].loads + 1 \in 0 .. MAX_LOADS
    BY <1>1, <2>1, FrameNumbers
  <2>3. QED
    BY <1>r, <2>1, <2>2
<1>5. /\ exec' \in [Loaders -> [at : {"none", "mapping", "ring3"}, pml4 : Frames,
                                loads : 0 .. MAX_LOADS]]
      /\ \A j \in Loaders : exec'[j].at = exec[j].at /\ exec'[j].pml4 = exec[j].pml4
  <2>1. exec' = [exec EXCEPT ![l] = r]
    BY <1>1, <1>r
  <2>2. QED
    BY <1>3, <1>4, <2>1
<1>6. LiveIn(exec') = LiveIn(exec) /\ \A j \in LiveIn(exec') : exec'[j].pml4 = exec[j].pml4
  BY <1>5 DEF LiveIn
<1>7. Spaces(Memory, kernel_pml4, exec)'
  <2>w. PICK v, write : v = AppPage(i) /\ write = (i \notin TextPages)
    OBVIOUS
  <2>1. v \in Pages /\ write \in BOOLEAN /\ MapPage(exec[l].pml4, v, write)
    BY <1>2, <2>w, PagesHas
  <2>2. QED
    BY <1>1, <1>6, <2>1, MappingKeeps
<1>8. QED
  BY <1>1, <1>5, <1>7 DEF SpaceInv

LEMMA EnterKeeps ==
  ASSUME SpaceInv, NEW l \in Loaders, EnterUserMode(l)
  PROVE  SpaceInv'
<1>1. /\ exec[l].at = "mapping" /\ MapPage(exec[l].pml4, StackPage, TRUE)
      /\ exec' = [exec EXCEPT ![l].at = "ring3"]
      /\ cr3' = [cr3 EXCEPT ![l] = exec[l].pml4] /\ kernel_pml4' = kernel_pml4
  BY DEF EnterUserMode
<1>2. /\ exec \in [Loaders -> [at : {"none", "mapping", "ring3"}, pml4 : Frames,
                               loads : 0 .. MAX_LOADS]]
      /\ cr3 \in [Loaders -> Frames]
  BY DEF SpaceInv
<1>3. /\ exec' \in [Loaders -> [at : {"none", "mapping", "ring3"}, pml4 : Frames,
                                loads : 0 .. MAX_LOADS]]
      /\ \A j \in Loaders : exec'[j].pml4 = exec[j].pml4
      /\ \A j \in Loaders \ {l} : exec'[j] = exec[j]
  BY <1>1, <1>2
<1>4. cr3' \in [Loaders -> Frames]
  BY <1>1, <1>2
<1>5. LiveIn(exec') \subseteq LiveIn(exec)
      /\ \A j \in LiveIn(exec') : exec'[j].pml4 = exec[j].pml4
  BY <1>1, <1>3 DEF LiveIn
<1>6. Spaces(Memory, kernel_pml4, exec)'
  BY <1>1, <1>5, PagesHas, MappingKeeps
<1>7. QED
  BY <1>3, <1>4, <1>6 DEF SpaceInv

LEMMA LeaveKeeps ==
  ASSUME SpaceInv, NEW l \in Loaders, RefuseSegment(l) \/ EndGame(l)
  PROVE  SpaceInv'
<1>1. /\ exec' = [exec EXCEPT ![l].at = "none"]
      /\ UNCHANGED <<used, table, kernel_pml4, cr3>>
  BY DEF RefuseSegment, EndGame
<1>2. /\ exec \in [Loaders -> [at : {"none", "mapping", "ring3"}, pml4 : Frames,
                               loads : 0 .. MAX_LOADS]]
      /\ cr3 \in [Loaders -> Frames]
  BY DEF SpaceInv
<1>3. /\ exec' \in [Loaders -> [at : {"none", "mapping", "ring3"}, pml4 : Frames,
                                loads : 0 .. MAX_LOADS]]
      /\ \A j \in Loaders : exec'[j].pml4 = exec[j].pml4
      /\ \A j \in Loaders \ {l} : exec'[j] = exec[j]
      /\ exec'[l].at = "none"
  BY <1>1, <1>2
<1>4. LiveIn(exec') \subseteq LiveIn(exec)
      /\ \A j \in LiveIn(exec') : exec'[j].pml4 = exec[j].pml4
  BY <1>3 DEF LiveIn
<1>5. Spaces(Memory, kernel_pml4, exec)'
  <2>m. PICK m, kp, x, y : m = Memory /\ kp = kernel_pml4 /\ x = exec /\ y = exec'
    OBVIOUS
  <2>1. /\ Spaces(m, kp, x) /\ LiveIn(y) \subseteq LiveIn(x)
        /\ \A j \in LiveIn(y) : y[j].pml4 = x[j].pml4
    BY <1>4, <2>m DEF SpaceInv
  <2>2. Spaces(m, kp, y)
    BY <2>1, SpacesStay
  <2>3. Memory' = m /\ kernel_pml4' = kp
    BY <1>1, <2>m DEF Memory
  <2>4. QED
    BY <2>2, <2>3, <2>m
<1>6. QED
  BY <1>1, <1>2, <1>3, <1>5 DEF SpaceInv

\* What ring 3 reaches, it reaches level by level.
Edge(t, f, g) == \E i \in Indices : Granted(t[f][i]) /\ t[f][i].to = g

Path(t, p, a, b, c, g) == Edge(t, p, a) /\ Edge(t, a, b) /\ Edge(t, b, c) /\ Edge(t, c, g)

LEMMA WalkIsPath ==
  ASSUME NEW k, NEW lev, Tables(Memory, k, lev),
         NEW p \in DOMAIN table, p \notin Kernels(k), lev[p] = 1,
         NEW g \in UserFrames(p)
  PROVE  \E a, b, c \in DOMAIN table :
            Path(table, p, a, b, c, g) /\ lev[a] = 2 /\ lev[b] = 3 /\ lev[c] = 4
<1> PICK t, m : t = table /\ m = Memory
  OBVIOUS
<1>t. m.table = t /\ Tables(m, k, lev)
  BY DEF Memory
<1>1. PICK v \in Indices \X Indices \X Indices \X Indices :
        paging_user_access_ok(p, v, FALSE) /\ g = user_walk_leaf(p, v).to
  BY DEF UserFrames
<1> DEFINE Down(e, i) == IF Granted(e) /\ ~e.ps THEN t[e.to][i] ELSE e
<1>2. PICK e1, e2, e3, e4 : /\ e1 = t[p][v[1]] /\ e2 = Down(e1, v[2])
                            /\ e3 = Down(e2, v[3]) /\ e4 = Down(e3, v[4])
  OBVIOUS
<1>3. user_walk_leaf(p, v) = IF Granted(e4) THEN e4 ELSE None
  BY <1>2 DEF user_walk_leaf
<1>4. Granted(e4) /\ g = e4.to
  BY <1>1, <1>3, EntryIs DEF paging_user_access_ok
<1>v. v[1] \in Indices /\ v[2] \in Indices /\ v[3] \in Indices /\ v[4] \in Indices
  BY <1>1
<1>g. Granted(e1) /\ Granted(e2) /\ Granted(e3)
  <2>1. Granted(e3)
    BY <1>2, <1>4
  <2>2. Granted(e2)
    BY <1>2, <2>1
  <2>3. QED
    BY <1>2, <2>1, <2>2
\* An open entry above the last level leads to a table of the next one.
<1>5. ASSUME NEW f \in DOMAIN t, NEW i \in Indices, NEW n \in 1 .. 3, lev[f] = n,
             Granted(t[f][i])
      PROVE  ~t[f][i].ps /\ t[f][i].to \in DOMAIN t /\ lev[t[f][i].to] = n + 1
  <2>1. EntryFits(m, k, lev, t[f][i], n, i)
    BY <1>5, <1>t DEF Tables
  <2>2. Leads(m, k, lev, t[f][i], n) /\ n < 4
    BY <1>5, <2>1 DEF EntryFits, Granted
  <2>3. QED
    BY <1>t, <2>2 DEF Leads
<1>6. ~e1.ps /\ e1.to \in DOMAIN t /\ lev[e1.to] = 2
  <2>1. e1 = t[p][v[1]] /\ p \in DOMAIN t
    BY <1>2
  <2>2. 1 \in 1 .. 3 /\ 1 + 1 = 2
    OBVIOUS
  <2>3. QED
    BY <1>5, <1>g, <1>v, <2>1, <2>2
<1>7. e2 = t[e1.to][v[2]]
  BY <1>2, <1>6, <1>g
<1>8. ~e2.ps /\ e2.to \in DOMAIN t /\ lev[e2.to] = 3
  BY <1>5, <1>6, <1>7, <1>g, <1>v
<1>9. e3 = t[e2.to][v[3]]
  BY <1>2, <1>8, <1>g
<1>10. ~e3.ps /\ e3.to \in DOMAIN t /\ lev[e3.to] = 4
  BY <1>5, <1>8, <1>9, <1>g, <1>v
<1>11. e4 = t[e3.to][v[4]]
  BY <1>2, <1>10, <1>g
<1>12. Edge(t, p, e1.to) /\ Edge(t, e1.to, e2.to) /\ Edge(t, e2.to, e3.to) /\ Edge(t, e3.to, g)
  BY <1>2, <1>4, <1>7, <1>9, <1>11, <1>g, <1>v DEF Edge
<1>13. QED
  BY <1>6, <1>8, <1>10, <1>12 DEF Path

LEMMA EdgeIsOne ==
  ASSUME NEW m, OneParent(m), NEW f \in DOMAIN m.table, NEW h \in DOMAIN m.table,
         NEW g, g # NULL, Edge(m.table, f, g), Edge(m.table, h, g)
  PROVE  f = h
<1>1. PICK i \in Indices : Granted(m.table[f][i]) /\ m.table[f][i].to = g
  BY DEF Edge
<1>2. PICK j \in Indices : Granted(m.table[h][j]) /\ m.table[h][j].to = g
  BY DEF Edge
<1>3. QED
  BY <1>1, <1>2 DEF OneParent

LEMMA SpaceInvDisjoint == SpaceInv => SpaceTypeOK /\ SpacesAreDisjoint
<1> SUFFICES ASSUME SpaceInv PROVE SpaceTypeOK /\ SpacesAreDisjoint
  OBVIOUS
<1>m. PICK m : m = Memory
  OBVIOUS
<1>1. PICK k, lev : /\ Tables(m, k, lev) /\ k[1] = kernel_pml4 /\ Roots(m, k, lev, exec)
  BY <1>m DEF SpaceInv, Spaces
<1>2. m.table = table /\ m.used = used
  BY <1>m DEF Memory
<1>3. SpaceTypeOK
  <2>1. kernel_pml4 \in Frames
    BY <1>1, TableIs DEF Tables, KernelAt, Kernels
  <2>2. \A f \in DOMAIN table : table[f] \in [Indices -> Entry]
    BY <1>1, <1>2, TableIs
  <2>3. used \subseteq Frames /\ DOMAIN table \subseteq used \ {NULL}
    BY <1>1, <1>2 DEF Tables
  <2>4. QED
    BY <2>1, <2>2, <2>3 DEF SpaceTypeOK, SpaceInv
<1>4. UserFrames(kernel_pml4) = {}
  <2>1. KernelAt(m, k, lev)
    BY <1>1 DEF Tables
  <2>2. k[2] \in Frames
    BY <1>1, <2>1, TableIs DEF KernelAt, Kernels
  <2>3. ASSUME NEW i \in Indices PROVE ~Granted(table[kernel_pml4][i])
    <3>1. CASE i = 0
      <4>1. table[kernel_pml4][i] = Link(k[2], FALSE)
        BY <1>1, <1>2, <2>1, <3>1 DEF KernelAt
      <4>2. QED
        BY <2>2, <4>1, EntryIs DEF Granted
    <3>2. CASE i # 0
      <4>1. ~m.table[k[1]][i].present
        BY <2>1, <3>2 DEF KernelAt
      <4>2. QED
        BY <1>1, <1>2, <4>1 DEF Granted
    <3>3. QED
      BY <3>1, <3>2
  <2>4. QED
    BY <2>3 DEF UserFrames
<1>5. Live = LiveIn(exec)
  BY DEF Live, LiveIn
<1>6. ASSUME NEW l \in Live, NEW g \in UserFrames(exec[l].pml4)
      PROVE  \E a, b, c \in DOMAIN m.table :
                /\ Path(m.table, exec[l].pml4, a, b, c, g)
                /\ lev[a] = 2 /\ lev[b] = 3 /\ lev[c] = 4
  <2>p. PICK p : p = exec[l].pml4
    OBVIOUS
  <2>1. /\ p \in DOMAIN table /\ p \notin Kernels(k) /\ lev[p] = 1 /\ g \in UserFrames(p)
        /\ Tables(Memory, k, lev)
    BY <1>1, <1>2, <1>5, <1>m, <2>p DEF Roots
  <2>2. \E a, b, c \in DOMAIN table :
            Path(table, p, a, b, c, g) /\ lev[a] = 2 /\ lev[b] = 3 /\ lev[c] = 4
    BY <2>1, WalkIsPath
  <2>3. QED
    BY <1>2, <2>2, <2>p
<1>7. ASSUME NEW l \in Live, NEW g \in UserFrames(exec[l].pml4)
      PROVE  g \notin Reserved \cup DOMAIN table /\ (g = NULL => used = Frames)
  <2>1. PICK a, b, c \in DOMAIN m.table :
            Path(m.table, exec[l].pml4, a, b, c, g) /\ lev[c] = 4
    BY <1>6
  <2>2. PICK i \in Indices : Granted(m.table[c][i]) /\ m.table[c][i].to = g
    BY <2>1 DEF Path, Edge
  <2>e. PICK e : e = m.table[c][i]
    OBVIOUS
  <2>3. EntryFits(m, k, lev, e, 4, i)
    BY <1>1, <2>1, <2>e DEF Tables
  <2>4. Leads(m, k, lev, e, 4)
    BY <2>2, <2>3, <2>e DEF EntryFits, Granted
  <2>5. QED
    BY <1>2, <2>2, <2>4, <2>e DEF Leads
<1>8. ASSUME NEW l \in Live, NEW j \in Live \ {l},
             NEW g \in UserFrames(exec[l].pml4), g \in UserFrames(exec[j].pml4), g # NULL
      PROVE  FALSE
  <2>p. PICK p, q : p = exec[l].pml4 /\ q = exec[j].pml4
    OBVIOUS
  <2>0. OneParent(m) /\ p \in DOMAIN m.table /\ q \in DOMAIN m.table /\ p # q
        /\ NULL \notin DOMAIN m.table
    BY <1>1, <1>5, <2>p DEF Tables, Roots
  <2>1. PICK a, b, c \in DOMAIN m.table : Path(m.table, p, a, b, c, g)
    BY <1>6, <2>p
  <2>2. PICK x, y, z \in DOMAIN m.table : Path(m.table, q, x, y, z, g)
    BY <1>6, <1>8, <2>p
  <2>3. c = z
    BY <1>8, <2>0, <2>1, <2>2, EdgeIsOne DEF Path
  <2>4. b = y
    BY <2>0, <2>1, <2>2, <2>3, EdgeIsOne DEF Path
  <2>5. a = x
    BY <2>0, <2>1, <2>2, <2>4, EdgeIsOne DEF Path
  <2>6. p = q
    BY <2>0, <2>1, <2>2, <2>5, EdgeIsOne DEF Path
  <2>7. QED
    BY <2>0, <2>6
<1>9. SpacesAreDisjoint
  BY <1>4, <1>7, <1>8 DEF SpacesAreDisjoint
<1>10. QED
  BY <1>3, <1>9

LEMMA ThreeFree ==
  ASSUME NEW U, U = Reserved \cup {NULL}, NEW a, NEW b
  PROVE  U # Frames /\ U \cup {a} # Frames /\ U \cup {a} \cup {b} # Frames
<1> SUFFICES ASSUME Frames \ U \subseteq {a, b} PROVE FALSE
  OBVIOUS
<1> PICK S : S = Frames \ U
  OBVIOUS
<1>1. Cardinality(S) >= 3
  BY FramesAssumption
<1>2. IsFiniteSet({a, b}) /\ Cardinality({a, b}) <= 2
  <2>1. IsFiniteSet({}) /\ Cardinality({}) = 0
    BY FS_EmptySet
  <2>2. IsFiniteSet({} \cup {a}) /\ Cardinality({} \cup {a}) \in {0, 1}
    BY <2>1, FS_AddElement
  <2>3. {} \cup {a} = {a}
    OBVIOUS
  <2>4. IsFiniteSet({a} \cup {b}) /\ Cardinality({a} \cup {b}) \in {0, 1, 2}
    BY <2>2, <2>3, FS_AddElement
  <2>5. {a} \cup {b} = {a, b}
    OBVIOUS
  <2>6. QED
    BY <2>4, <2>5
<1>3. Cardinality(S) <= Cardinality({a, b})
  BY <1>2, FS_Subset
<1>4. Cardinality(S) \in Nat /\ Cardinality({a, b}) \in Nat
  BY <1>2, FS_Subset, FS_CardinalityType
<1>5. QED
  BY <1>1, <1>2, <1>3, <1>4

\* n is the empty table that m can still have, and what m then is.
OneTaken(m, n) ==
    /\ n.t \in Frames \ m.used
    /\ n.m = [used |-> n.m.used, table |-> n.m.table] /\ n.m.used = m.used \cup {n.t}
    /\ DOMAIN n.m.table = DOMAIN m.table \cup {n.t} /\ n.m.table[n.t] = Blank
    /\ \A g \in DOMAIN m.table \ {n.t} : n.m.table[g] = m.table[g]

LEMMA AllocTable ==
  ASSUME NEW m, m.used \subseteq Frames, NULL \in m.used, m.used # Frames,
         NEW n, n = alloc_table(m)
  PROVE  OneTaken(m, n)
<1>f. PICK f : f = pmm_alloc_page(m)
  OBVIOUS
<1>1. f # NULL /\ f \in Frames \ m.used
  BY <1>f, AllocIsFree
<1>r. PICK r : r = [used |-> m.used \cup {f},
                    table |-> [g \in DOMAIN m.table \cup {f} |->
                                  IF g = f THEN Blank ELSE m.table[g]]]
  OBVIOUS
<1>2. n = [m |-> r, t |-> f]
  BY <1>1, <1>f, <1>r DEF alloc_table
<1>3. n.m = r /\ n.t = f
  BY <1>2
<1>4. QED
  BY <1>1, <1>3, <1>r DEF OneTaken

\* What paging_init makes of the three pages it takes.
PagingInit(a, b, c) ==
    /\ {a, b, c} \subseteq Frames \ (Reserved \cup {NULL})
    /\ a # b /\ b # c /\ a # c
    /\ KernelTables.pml4 = a
    /\ KernelTables.m.used = Reserved \cup {NULL} \cup {a, b, c}
    /\ KernelTables.m.table =
        [g \in {a, b, c} |->
            IF g = a THEN [Blank EXCEPT ![0] = Link(b, FALSE)]
            ELSE IF g = b THEN [Blank EXCEPT ![0] = Link(c, FALSE)]
            ELSE [i \in Indices |-> [Link(NULL, FALSE) EXCEPT !.ps = TRUE]]]

LEMMA KernelTablesAre == \E a, b, c : PagingInit(a, b, c)
<1>U. PICK U, m0 : U = Reserved \cup {NULL} /\ m0 = pmm_init
  OBVIOUS
<1>1. /\ m0.used = U /\ DOMAIN m0.table = {} /\ U \subseteq Frames /\ NULL \in U
  BY <1>U, FrameNumbers DEF pmm_init
<1>a. PICK n1, a : n1 = alloc_table(m0) /\ a = n1.t
  OBVIOUS
<1>2. m0.used # Frames
  BY <1>1, <1>U, ThreeFree
<1>3. /\ a \in Frames \ U /\ n1.m.used = U \cup {a} /\ DOMAIN n1.m.table = {a}
      /\ n1.m.table[a] = Blank
  <2>1. /\ n1.t \in Frames \ m0.used /\ n1.m.used = m0.used \cup {n1.t}
        /\ DOMAIN n1.m.table = DOMAIN m0.table \cup {n1.t} /\ n1.m.table[n1.t] = Blank
    BY <1>1, <1>2, <1>a, AllocTable DEF OneTaken
  <2>2. QED
    BY <1>1, <1>a, <2>1
<1>b. PICK n2, b : n2 = alloc_table(n1.m) /\ b = n2.t
  OBVIOUS
<1>4. n1.m.used # Frames /\ n1.m.used \subseteq Frames /\ NULL \in n1.m.used
  BY <1>1, <1>3, <1>U, ThreeFree
<1>5. /\ b \in Frames \ U /\ b # a /\ n2.m.used = U \cup {a} \cup {b}
      /\ DOMAIN n2.m.table = {a, b} /\ n2.m.table[a] = Blank /\ n2.m.table[b] = Blank
  <2>1. /\ n2.t \in Frames \ n1.m.used /\ n2.m.used = n1.m.used \cup {n2.t}
        /\ DOMAIN n2.m.table = DOMAIN n1.m.table \cup {n2.t} /\ n2.m.table[n2.t] = Blank
        /\ \A g \in DOMAIN n1.m.table \ {n2.t} : n2.m.table[g] = n1.m.table[g]
    <3>1. OneTaken(n1.m, n2)
      BY <1>4, <1>b, AllocTable
    <3>2. QED
      BY <3>1 DEF OneTaken
  <2>2. QED
    BY <1>3, <1>b, <2>1
<1>c. PICK n3, c : n3 = alloc_table(n2.m) /\ c = n3.t
  OBVIOUS
<1>6. n2.m.used # Frames /\ n2.m.used \subseteq Frames /\ NULL \in n2.m.used
  BY <1>1, <1>3, <1>5, <1>U, ThreeFree
<1>7. /\ c \in Frames \ U /\ c # a /\ c # b /\ n3.m.used = U \cup {a, b, c}
      /\ n3.m = [used |-> n3.m.used, table |-> n3.m.table]
      /\ DOMAIN n3.m.table = {a, b, c} /\ n3.m.table[a] = Blank /\ n3.m.table[b] = Blank
  <2>1. /\ c \in Frames \ n2.m.used /\ n3.m.used = n2.m.used \cup {c}
        /\ n3.m = [used |-> n3.m.used, table |-> n3.m.table]
        /\ DOMAIN n3.m.table = DOMAIN n2.m.table \cup {c} /\ n3.m.table[c] = Blank
        /\ \A g \in DOMAIN n2.m.table \ {c} : n3.m.table[g] = n2.m.table[g]
    <3>1. OneTaken(n2.m, n3)
      BY <1>6, <1>c, AllocTable
    <3>2. QED
      BY <1>c, <3>1 DEF OneTaken
  <2>2. QED
    BY <1>5, <2>1
<1>r. PICK ram : ram = [i \in Indices |-> [Link(NULL, FALSE) EXCEPT !.ps = TRUE]]
  OBVIOUS
<1>x. PICK x, y : x = Link(b, FALSE) /\ y = Link(c, FALSE)
  OBVIOUS
<1>T. PICK T : T = [n3.m.table EXCEPT ![a][0] = x, ![b][0] = y, ![c] = ram]
  OBVIOUS
<1>z. PICK z : z = n3.m
  OBVIOUS
<1>8. KernelTables = [m |-> [z EXCEPT !.table = T], pml4 |-> a]
  <2>1. KernelTables = [m |-> [n3.m EXCEPT !.table =
                                [n3.m.table EXCEPT ![n1.t][0] = Link(n2.t, FALSE),
                                                   ![n2.t][0] = Link(n3.t, FALSE),
                                                   ![n3.t] = ram]],
                        pml4 |-> n1.t]
    BY <1>U, <1>a, <1>b, <1>c, <1>r DEF KernelTables
  <2>2. [n3.m.table EXCEPT ![n1.t][0] = Link(n2.t, FALSE), ![n2.t][0] = Link(n3.t, FALSE),
                           ![n3.t] = ram] = T
    BY <1>a, <1>b, <1>c, <1>T, <1>x
  <2>3. QED
    BY <1>a, <1>z, <2>1, <2>2
<1>9. /\ KernelTables.pml4 = a /\ KernelTables.m.used = U \cup {a, b, c}
      /\ KernelTables.m.table = T
  <2>1. [z EXCEPT !.table = T] = [used |-> U \cup {a, b, c}, table |-> T]
    BY <1>7, <1>z
  <2>2. QED
    BY <1>8, <2>1
<1>10. T = [g \in {a, b, c} |-> IF g = a THEN [Blank EXCEPT ![0] = x]
                                ELSE IF g = b THEN [Blank EXCEPT ![0] = y] ELSE ram]
  <2>0. a # b /\ b # c /\ a # c
    BY <1>5, <1>7
  <2>1. T[a] = [Blank EXCEPT ![0] = x] /\ T[b] = [Blank EXCEPT ![0] = y] /\ T[c] = ram
    BY <1>7, <1>T, <2>0
  <2>2. T = [g \in {a, b, c} |-> T[g]]
    BY <1>7, <1>T
  <2>3. QED
    BY <2>0, <2>1, <2>2
<1>11. PagingInit(a, b, c)
  <2>1. {a, b, c} \subseteq Frames \ (Reserved \cup {NULL}) /\ a # b /\ b # c /\ a # c
    BY <1>3, <1>5, <1>7, <1>U
  <2>2. KernelTables.m.used = Reserved \cup {NULL} \cup {a, b, c}
    BY <1>9, <1>U
  <2>3. QED
    BY <1>9, <1>10, <1>r, <1>x, <2>1, <2>2 DEF PagingInit
<1>12. QED
  BY <1>11

LEMMA SpaceInitially == SpaceInit => SpaceInv
<1> SUFFICES ASSUME SpaceInit PROVE SpaceInv
  OBVIOUS
<1>1. PICK a, b, c : PagingInit(a, b, c)
  BY KernelTablesAre
<1>2. a # b /\ b # c /\ a # c /\ {a, b, c} \subseteq Frames \ (Reserved \cup {NULL})
  BY <1>1 DEF PagingInit
<1>r. PICK A, B, R : /\ A = [Blank EXCEPT ![0] = Link(b, FALSE)]
                     /\ B = [Blank EXCEPT ![0] = Link(c, FALSE)]
                     /\ R = [i \in Indices |-> [Link(NULL, FALSE) EXCEPT !.ps = TRUE]]
  OBVIOUS
<1>m. PICK m : m = Memory
  OBVIOUS
<1>3. /\ m = [used |-> m.used, table |-> m.table]
      /\ m.used = Reserved \cup {NULL} \cup {a, b, c} /\ kernel_pml4 = a
      /\ m.table = [g \in {a, b, c} |-> IF g = a THEN A ELSE IF g = b THEN B ELSE R]
  BY <1>1, <1>m, <1>r DEF SpaceInit, PagingInit, Memory
<1>4. /\ DOMAIN m.table = {a, b, c} /\ m.table[a] = A /\ m.table[b] = B /\ m.table[c] = R
  BY <1>2, <1>3
<1>5. /\ A \in [Indices -> Entry] /\ B \in [Indices -> Entry] /\ R \in [Indices -> Entry]
      /\ A[0] = Link(b, FALSE) /\ B[0] = Link(c, FALSE)
      /\ \A i \in Indices \ {0} : ~A[i].present /\ ~B[i].present
      /\ \A i \in Indices : ~R[i].user /\ R[i].ps /\ R[i].to = NULL
  <2>1. /\ Link(b, FALSE) \in Entry /\ Link(c, FALSE) \in Entry /\ Link(NULL, FALSE) \in Entry
        /\ ~Link(NULL, FALSE).user /\ Link(NULL, FALSE).to = NULL
    BY <1>2, EntryIs, FrameNumbers
  <2>l. PICK e : e = [Link(NULL, FALSE) EXCEPT !.ps = TRUE]
    OBVIOUS
  <2>2. e \in Entry /\ ~e.user /\ e.ps /\ e.to = NULL
    BY <2>1, <2>l DEF Entry
  <2>3. R = [i \in Indices |-> e]
    BY <1>r, <2>l
  <2>4. R \in [Indices -> Entry] /\ \A i \in Indices : ~R[i].user /\ R[i].ps /\ R[i].to = NULL
    BY <2>2, <2>3
  <2>5. Blank \in [Indices -> Entry] /\ (\A i \in Indices : ~Blank[i].present) /\ 0 \in Indices
    BY EntryIs, FrameNumbers
  <2>6. PICK x, y, z : x = Link(b, FALSE) /\ y = Link(c, FALSE) /\ z = Blank
    OBVIOUS
  <2>7. A = [z EXCEPT ![0] = x] /\ B = [z EXCEPT ![0] = y]
    BY <1>r, <2>6
  <2>8. /\ A \in [Indices -> Entry] /\ A[0] = x /\ \A i \in Indices \ {0} : ~A[i].present
        /\ B \in [Indices -> Entry] /\ B[0] = y /\ \A i \in Indices \ {0} : ~B[i].present
    BY <2>1, <2>5, <2>6, <2>7
  <2>9. QED
    BY <2>4, <2>6, <2>8
<1>k. PICK k, lev : /\ k = <<a, b, c>>
                    /\ lev = [g \in {a, b, c} |-> IF g = a THEN 1 ELSE IF g = b THEN 2 ELSE 3]
  OBVIOUS
<1>6. /\ k[1] = a /\ k[2] = b /\ k[3] = c /\ Kernels(k) = {a, b, c}
      /\ lev[a] = 1 /\ lev[b] = 2 /\ lev[c] = 3 /\ lev \in [{a, b, c} -> 1 .. 4]
  BY <1>2, <1>k DEF Kernels
<1>7. KernelAt(m, k, lev)
  BY <1>2, <1>4, <1>5, <1>6 DEF KernelAt
<1>8. m.table \in [DOMAIN m.table -> [Indices -> Entry]]
  <2>1. \A g \in {a, b, c} : m.table[g] \in [Indices -> Entry]
    BY <1>4, <1>5
  <2>2. QED
    BY <1>3, <1>4, <2>1
<1>9. ASSUME NEW f \in DOMAIN m.table, NEW i \in Indices
      PROVE  EntryFits(m, k, lev, m.table[f][i], lev[f], i) /\ ~Granted(m.table[f][i])
  <2>0. b \in Frames /\ c \in Frames /\ b \in m.used /\ c \in m.used /\ NULL \in m.used
    BY <1>2, <1>3
  <2>1. CASE f = a
    <3>1. CASE i = 0
      <4>1. m.table[f][i] = Link(b, FALSE)
        BY <1>4, <1>5, <2>1, <3>1
      <4>2. Link(b, FALSE).to = b /\ ~Link(b, FALSE).user
        BY <2>0, EntryIs
      <4>e. PICK e : e = m.table[f][i]
        OBVIOUS
      <4>3. e.to = b /\ ~e.user
        BY <4>1, <4>2, <4>e
      <4>4. EntryFits(m, k, lev, e, 1, i) /\ ~Granted(e)
        BY <1>6, <2>0, <3>1, <4>3 DEF EntryFits, Closed, Granted
      <4>5. QED
        BY <1>6, <2>1, <4>4, <4>e
    <3>2. CASE i # 0
      BY <1>4, <1>5, <2>1, <3>2 DEF EntryFits, Granted
    <3>3. QED
      BY <3>1, <3>2
  <2>2. CASE f = b
    <3>1. CASE i = 0
      <4>1. m.table[f][i] = Link(c, FALSE)
        BY <1>4, <1>5, <2>2, <3>1
      <4>2. Link(c, FALSE).to = c /\ ~Link(c, FALSE).user
        BY <2>0, EntryIs
      <4>e. PICK e : e = m.table[f][i]
        OBVIOUS
      <4>3. e.to = c /\ ~e.user
        BY <4>1, <4>2, <4>e
      <4>4. EntryFits(m, k, lev, e, 2, i) /\ ~Granted(e)
        BY <1>6, <2>0, <3>1, <4>3 DEF EntryFits, Closed, Granted
      <4>5. QED
        BY <1>6, <2>2, <4>4, <4>e
    <3>2. CASE i # 0
      BY <1>4, <1>5, <2>2, <3>2 DEF EntryFits, Granted
    <3>3. QED
      BY <3>1, <3>2
  <2>3. CASE f = c
    BY <1>4, <1>5, <1>6, <2>0, <2>3 DEF EntryFits, Closed, Granted
  <2>4. QED
    BY <1>4, <2>1, <2>2, <2>3
<1>10. OneParent(m)
  BY <1>9 DEF OneParent
<1>11. /\ m.used \subseteq Frames /\ Reserved \cup {NULL} \subseteq m.used
       /\ DOMAIN m.table \subseteq m.used \ {NULL}
  BY <1>2, <1>3, <1>4, FrameNumbers
<1>12. Tables(m, k, lev)
  BY <1>3, <1>4, <1>6, <1>7, <1>8, <1>9, <1>10, <1>11 DEF Tables
<1>13. exec = [l \in Loaders |-> [at |-> "none", pml4 |-> NULL, loads |-> 0]]
       /\ cr3 = [l \in Loaders |-> kernel_pml4]
  BY DEF SpaceInit
<1>14. LiveIn(exec) = {}
  BY <1>13 DEF LiveIn
<1>15. /\ exec \in [Loaders -> [at : {"none", "mapping", "ring3"}, pml4 : Frames,
                                loads : 0 .. MAX_LOADS]]
       /\ cr3 \in [Loaders -> Frames]
  <2>1. 0 \in 0 .. MAX_LOADS /\ NULL \in Frames /\ kernel_pml4 \in Frames
    BY <1>2, <1>3, FrameNumbers
  <2>2. [at |-> "none", pml4 |-> NULL, loads |-> 0] \in
          [at : {"none", "mapping", "ring3"}, pml4 : Frames, loads : 0 .. MAX_LOADS]
    BY <2>1
  <2>3. QED
    BY <1>13, <2>1, <2>2
<1>16. Roots(m, k, lev, exec)
  BY <1>14 DEF Roots
<1>17. Spaces(m, kernel_pml4, exec)
  BY <1>3, <1>6, <1>12, <1>16 DEF Spaces
<1>18. QED
  BY <1>15, <1>17, <1>m DEF SpaceInv

\* pmm.c, paging.c and loader.c: whatever games are started, loaded half way,
\* killed and started again, and however early memory runs out, no game
\* reaches a page table, a page of the kernel's or a page of another game's.
\* Every entry that ring 3 may follow leads one level down, to a table that
\* is not the kernel's, and no two of them lead to the same place.
THEOREM SpacesStayDisjoint == SpaceSpec => [](SpaceTypeOK /\ SpacesAreDisjoint)
<1>1. SpaceInit => SpaceInv
  BY SpaceInitially
<1>2. SpaceInv /\ [SpaceNext]_spaceVars => SpaceInv'
  <2> SUFFICES ASSUME SpaceInv, [SpaceNext]_spaceVars PROVE SpaceInv'
    OBVIOUS
  <2>1. ASSUME NEW l \in Loaders, BeginExec(l) PROVE SpaceInv'
    BY <2>1, BeginExecKeeps
  <2>2. ASSUME NEW l \in Loaders, LoadPage(l) PROVE SpaceInv'
    BY <2>2, LoadPageKeeps
  <2>3. ASSUME NEW l \in Loaders, EnterUserMode(l) PROVE SpaceInv'
    BY <2>3, EnterKeeps
  <2>4. ASSUME NEW l \in Loaders, RefuseSegment(l) \/ EndGame(l) PROVE SpaceInv'
    BY <2>4, LeaveKeeps
  <2>5. ASSUME UNCHANGED spaceVars PROVE SpaceInv'
    BY <2>5 DEF spaceVars, SpaceInv, Memory
  <2>6. QED
    BY <2>1, <2>2, <2>3, <2>4, <2>5 DEF SpaceNext
<1>3. QED
  BY <1>1, <1>2, SpaceInvDisjoint, PTL DEF SpaceSpec

=============================================================================
