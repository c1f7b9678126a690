-------------------------------- MODULE Heap --------------------------------
(***************************************************************************)
(* heap.c: first fit over one list of blocks, splitting on the way in and  *)
(* merging neighbours on the way out.  kmalloc and kfree run to the end:   *)
(* their callers are syscalls, with interrupts off, and the one thread     *)
(* that is loading a program.  Sizes and addresses count 8 bytes.          *)
(***************************************************************************)
EXTENDS Integers, FiniteSets

CONSTANTS
    HEAP_TOTAL,     \* size of the region (4 MiB)
    HEADER_SIZE,    \* size of a block header
    BLOCK_ALIGN,    \* what sizes are rounded up to
    Requests        \* sizes asked for: stacks, argument lists, file images

ASSUME HeapAssumption ==
    /\ {HEAP_TOTAL, HEADER_SIZE, BLOCK_ALIGN} \subseteq Nat \ {0}
    /\ HEADER_SIZE + BLOCK_ALIGN < HEAP_TOTAL
    /\ Requests \subseteq Nat

VARIABLES
    heap,           \* the blocks, by the address of their header
    owned           \* pointers handed out and not yet freed, with the size asked for (history)

heapVars == <<heap, owned>>

NIL == 0            \* the first block is nobody's next
Addresses == 0 .. HEAP_TOTAL
Blocks == [size : Addresses, free : BOOLEAN, next : Addresses]

HeapTypeOK ==
    /\ DOMAIN heap \subseteq Addresses /\ \A h \in DOMAIN heap : heap[h] \in Blocks
    /\ DOMAIN owned \subseteq Addresses /\ \A p \in DOMAIN owned : owned[p] \in Requests

heap_init ==
    /\ heap = [h \in {0} |-> [size |-> HEAP_TOTAL - HEADER_SIZE, free |-> TRUE, next |-> NIL]]
    /\ owned = [p \in {} |-> 0]
-----------------------------------------------------------------------------
align_up(n) == ((n + BLOCK_ALIGN - 1) \div BLOCK_ALIGN) * BLOCK_ALIGN

Fits(n) == {h \in DOMAIN heap : heap[h].free /\ heap[h].size >= n}
First(S) == CHOOSE h \in S : \A g \in S : h <= g

\* The rest of block h becomes a block when it holds a header and then more
\* than the smallest allocation.
WorthSplitting_NoHeader(h, n) == heap[h].size > n

WorthSplitting(h, n) == heap[h].size > n + HEADER_SIZE + BLOCK_ALIGN

Split(h, n) ==
    LET rest == h + HEADER_SIZE + n IN
    [g \in DOMAIN heap \cup {rest} |->
        CASE g = h -> [size |-> n, free |-> FALSE, next |-> rest]
          [] g = rest -> [size |-> heap[h].size - n - HEADER_SIZE, free |-> TRUE,
                          next |-> heap[h].next]
          [] OTHER -> heap[g]]

kmalloc(n) ==
    /\ n > 0
    /\ Fits(align_up(n)) # {}
    /\ LET h == First(Fits(align_up(n))) IN
        /\ heap' = IF WorthSplitting(h, align_up(n)) THEN Split(h, align_up(n))
                   ELSE [heap EXCEPT ![h].free = FALSE]
        /\ owned' = [p \in DOMAIN owned \cup {h + HEADER_SIZE} |->
                        IF p = h + HEADER_SIZE THEN n ELSE owned[p]]

Mergeable(b) ==
    {h \in DOMAIN b : b[h].free /\ b[h].next # NIL /\ b[b[h].next].free}

\* Mutant: the header of the block swallowed is not given back.
Merge_LosesHeader(b, h) ==
    LET n == b[h].next IN
    [g \in DOMAIN b \ {n} |->
        IF g = h THEN [b[h] EXCEPT !.size = @ + b[n].size, !.next = b[n].next] ELSE b[g]]

Merge(b, h) ==
    LET n == b[h].next IN
    [g \in DOMAIN b \ {n} |->
        IF g = h
        THEN [b[h] EXCEPT !.size = @ + HEADER_SIZE + b[n].size, !.next = b[n].next]
        ELSE b[g]]

\* The walk along the list merges the first pair it meets until none is left.
Coalesced(b) ==
    LET walk[k \in Nat] ==
            IF k = 0 THEN b
            ELSE LET w == walk[k - 1] IN
                 IF Mergeable(w) = {} THEN w ELSE Merge(w, First(Mergeable(w)))
    IN  walk[Cardinality(DOMAIN b)]

kfree(p) ==
    /\ heap' = Coalesced([heap EXCEPT ![p - HEADER_SIZE].free = TRUE])
    /\ owned' = [q \in DOMAIN owned \ {p} |-> owned[q]]

HeapNext ==
    \/ \E n \in Requests : kmalloc(n)
    \/ \E p \in DOMAIN owned : kfree(p)

HeapSpec == heap_init /\ [][HeapNext]_heapVars
-----------------------------------------------------------------------------
End(h) == h + HEADER_SIZE + heap[h].size

\* Whatever is allocated and freed, in whatever order: the blocks tile the
\* region in list order, the blocks in use are exactly those handed out, each
\* with the room asked for, so no two allocations overlap, and no two free
\* blocks are neighbours, so what has been freed can be had again in one piece.
HeapIsSound ==
    /\ 0 \in DOMAIN heap
    /\ \A h \in DOMAIN heap :
        /\ End(h) <= HEAP_TOTAL
        /\ IF heap[h].next = NIL THEN End(h) = HEAP_TOTAL
           ELSE heap[h].next = End(h) /\ End(h) \in DOMAIN heap
        /\ \A g \in DOMAIN heap : g > h => g >= End(h)
    /\ {h + HEADER_SIZE : h \in {g \in DOMAIN heap : ~heap[g].free}} = DOMAIN owned
    /\ \A p \in DOMAIN owned : owned[p] <= heap[p - HEADER_SIZE].size
    /\ Mergeable(heap) = {}
=============================================================================
