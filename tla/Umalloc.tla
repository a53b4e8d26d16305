------------------------------- MODULE Umalloc ------------------------------
(***************************************************************************)
(* The user heap: malloc(), free() and morecore() on the circular list of    *)
(* free blocks.  Addresses and sizes are in units of a Header; the header of *)
(* a free block carries ptr and size, that of one in use its size.           *)
(***************************************************************************)
EXTENDS Integers, FiniteSets

CONSTANTS
  HeapMax,        \* how many units sbrk() can give in all
  Least,          \* the least that morecore() asks for, 4096 in the code
  Units           \* the nunits of malloc(), header included

Base == 0         \* &base, below the heap
Start == 1
Addr == 0..(Start + HeapMax)
NULL == -1

VARIABLES
  heap,           \* ptr and size of the headers, freep, and the end of the heap; what no
                  \* code reads again is 0
  inuse           \* history: the blocks handed out, with their sizes

uvars == <<heap, inuse>>

UInit == /\ heap = [ptr |-> [a \in Addr |-> 0], size |-> [a \in Addr |-> 0],
                    freep |-> NULL, brk |-> Start]
         /\ inuse = {}

\* The loop of free(): the list's entry after which bp belongs.
RECURSIVE Place(_, _, _)
Place(h, p, bp) ==
  IF \/ bp > p /\ bp < h.ptr[p]
     \/ p >= h.ptr[p] /\ (bp > p \/ bp < h.ptr[p])
  THEN p ELSE Place(h, h.ptr[p], bp)

\* The two ends of free(): bp takes in the block above it, p takes in bp.
bug_JoinUp(h, p, bp) == [h EXCEPT !.ptr[bp] = h.ptr[p]]
JoinUp(h, p, bp) ==
  LET q == h.ptr[p]
  IN  IF bp + h.size[bp] = q
      THEN [h EXCEPT !.size[bp] = @ + h.size[q], !.ptr[bp] = h.ptr[q], !.size[q] = 0, !.ptr[q] = 0]
      ELSE [h EXCEPT !.ptr[bp] = q]
JoinDown(h, p, bp) ==
  IF p + h.size[p] = bp
  THEN [h EXCEPT !.size[p] = @ + h.size[bp], !.ptr[p] = h.ptr[bp], !.size[bp] = 0, !.ptr[bp] = 0, !.freep = p]
  ELSE [h EXCEPT !.ptr[p] = bp, !.freep = p]

Freed(h, bp) == LET p == Place(h, h.freep, bp) IN JoinDown(JoinUp(h, p, bp), p, bp)

\* morecore(): sbrk() extends the heap, and the new block is freed.
Least_of(n) == IF n < Least THEN Least ELSE n
Exhausted(h, n) == h.brk + Least_of(n) > Start + HeapMax
morecore(h, n) == Freed([h EXCEPT !.size[h.brk] = Least_of(n), !.brk = @ + Least_of(n)], h.brk)

\* The loop of malloc(): the heap it leaves and the block it takes, NULL for none.  The
\* tail of a larger block is handed out.
RECURSIVE Find(_, _, _, _)
Find(h, prevp, p, n) ==
  LET tail == p + h.size[p] - n
  IN  IF h.size[p] = n
      THEN [heap |-> [h EXCEPT !.ptr[prevp] = h.ptr[p], !.ptr[p] = 0, !.freep = prevp], block |-> p]
      ELSE IF h.size[p] > n
      THEN [heap |-> [h EXCEPT !.size[p] = @ - n, !.size[tail] = n, !.freep = prevp], block |-> tail]
      ELSE IF p # h.freep THEN Find(h, p, h.ptr[p], n)
      ELSE IF Exhausted(h, n) THEN [heap |-> h, block |-> NULL]
      ELSE LET g == morecore(h, n) IN Find(g, g.freep, g.ptr[g.freep], n)

malloc(n) ==
  LET h == IF heap.freep # NULL THEN heap ELSE [heap EXCEPT !.ptr[Base] = Base, !.freep = Base]
      f == Find(h, h.freep, h.ptr[h.freep], n)
  IN  heap' = f.heap /\ inuse' = inuse \cup (IF f.block = NULL THEN {} ELSE {<<f.block, n>>})

free(b) == heap' = Freed(heap, b[1]) /\ inuse' = inuse \ {b}

UNext == (\E n \in Units : malloc(n)) \/ (\E b \in inuse : free(b))
USpec == UInit /\ [][UNext]_uvars

-----------------------------------------------------------------------------
\* The free blocks, walked from base.
RECURSIVE Listed(_)
Listed(a) == IF a = Base THEN {} ELSE {a} \cup Listed(heap.ptr[a])
FreeBlocks == IF heap.freep = NULL THEN {} ELSE {<<a, heap.size[a]>> : a \in Listed(heap.ptr[Base])}
Covers(b) == b[1]..(b[1] + b[2] - 1)

\* The heap is cut exactly into the free blocks of the list and the blocks in use: no two
\* overlap, no unit is lost, free() finds in a header the size that malloc() put there,
\* the list is in the order of addresses, and neighbouring free blocks are one.
HeapWhole ==
  LET All == FreeBlocks \cup inuse
  IN  /\ UNION {Covers(b) : b \in All} = Start..(heap.brk - 1)
      /\ \A b, c \in All : b # c => Covers(b) \cap Covers(c) = {}
      /\ FreeBlocks \cap inuse = {} /\ \A b \in inuse : heap.size[b[1]] = b[2]
      /\ \A b, c \in FreeBlocks : b[1] + b[2] # c[1]
      /\ \A b \in FreeBlocks : heap.ptr[b[1]] = Base \/ heap.ptr[b[1]] > b[1]
=============================================================================
