------------------------------ MODULE Umalloc ------------------------------
(***************************************************************************)
(* umalloc.c, the allocator of the user programs, as operators on a heap   *)
(* h: the headers in memory, freep, the break, and two things the code     *)
(* does not keep, the blocks handed out and the units got from sbrk().     *)
(* Addresses are in units of a header; base is at 0, below the heap.       *)
(***************************************************************************)
EXTENDS Integers, FiniteSets, FiniteSetsExt

CONSTANTS
  HEADER,    \* sizeof(Header)
  UINT,      \* unsigned integers are below it, 2^32 in C
  NALLOC,    \* the least number of units asked of sbrk(), 4096 in C
  HEAP,      \* where the heap starts
  TOP,       \* where sbrk() fails
  Requests,  \* bound: arguments of malloc(), a unit and a header below half of UINT
  Gaps,      \* bound: units that a program takes from sbrk() itself
  MaxOps     \* bound: calls in a row

ASSUME UmallocAssumption ==
  /\ HEADER \in Nat \ {0} /\ NALLOC \in Nat \ {0} /\ HEAP \in Nat \ {0} /\ TOP \in Nat
  /\ HEAP <= TOP /\ Gaps \subseteq Nat /\ MaxOps \in Nat
  /\ UINT % (2 * HEADER) = 0 /\ 2 * HEADER * NALLOC < UINT
  /\ Requests \subseteq 0..UINT \div 2 - 2 * HEADER

Base == 0
NULL == -1

(* freep = 0 before the first malloc(). *)
NoHeap ==
  [ptr |-> [a \in 0..TOP |-> 0], size |-> [a \in 0..TOP |-> 0], freep |-> NULL, brk |-> HEAP,
   used |-> [a \in {} |-> 0], core |-> {}, ret |-> NULL]

End(h, a) == a + h.size[a]

(***************************************************************************)
(* free()                                                                  *)
(***************************************************************************)
(* The block is between p and the next, or at an end of the list. *)
Here(h, bp, p) ==
  \/ bp > p /\ bp < h.ptr[p]
  \/ p >= h.ptr[p] /\ (bp > p \/ bp < h.ptr[p])

RECURSIVE Place(_, _, _)
Place(h, bp, p) == IF Here(h, bp, p) THEN p ELSE Place(h, bp, h.ptr[p])

(* bp takes in the block after it. *)
JoinUpper(h, bp, p) ==
  IF End(h, bp) = h.ptr[p]
  THEN [h EXCEPT !.size[bp] = @ + h.size[h.ptr[p]], !.ptr[bp] = h.ptr[h.ptr[p]]]
  ELSE [h EXCEPT !.ptr[bp] = h.ptr[p]]

NeverJoins(h, bp, p) == [h EXCEPT !.ptr[p] = bp]                   \* a mutant

(* p takes in bp. *)
JoinLower(h, bp, p) ==
  IF End(h, p) = bp
  THEN [h EXCEPT !.size[p] = @ + h.size[bp], !.ptr[p] = h.ptr[bp]]
  ELSE [h EXCEPT !.ptr[p] = bp]

FreeAt(h, bp, p) == [JoinLower(JoinUpper(h, bp, p), bp, p) EXCEPT !.freep = p]
FreeBlock(h, bp) == FreeAt(h, bp, Place(h, bp, h.freep))

Free(h, bp) == [FreeBlock(h, bp) EXCEPT !.used = [a \in DOMAIN h.used \ {bp} |-> h.used[a]]]

(***************************************************************************)
(* morecore() and malloc()                                                 *)
(***************************************************************************)
AtLeast(nu) == IF nu < NALLOC THEN NALLOC ELSE nu

(* The argument of sbrk() in units: nu * sizeof(Header) is unsigned, and   *)
(* negative as an int from half of UINT on.                                *)
AsInt(nu) ==
  LET all == UINT \div HEADER
  IN  IF 2 * (nu % all) < all THEN nu % all ELSE (nu % all) - all

(* growproc(n) fails; a size of 0 is an error to it. *)
SbrkFails(h, n) == h.brk + n > TOP \/ h.brk + n = 0

(* The break behind it; one that would wrap around below 0 stays.          *)
Break(h, n) == IF h.brk + n < 0 THEN h.brk ELSE h.brk + n

NoCore(h, nu) == SbrkFails(h, AsInt(AtLeast(nu)))

(* The header is written at the old break, whatever sbrk() has done.       *)
Grown(h, nu) ==
  [h EXCEPT !.size[h.brk] = nu, !.brk = Break(h, AsInt(nu)),
            !.core = @ \cup h.brk..h.brk + nu - 1]

Morecore(h, nu) == FreeBlock(Grown(h, AtLeast(nu)), h.brk)

Hand(h, a, n, prevp) ==
  [h EXCEPT !.freep = prevp, !.ret = a, !.used = [b \in DOMAIN @ \cup {a} |-> IF b = a THEN n ELSE @[b]]]

(* All of the block at p, or its tail. *)
Take(h, n, prevp, p) ==
  IF h.size[p] = n THEN Hand([h EXCEPT !.ptr[prevp] = h.ptr[p]], p, n, prevp)
  ELSE Hand([h EXCEPT !.size = [@ EXCEPT ![p] = @ - n, ![p + h.size[p] - n] = n]],
            p + h.size[p] - n, n, prevp)

RECURSIVE Search(_, _, _, _)
RECURSIVE Again(_, _)
(* p = morecore(), which is freep; the search goes on behind it. *)
Again(h, n) == Search(h, n, h.freep, h.ptr[h.freep])

Search(h, n, prevp, p) ==
  IF h.size[p] >= n THEN Take(h, n, prevp, p)
  ELSE IF p # h.freep THEN Search(h, n, p, h.ptr[p])
  ELSE IF NoCore(h, n) THEN [h EXCEPT !.ret = NULL]
  ELSE Again(Morecore(h, n), n)

(* nunits: the bytes in whole units, and a header. *)
Units(nbytes) == ((nbytes + HEADER - 1) % UINT) \div HEADER + 1

(* The list starts as base alone. *)
Started(h) == IF h.freep = NULL THEN [h EXCEPT !.freep = Base] ELSE h

Malloc(h, nbytes) ==
  Search(Started(h), Units(nbytes), Started(h).freep, Started(h).ptr[Started(h).freep])

(* A program that calls sbrk() itself. *)
Sbrk1(h, n) == IF SbrkFails(h, n) THEN h ELSE [h EXCEPT !.brk = Break(h, n)]

(***************************************************************************)
(* The heaps that a program can bring about.                               *)
(***************************************************************************)
After(h) ==
  {Malloc(h, n) : n \in Requests} \cup {Free(h, a) : a \in DOMAIN h.used}
  \cup {Sbrk1(h, n) : n \in Gaps}

Onward(H) == H \cup UNION {After(h) : h \in H}

RECURSIVE Heaps(_)
Heaps(k) == IF k = 0 THEN {NoHeap} ELSE Onward(Heaps(k - 1))

(* The list from p on, until it comes back to a block. *)
RECURSIVE ListFrom(_, _, _)
ListFrom(h, p, seen) ==
  IF p \in seen THEN [blocks |-> seen, last |-> p] ELSE ListFrom(h, h.ptr[p], seen \cup {p})

(* The free list is one circle through base, in the order of the addresses *)
(* but for the way back, and no two blocks on it touch.                    *)
ListSound(h, list) ==
  /\ list.last = h.freep /\ Base \in list.blocks
  /\ \A p \in list.blocks : p # Max(list.blocks) => h.ptr[p] > p
  /\ \A p \in list.blocks \ {Base} : End(h, p) # h.ptr[p]

(* The blocks on the list and those handed out are all of the core, which  *)
(* is memory of the process, and share nothing of it.                      *)
Tiles(h, blocks) ==
  /\ h.core \subseteq HEAP..h.brk - 1
  /\ UNION {a..End(h, a) - 1 : a \in blocks} = h.core
  /\ MapThenSumSet(LAMBDA a : h.size[a], blocks) = Cardinality(h.core)

HeapOk(h) ==
  h.freep # NULL =>
    \E list \in {ListFrom(h, h.freep, {})} :
      /\ ListSound(h, list)
      /\ DOMAIN h.used \cap list.blocks = {} /\ \A a \in DOMAIN h.used : h.size[a] = h.used[a]
      /\ Tiles(h, DOMAIN h.used \cup (list.blocks \ {Base}))

(* malloc() gives room for what was asked, or there is none. *)
MallocOk(h, n, r) ==
  IF r.ret # NULL THEN (r.used[r.ret] - 1) * HEADER >= n /\ r.ret \notin DOMAIN h.used
  ELSE NoCore(r, Units(n)) /\ \A a \in ListFrom(r, r.freep, {}).blocks : r.size[a] < Units(n)

(* Whatever a program allocates (in pieces below half of UINT, for which   *)
(* sbrk()'s argument is positive), frees and takes from sbrk() beside, in  *)
(* any order: malloc() and free() keep the free list and the blocks sound  *)
(* and within the memory of the process, and malloc() fails only for want  *)
(* of memory.                                                              *)
HeapsSound ==
  \A h \in Heaps(MaxOps) : HeapOk(h) /\ \A n \in Requests : MallocOk(h, n, Malloc(h, n))
=============================================================================
