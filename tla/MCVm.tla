-------------------------------- MODULE MCVm --------------------------------
(* Instances of Vm for TLC: pages of two bytes, page tables of two pages,  *)
(* three of them, so that a process grows over the border of a table.      *)
EXTENDS Syscall, Umalloc

CONSTANTS A, B, C

Seg(vaddr, memsz) == [vaddr |-> vaddr, memsz |-> memsz, bad |-> FALSE]

(* One segment; two with a gap between them; the second below the first;   *)
(* one that wraps around; one not aligned; one that cannot be read; one    *)
(* too large; an empty one; and one whose arguments do not fit.            *)
SomeImages ==
  {[segs |-> s, args |-> TRUE] :
     s \in {<<Seg(0, 1)>>, <<Seg(0, 1), Seg(4, 1)>>, <<Seg(2, 2), Seg(0, 1)>>, <<Seg(12, 20)>>,
            <<Seg(1, 2)>>, <<[Seg(0, 3) EXCEPT !.bad = TRUE]>>, <<Seg(0, 14)>>, <<Seg(0, 0)>>}}
  \cup {[segs |-> <<Seg(0, 1)>>, args |-> FALSE]}

SomeGrowths == {-5, -2, -1, 0, 1, 2, 4}

(* Pages are interchangeable while each has one owner: two states with the *)
(* same tables filled in the same places differ in page numbers only.      *)
Shape ==
  << [p \in Procs |-> [sz |-> space[p].sz, live |-> Live(p), user |-> space[p].pt.user,
                       tab |-> {t \in DOMAIN space[p].pt.tab : space[p].pt.tab[t] # NoPage},
                       pte |-> {v \in Vpns : space[p].pt.pte[v] # NoPage}]],
     MapThenSumSet(LAMBDA pg : free[pg], Pages), panic, OneOwner >>

(* umalloc.c: malloc() and free() keep every heap sound (HeapsSound).  The  *)
(* heap is no part of the state, and is judged once, in the first one.     *)
FirstState == space[First].sz = PGSIZE /\ \A p \in Procs : Live(p) => p = First
HeapSound == FirstState => HeapsSound

Perms == Permutations(Procs \ {First})
=============================================================================
