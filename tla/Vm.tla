--------------------------------- MODULE Vm ---------------------------------
(***************************************************************************)
(* kalloc.c and vm.c under fork(), exec(), sbrk() and the reaping of a     *)
(* process: physical pages and the address spaces built from them.         *)
(*                                                                         *)
(* A process works on its own page table only, and kalloc() and kfree()    *)
(* are all that processes share, so a call is one step here; the other     *)
(* processes matter by the pages they leave.  The functions of vm.c are    *)
(* operators on a record m with the pages on the free list, the page table *)
(* worked on, the value to return and the reason of a panic.  Which page   *)
(* kalloc() returns is immaterial.                                         *)
(***************************************************************************)
EXTENDS Integers, Sequences, FiniteSets, SequencesExt

CONSTANTS
  Procs, First,
  NPAGES,      \* physical pages the allocator manages
  PGSIZE,      \* bytes in a page
  NPTENTRIES,  \* pages a page table maps
  NPDENTRIES,  \* page tables of the user part
  KTABLES,     \* page tables setupkvm() needs for the kernel part
  W,           \* unsigned integers are below W, 2^32 in C
  Growths,     \* bound: the arguments sbrk() is called with
  Images       \* bound: the programs exec() is called with

KERNBASE == PGSIZE * NPTENTRIES * NPDENTRIES

ASSUME VmAssumption ==
  /\ First \in Procs /\ NPAGES \in Nat /\ PGSIZE \in Nat \ {0} /\ KTABLES \in Nat
  /\ NPTENTRIES \in Nat \ {0} /\ NPDENTRIES \in Nat \ {0} /\ W >= 2 * KERNBASE
  /\ Growths \subseteq -KERNBASE..KERNBASE - 1    \* an int

VARIABLES
  free,    \* how often each page is on the free list
  space,   \* per process: its kernel stack, page table and size
  panic    \* what the kernel died of

vars == <<free, space, panic>>

Pages == 1..NPAGES
NoPage == 0
Vpns == 0..NPTENTRIES * NPDENTRIES - 1     \* user pages, by virtual page number
NoTable == [dir |-> NoPage, ktab |-> <<>>, tab |-> [t \in 0..NPDENTRIES - 1 |-> NoPage],
            pte |-> [v \in Vpns |-> NoPage], user |-> [v \in Vpns |-> FALSE]]
NoSpace == [kstack |-> NoPage, pt |-> NoTable, sz |-> 0]

PGROUNDUP(a) == (((a + PGSIZE - 1) % W) \div PGSIZE) * PGSIZE

(* Virtual pages from address a up to address b, in order. *)
Between(a, b) ==
  LET V == {v \in Vpns : a <= v * PGSIZE /\ v * PGSIZE < b}
  IN  [i \in 1..Cardinality(V) |-> a \div PGSIZE + i - 1]

(***************************************************************************)
(* kalloc(), kfree().                                                      *)
(***************************************************************************)
Start(pt) == [free |-> free, pt |-> pt, ret |-> 0, ok |-> TRUE, panic |-> "none"]
Failed(m) == [m EXCEPT !.ok = FALSE, !.ret = 0]
Dead(m, why) == [m EXCEPT !.ok = FALSE, !.panic = why]

(* The next thing to do if all went well, and what to do on failure. *)
Then(m, Op(_)) == IF m.ok THEN Op(m) ELSE m
OnFailure(m, Op(_)) == IF m.ok \/ m.panic # "none" THEN m ELSE Op(m)

CanAlloc(m) == \E pg \in Pages : m.free[pg] > 0
Top(m) == CHOOSE pg \in Pages : m.free[pg] > 0 /\ \A qg \in 1..pg - 1 : m.free[qg] = 0
Kalloc(m) == [m EXCEPT !.free[Top(m)] = @ - 1]

Kfree(m, pg) ==
  IF pg = NoPage THEN Dead(m, "kfree") ELSE [m EXCEPT !.free[pg] = @ + 1]

KfreeAll(m, s) == FoldLeft(Kfree, m, s)

(***************************************************************************)
(* walkpgdir(), mappages(), deallocuvm(), freevm().                        *)
(***************************************************************************)
Table(v) == v \div NPTENTRIES

(* walkpgdir(v, 1). *)
Walkpgdir(m, v) ==
  IF m.pt.tab[Table(v)] # NoPage THEN m
  ELSE IF ~CanAlloc(m) THEN Failed(m)
  ELSE [Kalloc(m) EXCEPT !.pt.tab[Table(v)] = Top(m)]

(* mappages() of one user page. *)
Mappages(m, v, pg, user) ==
  Then(Walkpgdir(m, v),
       LAMBDA w : IF w.pt.pte[v] # NoPage THEN Dead(w, "remap")
                  ELSE [w EXCEPT !.pt.pte[v] = pg, !.pt.user[v] = user])

Mapped(pt, v) == pt.tab[Table(v)] # NoPage /\ pt.pte[v] # NoPage

FirstOnly(oldsz, newsz) ==                                         \* a mutant
  LET s == Between(PGROUNDUP(newsz), oldsz) IN IF s = <<>> THEN s ELSE <<Head(s)>>

(* The pages deallocuvm() looks at. *)
Shrinks(oldsz, newsz) == Between(PGROUNDUP(newsz), oldsz)

(* Frees the pages of s, a sequence of virtual pages, and clears their entries. *)
Unmap(m, s) ==
  [KfreeAll(m, [i \in DOMAIN s |-> m.pt.pte[s[i]]]) EXCEPT
     !.pt.pte = [v \in Vpns |-> IF \E i \in DOMAIN s : s[i] = v THEN NoPage ELSE @[v]],
     !.pt.user = [v \in Vpns |-> @[v] /\ \A i \in DOMAIN s : s[i] # v]]

Deallocuvm(m, oldsz, newsz) ==
  IF newsz >= oldsz THEN [m EXCEPT !.ret = oldsz]
  ELSE [Unmap(m, SelectSeq(Shrinks(oldsz, newsz), LAMBDA v : Mapped(m.pt, v)))
          EXCEPT !.ret = newsz]

(* The page tables and the directory, which freevm() frees last. *)
TablePages(m) ==
  SelectSeq([i \in 1..NPDENTRIES |-> m.pt.tab[i - 1]], LAMBDA pg : pg # NoPage)
  \o m.pt.ktab \o << m.pt.dir >>

FreeTables(m) == [KfreeAll(m, TablePages(m)) EXCEPT !.pt = NoTable]

Freevm(m) == FreeTables(Deallocuvm(m, KERNBASE, 0))

(***************************************************************************)
(* setupkvm(), allocuvm(), copyuvm(), clearpteu().                         *)
(***************************************************************************)
KernelTable(m, i) ==
  IF ~m.ok THEN m
  ELSE IF ~CanAlloc(m) THEN Failed(m)
  ELSE [Kalloc(m) EXCEPT !.pt.ktab = Append(@, Top(m))]

Setupkvm(m) ==
  IF ~CanAlloc(m) THEN Failed(m)
  ELSE LET d == [Kalloc(m) EXCEPT !.pt = [NoTable EXCEPT !.dir = Top(m)]]
       IN  OnFailure(FoldLeft(KernelTable, d, [i \in 1..KTABLES |-> i]), Freevm)

Give(m, mem) == IF mem = NoPage THEN m ELSE Kfree(m, mem)

UndoKeepsPage(m, mem, oldsz, newsz) ==                             \* a mutant
  Failed(Deallocuvm(m, newsz, oldsz))

UndoLastOnly(m, mem, oldsz, newsz) ==                              \* a mutant
  Failed(Give(m, mem))

(* allocuvm() out of memory: what it has mapped is unmapped again, and the *)
(* page that could not be mapped is freed.                                 *)
Undo(m, mem, oldsz, newsz) ==
  Failed(Give(Deallocuvm(m, newsz, oldsz), mem))

GrowPage(m, v, oldsz, newsz) ==
  IF ~m.ok THEN m
  ELSE IF ~CanAlloc(m) THEN Undo(m, NoPage, oldsz, newsz)
  ELSE OnFailure(Mappages(Kalloc(m), v, Top(m), TRUE),
                 LAMBDA w : Undo(w, Top(m), oldsz, newsz))

(* The pages allocuvm() maps. *)
Grows(oldsz, newsz) == Between(PGROUNDUP(oldsz), newsz)

Allocuvm(m, oldsz, newsz) ==
  IF newsz >= KERNBASE THEN Failed(m)
  ELSE IF newsz < oldsz THEN [m EXCEPT !.ret = oldsz]
  ELSE FoldLeft(LAMBDA x, v : GrowPage(x, v, oldsz, newsz),
                [m EXCEPT !.ret = newsz], Grows(oldsz, newsz))

(* copyuvm() could not map the page it took. *)
Unmappable(m, mem) == Kfree(m, mem)

CopyPage(m, from, v) ==
  IF ~m.ok THEN m
  ELSE IF from.tab[Table(v)] = NoPage THEN Dead(m, "copyuvm: pte should exist")
  ELSE IF from.pte[v] = NoPage THEN Dead(m, "copyuvm: page not present")
  ELSE IF ~CanAlloc(m) THEN Failed(m)
  ELSE OnFailure(Mappages(Kalloc(m), v, Top(m), from.user[v]),
                 LAMBDA w : Failed(Unmappable(w, Top(m))))

Copyuvm(m, from, sz) ==
  Then(Setupkvm(m),
       LAMBDA k : OnFailure(FoldLeft(LAMBDA x, v : CopyPage(x, from, v), k, Between(0, sz)),
                            Freevm))

Clearpteu(m, a) ==
  LET v == a \div PGSIZE
  IN  IF m.pt.tab[Table(v)] = NoPage THEN Dead(m, "clearpteu")
      ELSE [m EXCEPT !.pt.user[v] = FALSE]

(***************************************************************************)
(* fork(), wait(), growproc() as sbrk() calls it.                          *)
(***************************************************************************)
Live(p) == space[p].kstack # NoPage

(* A process without a page has no instruction to execute: it faults when  *)
(* it returns to user space, trap() kills it, and it is only reaped.       *)
CanRun(p) == Live(p) /\ \E v \in Vpns : space[p].pt.user[v]

(* What a call leaves: the free list, and a panic if there was one. *)
Settle(m) == free' = m.free /\ panic' = m.panic

(* fork() whose copyuvm() failed. *)
ForkFailed(m, stack) == Kfree(m, stack)

Fork(p, q) ==
  LET m == Start(NoTable)
  IN  /\ CanRun(p) /\ ~Live(q) /\ panic = "none"
      /\ \/ ~CanAlloc(m) /\ UNCHANGED <<free, space, panic>>      \* allocproc() fails
         \/ /\ CanAlloc(m)
            /\ \E c \in {Copyuvm(Kalloc(m), space[p].pt, space[p].sz)} :
                 \/ /\ c.ok
                    /\ Settle(c)
                    /\ space' = [space EXCEPT ![q] =
                                   [kstack |-> Top(m), pt |-> c.pt, sz |-> space[p].sz]]
                 \/ /\ ~c.ok
                    /\ Settle(ForkFailed(c, Top(m)))
                    /\ UNCHANGED space

(* A zombie, which ran no more, is collected by wait(). *)
Reap(p) ==
  /\ Live(p) /\ p # First /\ panic = "none"
  /\ \E m \in {Freevm(Kfree(Start(space[p].pt), space[p].kstack))} : Settle(m)
  /\ space' = [space EXCEPT ![p] = NoSpace]

(* sz + n, unsigned. *)
NewSize(sz, n) == (sz + n) % W

(* growproc() takes a new size of 0 for a failure. *)
Resized(m, n, sz) ==
  LET failed == n # 0 /\ m.ret = 0
  IN  [m |-> m, failed |-> failed, sz |-> IF failed THEN sz ELSE m.ret]

(* growproc(n) from a size: the memory and size it leaves, and whether it  *)
(* fails.                                                                  *)
GrowFrom(p, n, sz) ==
  LET m == [Start(space[p].pt) EXCEPT !.ret = sz]
  IN  Resized(IF n > 0 THEN Allocuvm(m, sz, NewSize(sz, n))
              ELSE IF n < 0 THEN Deallocuvm(m, sz, NewSize(sz, n))
              ELSE m,
              n, sz)

Growproc(p, n) == GrowFrom(p, n, space[p].sz)

Sbrk(p, n) ==
  /\ CanRun(p) /\ p # First /\ panic = "none"
  /\ \E g \in {Growproc(p, n)} :
       /\ Settle(g.m)
       /\ space' = [space EXCEPT ![p].pt = g.m.pt, ![p].sz = g.sz]

(***************************************************************************)
(* exec().  An image is its segments, each with its place, its size and    *)
(* whether its contents cannot be read, and whether the arguments fit on   *)
(* the stack; the whole of a segment is in the file.                       *)
(***************************************************************************)
(* loaduvm().  A page that is missing from a table that is there, which    *)
(* the code does not look for, counts as a panic too.                      *)
Loaduvm(m, ph) ==
  IF \E v \in Vpns : /\ ph.vaddr <= v * PGSIZE /\ v * PGSIZE < ph.vaddr + ph.memsz
                     /\ ~Mapped(m.pt, v)
  THEN Dead(m, "loaduvm: address should exist")
  ELSE IF ph.bad THEN Failed(m) ELSE m

LoadSegment(m, ph) ==
  LET end == (ph.vaddr + ph.memsz) % W
  IN  IF ~m.ok \/ end < ph.vaddr THEN Failed(m)
      ELSE Then(Allocuvm(m, m.ret, end),
                LAMBDA a : IF a.ret = 0 \/ ph.vaddr % PGSIZE # 0 THEN Failed(a)
                           ELSE Loaduvm(a, ph))

(* Two pages on top: the guard page and the stack. *)
Stack(m) ==
  LET sz == PGROUNDUP(m.ret)
  IN  Then(Allocuvm(m, sz, sz + 2 * PGSIZE), LAMBDA a : Clearpteu(a, a.ret - 2 * PGSIZE))

(* The arguments, which may not fit. *)
Push(m, image) == IF image.args THEN m ELSE Failed(m)

(* The new address space of an image, or why there is none. *)
Load(m, image) ==
  Then(Setupkvm(m),
       LAMBDA k : OnFailure(Then(Then(FoldLeft(LoadSegment, [k EXCEPT !.ret = 0], image.segs), Stack),
                                 LAMBDA s : Push(s, image)),
                            Freevm))

(* freevm(oldpgdir). *)
FreeOld(m, old) == Freevm([m EXCEPT !.pt = old])

Exec(p, image) ==
  /\ CanRun(p) /\ panic = "none"
  /\ \E r \in {Load(Start(NoTable), image)} :
       \/ ~r.ok /\ Settle(r) /\ UNCHANGED space
       \/ /\ r.ok
          /\ \E f \in {FreeOld(r, space[p].pt)} : Settle(f)
          /\ space' = [space EXCEPT ![p].pt = r.pt, ![p].sz = r.ret]

(* kinit1() and kinit2() free every page once. *)
Kinit == [pg \in Pages |-> 1]

(* A page for initcode at address 0. *)
Inituvm(m) == Mappages(Kalloc(m), 0, Top(m), TRUE)

(* userinit(): a kernel stack, and initcode in one page at address 0.      *)
Init ==
  LET m == [free |-> Kinit, pt |-> NoTable, ret |-> 0, ok |-> TRUE,
            panic |-> "none"]
      k == Setupkvm(Kalloc(m))
      u == Inituvm(k)
  IN  /\ free = u.free
      /\ space = [p \in Procs |-> IF p = First
                                  THEN [kstack |-> Top(m), pt |-> u.pt, sz |-> PGSIZE]
                                  ELSE NoSpace]
      /\ panic = "none"

Next ==
  \E p \in Procs :
    \/ \E q \in Procs : Fork(p, q)
    \/ \E n \in Growths : Sbrk(p, n)
    \/ \E image \in Images : Exec(p, image)
    \/ Reap(p)

Spec == Init /\ [][Next]_vars

(***************************************************************************)
(* Properties.                                                             *)
(***************************************************************************)
PageOrNone == Pages \cup {NoPage}

(* Every variable holds a value of its type. *)
TypeOK ==
  /\ free \in [Pages -> Nat]
  /\ \A p \in Procs :
       /\ space[p].kstack \in PageOrNone /\ space[p].sz \in 0..KERNBASE - 1
       /\ space[p].pt.dir \in PageOrNone /\ space[p].pt.ktab \in Seq(Pages)
       /\ space[p].pt.tab \in [0..NPDENTRIES - 1 -> PageOrNone]
       /\ space[p].pt.pte \in [Vpns -> PageOrNone]
       /\ space[p].pt.user \in [Vpns -> BOOLEAN]
  /\ panic \in {"none", "kfree", "remap", "copyuvm: pte should exist",
                "copyuvm: page not present", "clearpteu", "loaduvm: address should exist"}

(* How often a page is in use by a process. *)
Uses(s, pg) ==
  Cardinality({i \in {1} : s.kstack = pg}) + Cardinality({i \in {1} : s.pt.dir = pg})
  + Cardinality({i \in DOMAIN s.pt.ktab : s.pt.ktab[i] = pg})
  + Cardinality({t \in DOMAIN s.pt.tab : s.pt.tab[t] = pg})
  + Cardinality({v \in Vpns : s.pt.pte[v] = pg})

(* Every physical page has exactly one place: once on the free list, or    *)
(* once in one process.  No path through fork(), exec(), sbrk() and wait(),*)
(* running out of memory at any kalloc() included, loses a page, frees it  *)
(* twice or gives it to two owners.                                        *)
OneOwner ==
  panic = "none" =>
    \A pg \in Pages :
      free[pg] + MapThenSumSet(LAMBDA p : Uses(space[p], pg), Procs) = 1

(* A process that still has memory has all of it: the pages below its size *)
(* are mapped, which copyuvm() and loaduvm() panic about, and none above.  *)
SizeIsMapped ==
  \A p \in Procs : CanRun(p) =>
    \A v \in Vpns : Mapped(space[p].pt, v) <=> v * PGSIZE < space[p].sz

(* None of the panics of kfree(), mappages(), copyuvm(), loaduvm() and     *)
(* clearpteu() is reached.                                                 *)
NoPanic == panic = "none"

SameMemory(p, g) ==
  g.sz = space[p].sz /\ g.m.pt.pte = space[p].pt.pte /\ g.m.pt.user = space[p].pt.user
Calls == {c \in (Procs \ {First}) \X Growths : CanRun(c[1]) /\ panic = "none"}

(* growproc(): "Return 0 on success, -1 on failure" (proc.c:158).  A call  *)
(* that fails leaves the size and the pages of the process alone.          *)
FailureKeepsMemory ==
  \A c \in Calls : LET g == Growproc(c[1], c[2]) IN g.failed => SameMemory(c[1], g)

(* The same for a call that asks for more memory, wherever it runs out.    *)
NoHalfGrowth ==
  \A c \in Calls :
    LET g == Growproc(c[1], c[2]) IN c[2] > 0 /\ g.failed => SameMemory(c[1], g)

(* growproc(): "Grow current process's memory by n bytes" (proc.c:157).  A *)
(* call that succeeds moves the size by n.                                 *)
SuccessMovesSize ==
  \A c \in Calls :
    LET g == Growproc(c[1], c[2]) IN ~g.failed => g.sz = space[c[1]].sz + c[2]

(* The same for a call that does not give back more than there is.         *)
GrowthExact ==
  \A c \in Calls :
    LET g == Growproc(c[1], c[2])
    IN  ~g.failed /\ space[c[1]].sz + c[2] >= 0 => g.sz = space[c[1]].sz + c[2]
=============================================================================
