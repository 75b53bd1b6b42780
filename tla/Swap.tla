-------------------------------- MODULE Swap --------------------------------
(***************************************************************************)
(* The swap area: swapread() and swapwrite() of fs.c behind their system   *)
(* calls.  A page is PGBLOCKS consecutive blocks of the boot disk, from    *)
(* SWAPBASE + blkno on, moved one block at a time through the buffer       *)
(* cache, without a lock around the page and without the log.  The cache   *)
(* is its promise, BlockStore, which Bcache is shown to keep.  A page is   *)
(* the sequence of what its blocks hold.                                   *)
(***************************************************************************)
EXTENDS Integers, Sequences

CONSTANTS
  Procs, NoProc,
  SWAPBASE, SWAPMAX,  \* first block of the area; bound on blkno
  FSSIZE,             \* idestart() refuses blocks from here on
  PGBLOCKS,           \* PGSIZE / BSIZE
  Slots,              \* per process: the values of blkno it uses
  Pages,              \* bound: what the processes write
  MaxCalls            \* bound: calls made in all

ASSUME SwapAssumption ==
  /\ NoProc \notin Procs /\ {SWAPBASE, SWAPMAX, FSSIZE, MaxCalls} \subseteq Nat
  /\ PGBLOCKS \in Nat \ {0} /\ Pages \subseteq [1..PGBLOCKS -> Nat \ {0}]
  /\ \A p \in Procs : Slots[p] \subseteq Int

VARIABLES
  content, holder,    \* the block store: what a block holds, who has its buffer
  call,               \* per process: the call it is in
  calls,              \* how many have been made
  mine,               \* per process: what it wrote last into each block
  panic

vars == <<content, holder, call, calls, mine, panic>>

Blocks == 0..(SWAPBASE + SWAPMAX + PGBLOCKS)
Store == INSTANCE BlockStore WITH Vals <- Nat, InitVal <- 0

(* i is the loop's counter, page what the call has in user memory, moved   *)
(* whether this round's memmove() is done.                                 *)
Idle == [op |-> "idle"]
Call(op, k, page) == [op |-> op, blkno |-> k, page |-> page, i |-> 0, moved |-> FALSE]
In(p) == call[p] # Idle /\ panic = "none"
Goto(p, c) == call' = [call EXCEPT ![p] = c]
Zeros == [j \in 1..PGBLOCKS |-> 0]

OnlyTooLarge(k) == k >= SWAPMAX                                    \* a mutant

(* blkno < 0 || blkno >= SWAPMAX *)
Refused(k) == k < 0 \/ k >= SWAPMAX

(* sys_swapread() and sys_swapwrite(), the page being mapped. *)
Enter(p, c) ==
  /\ call[p] = Idle /\ panic = "none" /\ calls < MaxCalls
  /\ calls' = calls + 1
  /\ IF Refused(c.blkno) THEN panic' = "blkno exceed range" /\ UNCHANGED call
     ELSE Goto(p, c) /\ UNCHANGED panic
  /\ UNCHANGED <<content, holder, mine>>

Swapread(p, k) == Enter(p, Call("read", k, Zeros))
Swapwrite(p, k, page) == Enter(p, Call("write", k, page))

OneTooFar(c) == c.blkno + SWAPBASE + c.i + c.i \div (PGBLOCKS - 1)   \* a mutant

(* The block of the loop's next round. *)
Block(c) == c.blkno + SWAPBASE + c.i

(* bread(): idestart() panics about a block beyond FSSIZE. *)
Bread(p) ==
  /\ In(p) /\ call[p].i < PGBLOCKS /\ holder[Block(call[p])] # p
  /\ IF Block(call[p]) >= FSSIZE THEN panic' = "incorrect blockno" /\ UNCHANGED <<content, holder>>
     ELSE Store!Bread(p, Block(call[p])) /\ UNCHANGED panic
  /\ UNCHANGED <<call, calls, mine>>

Has(p) == In(p) /\ call[p].i < PGBLOCKS /\ holder[Block(call[p])] = p

(* memmove() out of the buffer. *)
Copy(p) ==
  /\ Has(p) /\ call[p].op = "read" /\ ~call[p].moved
  /\ Goto(p, [call[p] EXCEPT !.page[call[p].i + 1] = content[Block(call[p])], !.moved = TRUE])
  /\ UNCHANGED <<content, holder, calls, mine, panic>>

(* memmove() into the buffer, and bwrite(). *)
Bwrite(p) ==
  /\ Has(p) /\ call[p].op = "write" /\ ~call[p].moved
  /\ Store!Update(p, Block(call[p]), call[p].page[call[p].i + 1])
  /\ mine' = [mine EXCEPT ![p][Block(call[p])] = call[p].page[call[p].i + 1]]
  /\ Goto(p, [call[p] EXCEPT !.moved = TRUE])
  /\ UNCHANGED <<calls, panic>>

NotReleased(p, k) == UNCHANGED <<content, holder>>                 \* a mutant

Release(p, k) == Store!Brelse(p, k)

Brelse(p) ==
  /\ Has(p) /\ call[p].moved
  /\ Release(p, Block(call[p]))
  /\ Goto(p, [call[p] EXCEPT !.i = @ + 1, !.moved = FALSE])
  /\ UNCHANGED <<calls, mine, panic>>

Return(p) ==
  /\ In(p) /\ call[p].i = PGBLOCKS
  /\ Goto(p, Idle)
  /\ UNCHANGED <<content, holder, calls, mine, panic>>

Init ==
  /\ Store!Init
  /\ call = [p \in Procs |-> Idle] /\ calls = 0
  /\ mine = [p \in Procs |-> [b \in Blocks |-> 0]]
  /\ panic = "none"

Step(p) == Bread(p) \/ Copy(p) \/ Bwrite(p) \/ Brelse(p) \/ Return(p)

Next ==
  \E p \in Procs :
    \/ Step(p)
    \/ \E k \in Slots[p] : Swapread(p, k) \/ \E page \in Pages : Swapwrite(p, k, page)

(* A process in a call runs on; it need not make another. *)
Spec == Init /\ [][Next]_vars /\ \A p \in Procs : WF_vars(Step(p))

(***************************************************************************)
(* Properties.                                                             *)
(***************************************************************************)
TypeOK ==
  /\ content \in [Blocks -> Nat] /\ holder \in [Blocks -> Procs \cup {NoProc}]
  /\ \A p \in Procs : call[p] = Idle \/ call[p].i \in 0..PGBLOCKS
  /\ calls \in 0..MaxCalls
  /\ panic \in {"none", "blkno exceed range", "incorrect blockno"}

Area(p) == UNION {{SWAPBASE + k + j : j \in 0..PGBLOCKS - 1} : k \in Slots[p]}

(* swaptest's check, for any number of processes: one whose slots are      *)
(* PGBLOCKS away from those of the others reads back what it wrote, block  *)
(* by block, whatever they do meanwhile.                                   *)
PageBack ==
  \A p \in Procs :
    /\ call[p] # Idle /\ call[p].op = "read" /\ call[p].i = PGBLOCKS
    /\ \A q \in Procs \ {p} : Area(p) \cap Area(q) = {}
    => \A j \in 1..PGBLOCKS : call[p].page[j] = mine[p][call[p].blkno + SWAPBASE + j - 1]

(* What is below SWAPBASE on the same disk, the kernel's image, is never   *)
(* written.                                                                *)
BootUntouched == \A b \in 0..SWAPBASE - 1 : content[b] = 0

(* Every call returns, also when the pages of several processes overlap:   *)
(* one buffer is held at a time.  (Or the machine has panicked.)           *)
CallsReturn == \A p \in Procs : call[p] # Idle ~> call[p] = Idle \/ panic # "none"

(* swapread() and swapwrite() panic about a blkno out of range: "blkno     *)
(* exceed range" (fs.c:682).  A blkno they accept reaches the disk.        *)
InRangeWorks == panic # "incorrect blockno"
=============================================================================
