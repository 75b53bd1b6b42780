------------------------------ MODULE Syscall ------------------------------
(***************************************************************************)
(* The arguments of system calls, syscall.c: what the kernel takes from    *)
(* the memory of the calling process, on the address spaces of Vm.  The    *)
(* process chooses its stack pointer and every word, so an address is any  *)
(* unsigned number; bytes of memory are told apart by being 0 or not.      *)
(***************************************************************************)
EXTENDS Vm

CONSTANT WORD      \* sizeof(int)

ASSUME SyscallAssumption == WORD \in Nat \ {0}

Uints == 0..W - 1

EndOnly(sz, a) == (a + WORD) % W > sz                              \* a mutant

(* fetchint() refuses the address. *)
OutOfRange(sz, a) == a >= sz \/ (a + WORD) % W > sz

(* The bytes that fetchint(), argptr() with a size, an int, and fetchstr() *)
(* give the kernel to read or write, if they accept.                       *)
Fetchint(sz, a) == IF OutOfRange(sz, a) THEN {} ELSE a..a + WORD - 1

Argint(sz, esp, n) == Fetchint(sz, (esp + WORD + WORD * n) % W)

Argptr(sz, i, size) ==
  IF size < 0 \/ (i % W) >= sz \/ ((i % W) + size) % W > sz THEN {}
  ELSE (i % W)..(i % W) + size - 1

(* nul: where the first 0 from addr on is. *)
Fetchstr(sz, addr, nul) ==
  IF addr >= sz THEN {} ELSE {s \in addr..sz - 1 : s <= nul}

(* syscall.c: "Check that the pointer lies within the process address      *)
(* space."  Every byte that the kernel takes for an argument is in a page  *)
(* that the process has, whatever its stack pointer and its arguments, and *)
(* whatever fork(), exec() and sbrk() have made of its memory: an access   *)
(* by the kernel that faults is a panic.                                   *)
ArgsMapped ==
  \A p \in Procs : CanRun(p) =>
    LET sz == space[p].sz
        Taken == UNION {Argint(sz, esp, n) : esp \in Uints, n \in 0..2}
                 \cup UNION {Argptr(sz, i, size) : i \in -(W \div 2)..W \div 2 - 1,
                                                   size \in {-1, 0, 1, PGSIZE, W \div 2 - 1}}
                 \cup UNION {Fetchstr(sz, a, nul) : a \in Uints, nul \in Uints}
    IN  \A b \in Taken : b \div PGSIZE \in Vpns /\ Mapped(space[p].pt, b \div PGSIZE)
=============================================================================
