-------------------------------- MODULE Mkfs --------------------------------
(***************************************************************************)
(* mkfs.c, and the kernel on the image it makes.  mkfs writes the image    *)
(* with allocators of its own, iappend() and two counters, and marks the   *)
(* bitmap once at the end; the file system of fs.c, module Content, then   *)
(* starts from it.  m is the image while it is written: the blocks, the    *)
(* inodes and the counters; addr is the block just looked up.  A directory *)
(* entry is its inode's number.                                            *)
(***************************************************************************)
EXTENDS Content

CONSTANTS
  Inum,       \* the inode with each number, ROOTINO first
  NINODES, IPB, LOGSIZE,
  Programs    \* bound: the files that mkfs is called with

ROOTINO == 1

(* The layout of the disk: boot block, super block, log, inodes, bitmap.   *)
nbitmap == SIZE \div BPB + 1
ninodeblocks == NINODES \div IPB + 1
nmeta == 2 + LOGSIZE + ninodeblocks + nbitmap

ASSUME MkfsAssumption ==
  /\ NMETA = nmeta /\ IPB \in Nat \ {0} /\ Inum \in Seq(Inodes) /\ Len(Inum) <= NINODES
  /\ \A files \in Programs : Len(files) + 1 <= Len(Inum)

(* Every block zeroed, no inode taken. *)
Blank ==
  [block |-> [b \in 0..SIZE - 1 |-> Zeros], ino |-> [i \in Inodes |-> Empty],
   freeinode |-> ROOTINO, freeblock |-> nmeta, addr |-> 0, ok |-> TRUE]

(* ialloc(); the inode is empty. *)
MkIalloc(m) == [m EXCEPT !.freeinode = @ + 1]

(* freeblock++, for addrs[k] and for entry k of the indirect block.  A     *)
(* block past the end of the image counts as a failure here.               *)
FreshBlock(m) ==
  [m EXCEPT !.addr = m.freeblock, !.freeblock = @ + 1, !.ok = @ /\ m.freeblock < SIZE]

MkAddr(m, i, k) ==
  IF m.ino[i].addrs[k] # 0 THEN [m EXCEPT !.addr = m.ino[i].addrs[k]]
  ELSE [FreshBlock(m) EXCEPT !.ino[i].addrs[k] = m.freeblock]

MkIndirect(m, k) ==
  IF ~m.ok THEN m
  ELSE IF m.block[m.addr][k] # 0 THEN [m EXCEPT !.addr = m.block[m.addr][k]]
  ELSE [FreshBlock(m) EXCEPT !.block[m.addr][k] = m.freeblock]

MkBlock(m, i, fbn) ==
  IF fbn >= MAXFILE THEN [m EXCEPT !.ok = FALSE]                   \* assert(fbn < MAXFILE)
  ELSE IF fbn < NDIRECT THEN MkAddr(m, i, fbn)
  ELSE MkIndirect(MkAddr(m, i, NDIRECT), fbn - NDIRECT)

(* One round of iappend()'s loop: n bytes of s into the block at addr.     *)
Chunk(m, i, s, n) ==
  IF ~m.ok THEN m
  ELSE [m EXCEPT !.block[m.addr] = Put(@, m.ino[i].size % BSIZE, SubSeq(s, 1, n)),
                 !.ino[i].size = @ + n]

(* n1: what is left of the block at off. *)
ChunkSize(off, n) == Least(n, (off \div BSIZE + 1) * BSIZE - off)

RECURSIVE Iappend(_, _, _)
Iappend(m, i, s) ==
  IF s = <<>> \/ ~m.ok THEN m
  ELSE \* one piece, then the rest
    Iappend(Chunk(MkBlock(m, i, m.ino[i].size \div BSIZE), i, s, ChunkSize(m.ino[i].size, Len(s))),
            i, SubSeq(s, ChunkSize(m.ino[i].size, Len(s)) + 1, Len(s)))

(* One file: its inode, its entry in the root directory, its bytes.        *)
Install(m, s) ==
  Iappend(Iappend(MkIalloc(m), Inum[ROOTINO], << m.freeinode >>), Inum[m.freeinode], s)

OneBlockMore(off) == (off \div BSIZE + 2) * BSIZE                  \* a mutant

(* The size of the root directory is rounded up, by a whole block when it  *)
(* fills its blocks.                                                       *)
RootSize(off) == (off \div BSIZE + 1) * BSIZE

FixRoot(m) == [m EXCEPT !.ino[Inum[ROOTINO]].size = RootSize(@)]

(* balloc(freeblock). *)
Marked(m) == 0..m.freeblock - 1

(* main(): the root with "." and "..", then the files. *)
Main(files) ==
  FixRoot(FoldLeft(Install, Iappend(MkIalloc(Blank), Inum[ROOTINO], <<ROOTINO, ROOTINO>>), files))

(* What the files of the image should hold. *)
RootDir(m) ==
  <<ROOTINO, ROOTINO>> \o [k \in 1..m.freeinode - 2 |-> k + 1]
Wanted(m, files, i) ==
  IF i = Inum[ROOTINO]
  THEN RootDir(m) \o [k \in 1..m.ino[i].size - Len(RootDir(m)) |-> 0]
  ELSE IF \E k \in DOMAIN files : Inum[k + 1] = i
  THEN files[CHOOSE k \in DOMAIN files : Inum[k + 1] = i]
  ELSE <<>>

(* The kernel starts from an image: assert(used < BSIZE*8) has held.       *)
MkfsInit ==
  \E files \in Programs : \E m \in {Main(files)} :
    /\ m.ok /\ m.freeblock < BPB
    /\ used = Marked(m) /\ block = m.block
    /\ inode = m.ino /\ dinode = m.ino
    /\ ghost = [i \in Inodes |-> Wanted(m, files, i)]
    /\ lock = [i \in Inodes |-> None] /\ file = [f \in Files |-> Closed]
    /\ call = [p \in Procs |-> Idle]
    /\ deleted = 0 /\ panic = "none"

MkfsSpec == MkfsInit /\ [][Next]_vars

(* The block that RootSize() adds when the entries fill their blocks. *)
NeverMade(i, bn) ==
  i = Inum[ROOTINO] /\ bn * BSIZE = Len(SelectSeq(ghost[i], LAMBDA e : e # 0))

(* readi() calls bmap() outside a transaction, where it must find every    *)
(* block below the size of the file: filewrite() leaves no hole, the size  *)
(* that mkfs gives a file is that of its blocks, and so is the size of the *)
(* root directory, unless its entries fill their blocks and it counts one  *)
(* block more than there are.                                              *)
ReadsOnlyButRoot ==
  \A i \in Quiet : \A bn \in {k \div BSIZE : k \in 0..inode[i].size - 1} :
     FoundThere(Bmap(Now(i), bn)) \/ NeverMade(i, bn)
=============================================================================
