------------------------------ MODULE Content ------------------------------
(***************************************************************************)
(* The contents of files: balloc(), bfree(), bmap(), itrunc(), readi() and *)
(* writei() of fs.c, under fileread() and filewrite() of file.c.           *)
(*                                                                         *)
(* A block holds BSIZE numbers: bytes of a file, or numbers of blocks, and *)
(* nothing but its owner says which, as on the disk.  Each transaction     *)
(* holds the inode's lock; one step works on one block, so that the        *)
(* allocations and the frees of several processes interleave.  Buffers and *)
(* the log are the subject of Bcache and Log; here a block is what bread() *)
(* returns, and a call counts the blocks it gives to log_write().  The     *)
(* first state is the image that mkfs makes, in module Mkfs.               *)
(***************************************************************************)
EXTENDS Naturals, Sequences, FiniteSets, FiniteSetsExt, SequencesExt

CONSTANTS
  Procs, Inodes, Files,
  None,         \* no process, no inode
  BSIZE,        \* numbers in a block: bytes, or NINDIRECT block numbers
  NDIRECT,
  SIZE,         \* sb.size
  NMETA,        \* blocks 0..NMETA - 1 are not for files
  BPB,          \* bits in a block of the bitmap
  MAXOPBLOCKS,  \* blocks of the log for one transaction
  W,            \* unsigned arithmetic is modulo W (2^32 in C)
  Buffers,      \* bound: what the processes write
  Lengths,      \* bound: how much they read at a time
  Linked,       \* inodes that keep a name, as the root does
  Opens,        \* bound: which file opens which inode
  MaxDeleted    \* bound: files deleted in a behaviour

NINDIRECT == BSIZE
MAXFILE == NDIRECT + NINDIRECT

ASSUME ContentAssumption ==
  /\ None \notin Procs \cup Inodes
  /\ BSIZE \in Nat \ {0} /\ BPB \in Nat \ {0} /\ {NDIRECT, SIZE, NMETA, MAXOPBLOCKS} \subseteq Nat
  /\ W > MAXFILE * BSIZE
  /\ MaxDeleted \in Nat /\ Lengths \subseteq Nat /\ Buffers \subseteq Seq(1..W - 1) \ {<<>>}

VARIABLES
  used,    \* the bitmap: the blocks marked in use
  block,   \* the contents of every block
  inode,   \* addrs and size of every inode, in memory
  dinode,  \* the same as iupdate() last wrote them
  lock,    \* who holds the inode
  file,    \* ip and off of every open file
  call,    \* the call every process is in
  ghost,   \* what every file should hold, by the pieces written to it
  deleted, \* how many files have been deleted
  panic

vars == <<used, block, inode, dinode, lock, file, call, ghost, deleted, panic>>

Zeros == [k \in 0..BSIZE - 1 |-> 0]
Empty == [addrs |-> [k \in 0..NDIRECT |-> 0], size |-> 0]
Closed == [ip |-> None, off |-> 0]
Idle == [at |-> "idle"]

At(p, l) == call[p].at = l /\ panic = "none"
Goto(p, c) == call' = [call EXCEPT ![p] = c]
Least(a, b) == IF a <= b THEN a ELSE b

(***************************************************************************)
(* balloc() and bmap(), on the record of what they read and change.        *)
(***************************************************************************)
Now(i) == [used |-> used, block |-> block, ino |-> inode[i], logged |-> {}, addr |-> 0]

BBLOCK(b) == <<"bitmap", b \div BPB>>
IBLOCK(i) == <<"inode", i>>
DBLOCK(b) == <<"data", b>>

NotZeroed(c, b) == c                                               \* a mutant

(* bzero(b). *)
Bzero(c, b) == [c EXCEPT ![b] = Zeros]

(* The lowest free block, marked and zeroed; 0 when there is none: panic.  *)
Balloc(m) ==
  LET free == (0..SIZE - 1) \ m.used
      b == Min(free)
  IN  IF free = {} THEN [m EXCEPT !.addr = 0]
      ELSE [m EXCEPT !.used = @ \cup {b}, !.block = Bzero(@, b), !.addr = b,
                     !.logged = @ \cup {DBLOCK(b), BBLOCK(b)}]

(* addrs[k], allocated if it is not there. *)
Addr(m, k) ==
  IF m.ino.addrs[k] # 0 THEN [m EXCEPT !.addr = m.ino.addrs[k]]
  ELSE LET a == Balloc(m) IN [a EXCEPT !.ino.addrs[k] = a.addr]

(* Entry k of the indirect block that x.addr is the number of. *)
Indirect(x, k) ==
  LET ind == x.addr
      a == Balloc(x)
  IN  IF ind = 0 THEN x
      ELSE IF x.block[ind][k] # 0 THEN [x EXCEPT !.addr = x.block[ind][k]]
      ELSE [a EXCEPT !.block[ind][k] = a.addr, !.logged = @ \cup {DBLOCK(ind)}]

Bmap(m, bn) ==
  IF bn < NDIRECT THEN Addr(m, bn) ELSE Indirect(Addr(m, NDIRECT), bn - NDIRECT)

(***************************************************************************)
(* Opening and closing, as far as they matter here: a file starts at       *)
(* offset 0, two processes that share it share its offset, and an inode    *)
(* that is being truncated has no reference but the one of iput().         *)
(***************************************************************************)
Fileopen(f, i) ==
  /\ panic = "none" /\ file[f].ip = None /\ <<f, i>> \in Opens
  /\ \A p \in Procs : call[p].at = "trunc" => call[p].ip # i
  /\ file' = [file EXCEPT ![f] = [ip |-> i, off |-> 0]]
  /\ UNCHANGED <<used, block, inode, dinode, lock, call, ghost, deleted, panic>>

Fileclose(f) ==
  /\ panic = "none" /\ file[f].ip # None
  /\ \A p \in Procs : call[p].at \in {"begin", "write"} => call[p].f # f
  /\ file' = [file EXCEPT ![f] = Closed]
  /\ UNCHANGED <<used, block, inode, dinode, lock, call, ghost, deleted, panic>>

(***************************************************************************)
(* filewrite(f, s) and writei().                                           *)
(***************************************************************************)
NoSlop == ((MAXOPBLOCKS - 1 - 1) \div 2) * BSIZE                   \* a mutant

(* max: the most that is written in one transaction. *)
Piece == ((MAXOPBLOCKS - 1 - 1 - 2) \div 2) * BSIZE

Filewrite(p, f, s) ==
  /\ At(p, "idle") /\ file[f].ip # None
  /\ Goto(p, [at |-> "begin", f |-> f, rest |-> s])
  /\ UNCHANGED <<used, block, inode, dinode, lock, file, ghost, deleted, panic>>

(* writei() returns -1. *)
Refused(i, off, n) ==
  off > inode[i].size \/ (off + n) % W < off \/ (off + n) % W > MAXFILE * BSIZE

(* begin_op(), ilock() and the tests of writei().  f->off is read under    *)
(* the lock; a call that is refused returns with what it wrote before.     *)
Begin(p) ==
  LET c == call[p]
      i == file[c.f].ip
      off == file[c.f].off
      n == Least(Piece, Len(c.rest))
  IN  /\ At(p, "begin") /\ lock[i] = None
      /\ IF Refused(i, off, n) THEN Goto(p, Idle) /\ UNCHANGED <<lock, ghost>>
         ELSE /\ Goto(p, [at |-> "write", f |-> c.f, ip |-> i, off |-> off, n |-> n,
                          rest |-> c.rest, logged |-> {}])
              /\ lock' = [lock EXCEPT ![i] = p]
              /\ ghost' = [ghost EXCEPT ![i] =
                   SubSeq(@, 1, off) \o SubSeq(c.rest, 1, n) \o SubSeq(@, off + n + 1, Len(@))]
      /\ UNCHANGED <<used, block, inode, dinode, file, deleted, panic>>

PutAtStart(data, off, s) ==                                        \* a mutant
  [k \in DOMAIN data |-> IF k + 1 \in 1..Len(s) THEN s[k + 1] ELSE data[k]]

(* data with s put at off. *)
Put(data, off, s) ==
  [k \in DOMAIN data |-> IF k - off + 1 \in 1..Len(s) THEN s[k - off + 1] ELSE data[k]]

(* One round of writei()'s loop. *)
Writei(p) ==
  LET c == call[p]
      bn == c.off \div BSIZE
      b == Bmap(Now(c.ip), bn)
      m == Least(c.n, BSIZE - (c.off % BSIZE))
      s == SubSeq(c.rest, 1, m)
  IN  /\ At(p, "write") /\ c.n > 0
      /\ IF bn >= MAXFILE \/ b.addr = 0
         THEN /\ panic' = IF bn >= MAXFILE THEN "bmap: out of range" ELSE "balloc: out of blocks"
              /\ UNCHANGED <<used, block, inode, call>>
         ELSE /\ used' = b.used
              /\ block' = [b.block EXCEPT ![b.addr] = Put(@, c.off % BSIZE, s)]
              /\ inode' = [inode EXCEPT ![c.ip] = b.ino]
              /\ Goto(p, [c EXCEPT !.off = @ + m, !.n = @ - m, !.rest = SubSeq(@, m + 1, Len(@)),
                                   !.logged = @ \cup b.logged \cup {DBLOCK(b.addr)}])
              /\ UNCHANGED panic
      /\ UNCHANGED <<dinode, lock, file, ghost, deleted>>

(* iupdate(ip). *)
Iupdate(i, ino) == dinode' = [dinode EXCEPT ![i] = ino]

(* f->off += r. *)
Advance(f, n) == file' = [file EXCEPT ![f].off = (@ + n) % W]

(* The end of writei(), iunlock(), end_op(); then the next piece. *)
WriteDone(p) ==
  LET c == call[p]
      grown == [inode[c.ip] EXCEPT !.size = c.off]
  IN  /\ At(p, "write") /\ c.n = 0
      /\ IF c.off > inode[c.ip].size
         THEN inode' = [inode EXCEPT ![c.ip] = grown] /\ Iupdate(c.ip, grown)
         ELSE UNCHANGED <<inode, dinode>>
      /\ Advance(c.f, c.off - file[c.f].off)
      /\ lock' = [lock EXCEPT ![c.ip] = None]
      /\ Goto(p, IF c.rest = <<>> THEN Idle ELSE [at |-> "begin", f |-> c.f, rest |-> c.rest])
      /\ UNCHANGED <<used, block, ghost, deleted, panic>>

(***************************************************************************)
(* readi() and fileread().  readi() reads block by block through bmap(),   *)
(* which would allocate what is missing, outside any transaction.          *)
(***************************************************************************)

(* n, cut at the end of the file. *)
ReadSize(i, off, n) == IF off + n > inode[i].size THEN inode[i].size - off ELSE n

ReadRefused(i, off, n) == off > inode[i].size \/ (off + n) % W < off

(* The blocks and the bytes that readi(ip, dst, off, n) reads.  Fileread() *)
(* leaves the blocks alone: the files it reads miss none (ReadsOnly below; *)
(* Opens leaves out the root directory).                                   *)
Read(i, off, n) == {Bmap(Now(i), k \div BSIZE) : k \in off..off + ReadSize(i, off, n) - 1}
Readi(i, off, n) ==
  [k \in 1..ReadSize(i, off, n) |->
     LET at == off + k - 1
         b == Bmap(Now(i), at \div BSIZE)
     IN  b.block[b.addr][at % BSIZE]]

Fileread(f, n) ==
  LET i == file[f].ip
      off == file[f].off
  IN  /\ panic = "none" /\ i # None
      /\ lock[i] = None
      /\ ~ReadRefused(i, off, n)
      /\ Advance(f, ReadSize(i, off, n))
      /\ UNCHANGED <<used, block, inode, dinode, lock, call, ghost, deleted, panic>>

(***************************************************************************)
(* itrunc(), when iput() drops the last reference to an inode without      *)
(* links.                                                                  *)
(***************************************************************************)
(* What itrunc() frees, in its order. *)
ToFree(i) ==
  LET addrs == inode[i].addrs
      ind == addrs[NDIRECT]
      direct == [k \in 1..NDIRECT |-> addrs[k - 1]]
      indirect == IF ind = 0 THEN <<>> ELSE [k \in 1..NINDIRECT |-> block[ind][k - 1]] \o <<ind>>
  IN  SelectSeq(direct \o indirect, LAMBDA b : b # 0)

Iput(p, i) ==
  /\ At(p, "idle") /\ lock[i] = None /\ i \notin Linked /\ deleted < MaxDeleted
  /\ deleted' = deleted + 1
  /\ \A f \in Files : file[f].ip # i
  /\ Goto(p, [at |-> "trunc", ip |-> i, free |-> ToFree(i), logged |-> {}])
  /\ lock' = [lock EXCEPT ![i] = p]
  /\ UNCHANGED <<used, block, inode, dinode, file, ghost, panic>>

StaysMarked(b) == used                                             \* a mutant

(* The bitmap without b. *)
Unmark(b) == used \ {b}

(* bfree() of the next block; the number is erased from addrs, and stays   *)
(* in the indirect block, which is not read again.                         *)
Bfree(p) ==
  LET c == call[p]
      b == Head(c.free)
  IN  /\ At(p, "trunc") /\ c.free # <<>>
      /\ IF b \notin used
         THEN panic' = "freeing free block" /\ UNCHANGED <<used, inode, call>>
         ELSE /\ used' = Unmark(b)
              /\ inode' = [inode EXCEPT ![c.ip].addrs = [k \in DOMAIN @ |-> IF @[k] = b THEN 0 ELSE @[k]]]
              /\ Goto(p, [c EXCEPT !.free = Tail(@), !.logged = @ \cup {BBLOCK(b)}])
              /\ UNCHANGED panic
      /\ UNCHANGED <<block, dinode, lock, file, ghost, deleted>>

TruncDone(p) ==
  LET c == call[p]
      cut == [inode[c.ip] EXCEPT !.size = 0]
  IN  /\ At(p, "trunc") /\ c.free = <<>>
      /\ inode' = [inode EXCEPT ![c.ip] = cut]
      /\ Iupdate(c.ip, cut)
      /\ lock' = [lock EXCEPT ![c.ip] = None]
      /\ ghost' = [ghost EXCEPT ![c.ip] = <<>>]
      /\ Goto(p, Idle)
      /\ UNCHANGED <<used, block, file, deleted, panic>>

(* panic() stops the machine. *)
Halted == panic # "none" /\ UNCHANGED vars

Next ==
  \/ \E f \in Files : \/ \E i \in Inodes : Fileopen(f, i)
                      \/ Fileclose(f)
                      \/ \E n \in Lengths : Fileread(f, n)
  \/ \E p \in Procs : \/ \E f \in Files, s \in Buffers : Filewrite(p, f, s)
                      \/ \E i \in Inodes : Iput(p, i)
                      \/ Begin(p) \/ Writei(p) \/ WriteDone(p) \/ Bfree(p) \/ TruncDone(p)
  \/ Halted

-----------------------------------------------------------------------------
(* The blocks an inode names, the indirect block included, in file order.  *)
Owned(i) == ToFree(i)
Meta == 0..NMETA - 1
Quiet == {i \in Inodes : lock[i] = None}
Offsets == 0..MAXFILE * BSIZE

(* The values of the state; the bits of the blocks that are not for files  *)
(* stay set through every balloc() and bfree().                            *)
TypeOK ==
  /\ Meta \subseteq used /\ used \subseteq 0..SIZE - 1
  /\ block \in [0..SIZE - 1 -> [0..BSIZE - 1 -> 0..W - 1]]
  /\ {inode[i] : i \in Inodes} \cup {dinode[i] : i \in Inodes}
       \subseteq [addrs : [0..NDIRECT -> 0..SIZE - 1], size : Offsets]
  /\ lock \in [Inodes -> Procs \cup {None}]
  /\ file \in [Files -> [ip : Inodes \cup {None}, off : Offsets]]
  /\ \A i \in Inodes : lock[i] # None => call[lock[i]].at \in {"write", "trunc"} /\ call[lock[i]].ip = i

(* bmap(), balloc(): a block that an unlocked inode names is marked in the *)
(* bitmap, and is named once, by one inode: whatever was in it before, as  *)
(* data or as block numbers, and whoever allocates or frees meanwhile.     *)
OneOwner ==
  \A i, j \in Quiet : \A k \in DOMAIN Owned(i), l \in DOMAIN Owned(j) :
     /\ Owned(i)[k] \in used \ Meta
     /\ Owned(i)[k] = Owned(j)[l] => i = j /\ k = l

(* itrunc(): no block stays marked that no inode names.                    *)
NoLeak == Quiet = Inodes => used = Meta \cup UNION {ToSet(Owned(i)) : i \in Inodes}

(* bfree() never finds its block free and bmap() is never asked for a      *)
(* block past MAXFILE; a disk without free blocks is the one panic left.   *)
NoPanic == panic \in {"none", "balloc: out of blocks"}

(* filewrite() cuts a write so that the blocks of one transaction, with    *)
(* the inode, the indirect block and the bitmap, fit in what begin_op()    *)
(* reserved; so do the frees of itrunc().                                  *)
TxnFits ==
  \A p \in Procs : call[p].at \in {"write", "trunc"} =>
     Cardinality(call[p].logged \cup {IBLOCK(call[p].ip)}) <= MAXOPBLOCKS

(* fileread(), filewrite(): the offset of an open file, which processes    *)
(* share and move under the inode's lock, is never past the file's end, so *)
(* that a write leaves no hole.                                            *)
OffsetInside == \A f \in Files : file[f].ip # None => file[f].off <= inode[file[f].ip].size

(* readi() returns, from every offset, what writei() or mkfs was given:    *)
(* across blocks, through the indirect block, cut at the end of the file.  *)
(* (Where a block is missing and the disk is full, bmap() panics.)         *)
ReadsBack ==
  \A i \in Quiet : \A off \in 0..inode[i].size, n \in Lengths :
     \/ ReadRefused(i, off, n)
     \/ Readi(i, off, n) = SubSeq(ghost[i], off + 1, Least(off + n, Len(ghost[i])))
     \/ \E b \in Read(i, off, n) : b.addr = 0

(* readi() calls bmap() outside a transaction: it must find every block    *)
(* there, or it would allocate one without the log.  mkfs can make a root  *)
(* directory that breaks this; ReadsOnlyButRoot in Mkfs says which.        *)
FoundThere(b) == b.logged = {} /\ b.addr # 0
ReadsOnly == \A i \in Quiet : \A b \in Read(i, 0, inode[i].size) : FoundThere(b)

(* "i-node cache is write-through": writei() calls iupdate() only when the *)
(* file has grown, which must cover every change of addrs by bmap().       *)
WriteThrough == \A i \in Quiet : dinode[i] = inode[i]
=============================================================================
