----------------------------- MODULE MCContent -----------------------------
(***************************************************************************)
(* Two processes write, read and delete two files of up to three blocks of *)
(* two numbers, two of them behind the indirect block, on a disk that they *)
(* can fill, behind the root directory.  The border of two blocks of the   *)
(* bitmap is among the free blocks; what is written may be a block number. *)
(***************************************************************************)
EXTENDS Mkfs, TLC
CONSTANTS f1, f2, i0, i1, i2

Numbers == <<i0, i1, i2>>

(* One file, which leaves room in the directory. *)
OneFile == {<< <<6>> >>}

(* Two files, which fill its blocks. *)
TwoFiles == {<< <<6>>, <<7>> >>}
OneOrTwoFiles == OneFile \cup TwoFiles

SomeBuffers == {<<2, 4, 3, 5>>}

(* What is in a free block does not matter: balloc() zeroes it.            *)
InUse == <<used, [b \in used |-> block[b]], inode, dinode, lock, file, call, ghost, deleted, panic>>
Symmetric == Permutations(Procs)
EachItsOwn == {<<f1, i1>>, <<f2, i2>>}
=============================================================================
