------------------------------- MODULE Bcache -------------------------------
(***************************************************************************)
(* bio.c over sleeplock.c and ide.c: processes share NBUF buffers, each    *)
(* under a sleep lock, and a request queue that the disk's interrupt       *)
(* handler empties.  A step is one critical section of bcache.lock, of a   *)
(* sleep lock's spinlock, or of idelock; sleep() is entered and left       *)
(* inside one of them.                                                     *)
(***************************************************************************)
EXTENDS Integers, Sequences, SequencesExt

CONSTANTS
  Procs, NoProc,
  Blocks, NoBlock,   \* block numbers, and that of a buffer never used
  Vals, InitVal,
  NBUF,
  Written,           \* bound: the blocks that are written
  Pinned,            \* those the log may leave B_DIRTY in the cache
  DiskErrors         \* whether a read may fail

ASSUME BcacheAssumption ==
  /\ NBUF \in Nat /\ InitVal \in Vals /\ NoProc \notin Procs /\ NoBlock \notin Blocks
  /\ Written \subseteq Blocks /\ Pinned \subseteq Written /\ DiskErrors \in BOOLEAN

VARIABLES
  lru,                          \* the buffers, most recently used first
  block, valid, dirty, refcnt,  \* struct buf (valid and dirty are B_ flags)
  data, owner,                  \* its contents and the holder of its sleep lock
  disk, idequeue, xfer,         \* the disk; the requests; what the disk was sent
  pc, cur, want                 \* per process: place, buffer, block asked for

bcache == <<lru, block, refcnt>>
ide == <<disk, idequeue, xfer>>
vars == <<bcache, valid, dirty, data, owner, ide, pc, cur, want>>

Bufs == 1..NBUF
Quiet == NoBlock      \* the disk is executing no command
Goto(p, l) == pc' = [pc EXCEPT ![p] = l]

(***************************************************************************)
(* bget().                                                                 *)
(***************************************************************************)

Cached(k) == {b \in Bufs : block[b] = k}

FreeIgnoringDirty == {i \in 1..NBUF : refcnt[lru[i]] = 0}          \* a mutant

(* Places in lru of the buffers that may be recycled. *)
Free == {i \in 1..NBUF : refcnt[lru[i]] = 0 /\ ~dirty[lru[i]]}

Hit(p, k) ==
  /\ Cached(k) # {}
  /\ LET b == CHOOSE b \in Cached(k) : TRUE
     IN  /\ refcnt' = [refcnt EXCEPT ![b] = @ + 1]
         /\ cur' = [cur EXCEPT ![p] = b]
  /\ Goto(p, "lock")
  /\ UNCHANGED <<lru, block, valid, dirty>>

Recycle(p, k) ==
  /\ Cached(k) = {}
  /\ IF Free = {} THEN Goto(p, "panic") /\ UNCHANGED <<bcache, valid, dirty, cur>>
     ELSE LET b == lru[Max(Free)]
          IN  /\ block' = [block EXCEPT ![b] = k]
              /\ valid' = [valid EXCEPT ![b] = FALSE]
              /\ dirty' = [dirty EXCEPT ![b] = FALSE]
              /\ refcnt' = [refcnt EXCEPT ![b] = 1]
              /\ cur' = [cur EXCEPT ![p] = b]
              /\ Goto(p, "lock")
              /\ UNCHANGED lru

Bget(p, k) ==
  /\ pc[p] = "idle"
  /\ want' = [want EXCEPT ![p] = k]
  /\ Hit(p, k) \/ Recycle(p, k)
  /\ UNCHANGED <<data, owner, ide>>

(***************************************************************************)
(* acquiresleep(), releasesleep(), and the test of B_VALID in bread().     *)
(***************************************************************************)
Acquiresleep(p) ==
  /\ pc[p] = "lock"
  /\ IF owner[cur[p]] # NoProc
     THEN Goto(p, "lock_asleep") /\ UNCHANGED owner
     ELSE /\ owner' = [owner EXCEPT ![cur[p]] = p]
          /\ Goto(p, IF valid[cur[p]] THEN "have" ELSE "rw")
  /\ UNCHANGED <<bcache, valid, dirty, data, ide, cur, want>>

WakeNone(p, b) == [pc EXCEPT ![p] = "unlocked"]                   \* a mutant

(* wakeup(lk), and p goes on to the rest of brelse(). *)
WakeLockers(p, b) ==
  [q \in Procs |-> IF q = p THEN "unlocked"
                   ELSE IF pc[q] = "lock_asleep" /\ cur[q] = b THEN "lock" ELSE pc[q]]

Releasesleep(p) ==
  /\ pc[p] = "have"
  /\ owner' = [owner EXCEPT ![cur[p]] = NoProc]
  /\ pc' = WakeLockers(p, cur[p])
  /\ UNCHANGED <<bcache, valid, dirty, data, ide, cur, want>>

Unref(n) == n - 1

(* The rest of brelse(); the caller's locals end here. *)
Brelse(p) ==
  /\ pc[p] = "unlocked"
  /\ LET b == cur[p]
     IN  /\ refcnt' = [refcnt EXCEPT ![b] = Unref(@)]
         /\ lru' = IF Unref(refcnt[b]) = 0
                   THEN <<b>> \o SelectSeq(lru, LAMBDA c : c # b) ELSE lru
  /\ cur' = [cur EXCEPT ![p] = 1] /\ want' = [want EXCEPT ![p] = NoBlock]
  /\ Goto(p, "idle")
  /\ UNCHANGED <<block, valid, dirty, data, owner, ide>>

(***************************************************************************)
(* The holder of a buffer: bwrite(), and log_write(), which only sets      *)
(* B_DIRTY; commit() writes such a buffer later, with bwrite().            *)
(***************************************************************************)
Bwrite(p, v) ==
  /\ pc[p] = "have" /\ block[cur[p]] \in Written
  /\ data' = [data EXCEPT ![cur[p]] = v]
  /\ dirty' = [dirty EXCEPT ![cur[p]] = TRUE]
  /\ Goto(p, "rw")
  /\ UNCHANGED <<bcache, valid, owner, ide, cur, want>>

LogWrite(p, v) ==
  /\ pc[p] = "have" /\ block[cur[p]] \in Pinned
  /\ data' = [data EXCEPT ![cur[p]] = v]
  /\ dirty' = [dirty EXCEPT ![cur[p]] = TRUE]
  /\ UNCHANGED <<bcache, valid, owner, ide, pc, cur, want>>

(***************************************************************************)
(* ide.c.                                                                  *)
(***************************************************************************)
(* idestart(b): a write sends the data to the disk at once. *)
Idestart(b) == xfer' = data[b]

StartAlways(q, b) == Idestart(b)                                   \* a mutant

(* Start the disk if the request is the only one. *)
StartIfFirst(q, b) == IF q = <<b>> THEN Idestart(b) ELSE UNCHANGED xfer

(* Start the disk on the next request. *)
StartNext(q) == IF q = <<>> THEN xfer' = Quiet ELSE Idestart(Head(q))

Dequeue(q) == Tail(q)

(* iderw() up to its first sleep(); it panics when there is nothing to do. *)
Iderw(p) ==
  /\ pc[p] = "rw"
  /\ IF valid[cur[p]] /\ ~dirty[cur[p]]
     THEN Goto(p, "panic") /\ UNCHANGED <<idequeue, xfer>>
     ELSE /\ idequeue' = Append(idequeue, cur[p])
          /\ StartIfFirst(idequeue', cur[p])
          /\ Goto(p, "rw_asleep")
  /\ UNCHANGED <<bcache, valid, dirty, data, owner, disk, cur, want>>

(* The test of iderw()'s loop after a wakeup. *)
IderwWoken(p) ==
  /\ pc[p] = "rw_woken"
  /\ Goto(p, IF valid[cur[p]] /\ ~dirty[cur[p]] THEN "have" ELSE "rw_asleep")
  /\ UNCHANGED <<bcache, valid, dirty, data, owner, ide, cur, want>>

(* ideintr(): the request at the head is done; a read that failed leaves   *)
(* b->data as it was.                                                      *)
Ideintr ==
  /\ xfer # Quiet
  /\ LET b == Head(idequeue)
     IN  /\ disk' = IF dirty[b] THEN [disk EXCEPT ![block[b]] = xfer] ELSE disk
         /\ \E ok \in {TRUE, ~DiskErrors} :
              data' = IF ~dirty[b] /\ ok THEN [data EXCEPT ![b] = disk[block[b]]] ELSE data
         /\ valid' = [valid EXCEPT ![b] = TRUE]
         /\ dirty' = [dirty EXCEPT ![b] = FALSE]
         /\ pc' = [q \in Procs |-> IF pc[q] = "rw_asleep" /\ cur[q] = b
                                   THEN "rw_woken" ELSE pc[q]]
  /\ idequeue' = Dequeue(idequeue)
  /\ StartNext(idequeue')
  /\ UNCHANGED <<bcache, owner, cur, want>>

(***************************************************************************)
(* The specification.  binit() puts the buffers in reverse order.          *)
(***************************************************************************)
Init ==
  /\ lru = [i \in Bufs |-> NBUF + 1 - i]
  /\ block = [b \in Bufs |-> NoBlock] /\ refcnt = [b \in Bufs |-> 0]
  /\ valid = [b \in Bufs |-> FALSE] /\ dirty = [b \in Bufs |-> FALSE]
  /\ data = [b \in Bufs |-> InitVal] /\ owner = [b \in Bufs |-> NoProc]
  /\ disk = [k \in Blocks |-> InitVal] /\ idequeue = <<>> /\ xfer = Quiet
  /\ pc = [p \in Procs |-> "idle"]
  /\ cur = [p \in Procs |-> 1] /\ want = [p \in Procs |-> NoBlock]

Step(p) ==
  \/ \E k \in Blocks : Bget(p, k)
  \/ Acquiresleep(p) \/ Releasesleep(p) \/ Brelse(p)
  \/ \E v \in Vals : Bwrite(p, v) \/ LogWrite(p, v)
  \/ Iderw(p) \/ IderwWoken(p)

Next == (\E p \in Procs : Step(p)) \/ Ideintr

Spec == Init /\ [][Next]_vars

(***************************************************************************)
(* Properties.                                                             *)
(***************************************************************************)
TypeOK ==
  /\ lru \in [Bufs -> Bufs] /\ block \in [Bufs -> Blocks \cup {NoBlock}]
  /\ valid \in [Bufs -> BOOLEAN] /\ dirty \in [Bufs -> BOOLEAN] /\ refcnt \in [Bufs -> Nat]
  /\ data \in [Bufs -> Vals] /\ owner \in [Bufs -> Procs \cup {NoProc}]
  /\ disk \in [Blocks -> Vals] /\ idequeue \in Seq(Bufs) /\ xfer \in Vals \cup {Quiet}
  /\ pc \in [Procs -> {"idle", "lock", "lock_asleep", "have", "rw", "rw_asleep", "rw_woken",
                       "unlocked", "panic"}]
  /\ cur \in [Procs -> Bufs] /\ want \in [Procs -> Blocks \cup {NoBlock}]

(* A block is in at most one buffer. *)
OneBuffer == \A b, c \in Bufs : block[b] = block[c] /\ block[b] \in Blocks => b = c

(* A buffer is not given to another block under a process that asked for   *)
(* it, from bget() to brelse(), however long it slept.                     *)
NotStolen == \A p \in Procs : pc[p] \notin {"idle", "panic"} => block[cur[p]] = want[p]

(* Nobody sleeps on a buffer's lock without a holder, nor on the disk      *)
(* without a request queued, in a queue whose head the disk is working on. *)
SleepersHaveWakers ==
  \A p \in Procs :
    /\ pc[p] = "lock_asleep" => owner[cur[p]] # NoProc
    /\ pc[p] = "rw_asleep" => xfer # Quiet /\ \E i \in DOMAIN idequeue : idequeue[i] = cur[p]

(* Every process holds one buffer at a time; with as many buffers beside   *)
(* the pinned ones bget() finds one to recycle, and iderw() is asked for a *)
(* transfer only when there is one to make.                                *)
NoPanic == \A p \in Procs : pc[p] # "panic"

(* A buffer without B_DIRTY that claims to be valid is what is on disk.    *)
CleanIsDisk == \A b \in Bufs : valid[b] /\ ~dirty[b] => data[b] = disk[block[b]]

(* What a reader would find in block k now. *)
Content(k) ==
  IF \E b \in Cached(k) : valid[b] \/ dirty[b] THEN data[CHOOSE b \in Cached(k) : TRUE]
  ELSE disk[k]

Holder(k) ==
  LET H == {p \in Procs : pc[p] \in {"have", "rw", "rw_asleep", "rw_woken"} /\ want[p] = k
                          /\ valid[cur[p]]}
  IN  IF H = {} THEN NoProc ELSE CHOOSE p \in H : TRUE

Store == INSTANCE BlockStore WITH
           content <- [k \in Blocks |-> Content(k)], holder <- [k \in Blocks |-> Holder(k)]

(* The cache is transparent: between bread() and brelse() a process has    *)
(* the block alone and finds what the last holder left in it, also after   *)
(* the buffer was recycled.                                                *)
Transparent == Store!Spec
=============================================================================
