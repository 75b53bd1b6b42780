-------------------------------- MODULE Log --------------------------------
(***************************************************************************)
(* log.c: the redo log of the file system, over the buffer cache and the   *)
(* disk.  A step is one critical section of log.lock, or one synchronous   *)
(* disk write; the machine may crash between any two of them.              *)
(***************************************************************************)
EXTENDS Naturals, Sequences, FiniteSets

CONSTANTS
  Procs,        \* processes that make file-system calls
  InitProc,     \* the first process: its forkret() calls initlog()
  Blocks,       \* home blocks of log.dev
  Vals,         \* contents of a block
  InitVal,      \* what mkfs put in every block
  NoBuf,        \* "the block is not in the buffer cache"
  MAXOPBLOCKS,  \* blocks begin_op() reserves for one call
  LOGSIZE,      \* capacity of logheader.block[]
  LogBlocks,    \* log.size: blocks of the on-disk log, header included
  OpWrites      \* the most distinct blocks one call really log_write()s

ASSUME LogAssumption ==
  /\ IsFiniteSet(Procs) /\ InitProc \in Procs
  /\ InitVal \in Vals /\ NoBuf \notin Vals
  /\ MAXOPBLOCKS \in Nat \ {0} /\ LOGSIZE \in Nat /\ LogBlocks \in Nat
  /\ OpWrites \in Nat /\ OpWrites <= MAXOPBLOCKS /\ MAXOPBLOCKS <= LOGSIZE

VARIABLES
  disk, logd, hdr,                    \* durable: home blocks, log blocks, header
  buf, dirty,                         \* buffer cache: contents, B_DIRTY blocks
  lh, outstanding, committing,        \* struct log (lh.n is Len(lh))
  pc, held, tail,                     \* per process: where it is, the buffers
                                      \* it has locked, commit's loop index
  wrote                               \* blocks the current call has written

durable == <<disk, logd, hdr>>
cache == <<buf, dirty>>
log == <<lh, outstanding, committing>>
vars == <<durable, cache, log, pc, held, tail, wrote>>

Recovering == {"read_head", "recover_install", "recover_clear"}
Committer == {"write_log", "write_head", "install", "clear", "done"}
InOp == {"op", "append"}
Labels == Recovering \cup Committer \cup InOp
            \cup {"off", "idle", "begin", "asleep", "panic"}

(***************************************************************************)
(* The buffer cache, as log.c sees it.                                     *)
(***************************************************************************)
Up == pc[InitProc] \notin Recovering

(* A buffer is locked from bread() to brelse(). *)
Locked(b) == \E p \in Procs : b \in held[p]

(* bread(): the cached contents, else those of the disk. *)
Bread(b) == IF buf[b] = NoBuf THEN disk[b] ELSE buf[b]

(* A file-system read brings b into the cache (readi() takes no log lock). *)
ReadBlock(b) ==
  /\ Up /\ buf[b] = NoBuf
  /\ buf' = [buf EXCEPT ![b] = Bread(b)]
  /\ UNCHANGED <<durable, dirty, log, pc, held, tail, wrote>>

Recyclable(b) == ~Locked(b) /\ b \notin dirty

(* bget() recycles the buffer of b for another block. *)
Recycle(b) ==
  /\ buf[b] # NoBuf
  /\ Recyclable(b)
  /\ buf' = [buf EXCEPT ![b] = NoBuf]
  /\ UNCHANGED <<durable, dirty, log, pc, held, tail, wrote>>

(***************************************************************************)
(* begin_op(), log_write(), end_op().                                      *)
(***************************************************************************)
Goto(p, l) == pc' = [pc EXCEPT ![p] = l]

WakeNobody(p, l) == Goto(p, l)                            \* a mutant

(* wakeup(&log), seen from p, which then continues at l. *)
WakeAnd(p, l) ==
  pc' = [q \in Procs |-> IF q = p THEN l
                         ELSE IF pc[q] = "asleep" THEN "begin" ELSE pc[q]]

NoRoomForLogged == (outstanding + 1) * MAXOPBLOCKS > LOGSIZE  \* a mutant

NoRoom == Len(lh) + (outstanding + 1) * MAXOPBLOCKS > LOGSIZE

BeginOpSleep(p) ==
  /\ pc[p] \in {"idle", "begin"}
  /\ committing \/ NoRoom
  /\ Goto(p, "asleep")
  /\ UNCHANGED <<durable, cache, log, held, tail, wrote>>

Admit(n) == n + 1

BeginOp(p) ==
  /\ pc[p] \in {"idle", "begin"}
  /\ ~committing /\ ~NoRoom
  /\ outstanding' = Admit(outstanding)
  /\ Goto(p, "op")
  /\ UNCHANGED <<durable, cache, lh, committing, held, tail, wrote>>

TooBig == Len(lh) >= LOGSIZE \/ Len(lh) + 1 >= LogBlocks

(* The caller has b locked and changes it to v; log_write() then tests     *)
(* log.lh.n and log.outstanding before it takes log.lock.                  *)
LogWriteCheck(p, b, v) ==
  /\ pc[p] = "op"
  /\ ~Locked(b)
  /\ Cardinality(wrote[p] \cup {b}) <= OpWrites
  /\ buf' = [buf EXCEPT ![b] = v]
  /\ held' = [held EXCEPT ![p] = {b}]
  /\ wrote' = [wrote EXCEPT ![p] = @ \cup {b}]
  /\ Goto(p, IF TooBig \/ outstanding < 1 THEN "panic" ELSE "append")
  /\ UNCHANGED <<durable, dirty, log, tail>>

Logged(b) == \E i \in 1..Len(lh) : lh[i] = b

(* Log absorption: a block already in the header keeps its slot. *)
Absorb(b) == IF Logged(b) THEN lh ELSE Append(lh, b)

PinNothing(d, h) == d                                     \* a mutant

(* b->flags |= B_DIRTY: bget() does not recycle b before it is installed. *)
Pin(d, h) == d \cup h

(* log_write() under log.lock, then the caller's brelse(). *)
LogWrite(p) ==
  /\ pc[p] = "append"
  /\ \E b \in held[p] : lh' = Absorb(b)
  /\ dirty' = Pin(dirty, held[p])
  /\ held' = [held EXCEPT ![p] = {}]
  /\ Goto(p, "op")
  /\ UNCHANGED <<durable, buf, outstanding, committing, tail, wrote>>

EndOp(p) ==
  /\ pc[p] = "op"
  /\ outstanding' = outstanding - 1
  /\ wrote' = [wrote EXCEPT ![p] = {}]
  /\ IF committing
     THEN Goto(p, "panic") /\ UNCHANGED <<committing, tail>>
     ELSE IF outstanding = 1
     THEN /\ committing' = TRUE
          /\ tail' = [tail EXCEPT ![p] = 1]
          /\ Goto(p, IF lh = <<>> THEN "done" ELSE "write_log")
     ELSE WakeAnd(p, "idle") /\ UNCHANGED <<committing, tail>>
  /\ UNCHANGED <<durable, cache, lh, held>>

(***************************************************************************)
(* commit(): every disk write is a step.                                   *)
(***************************************************************************)
NextTailStopsShort(p, l) ==                               \* a mutant
  IF tail[p] + 1 < Len(lh)
  THEN tail' = [tail EXCEPT ![p] = @ + 1] /\ UNCHANGED pc
  ELSE tail' = [tail EXCEPT ![p] = 1] /\ Goto(p, l)

(* The loop `for tail': to l when the block just handled was the last one. *)
NextTail(p, l) ==
  IF tail[p] < Len(lh)
  THEN tail' = [tail EXCEPT ![p] = @ + 1] /\ UNCHANGED pc
  ELSE tail' = [tail EXCEPT ![p] = 1] /\ Goto(p, l)

WriteLog(p) ==
  /\ pc[p] = "write_log"
  /\ LET b == lh[tail[p]]
     IN  /\ logd' = [logd EXCEPT ![tail[p]] = Bread(b)]
         /\ buf' = [buf EXCEPT ![b] = Bread(b)]
  /\ NextTail(p, "write_head")
  /\ UNCHANGED <<disk, hdr, dirty, log, held, wrote>>

(* The commit point. *)
WriteHead(p) ==
  /\ pc[p] = "write_head"
  /\ hdr' = lh
  /\ Goto(p, "install")
  /\ UNCHANGED <<disk, logd, cache, log, held, tail, wrote>>

(* install_trans(), for commit() and for recover_from_log(); bwrite()      *)
(* clears B_DIRTY.                                                         *)
InstallTrans(p) ==
  /\ pc[p] \in {"install", "recover_install"}
  /\ LET b == lh[tail[p]]
     IN  /\ disk' = [disk EXCEPT ![b] = logd[tail[p]]]
         /\ buf' = [buf EXCEPT ![b] = logd[tail[p]]]
         /\ dirty' = dirty \ {b}
  /\ NextTail(p, IF pc[p] = "install" THEN "clear" ELSE "recover_clear")
  /\ UNCHANGED <<logd, hdr, log, held, wrote>>

EraseHead(p) ==
  /\ pc[p] = "clear"
  /\ lh' = <<>> /\ hdr' = <<>>
  /\ Goto(p, "done")
  /\ UNCHANGED <<disk, logd, cache, outstanding, committing, held, tail, wrote>>

(* The end of end_op(): committing = 0 and wakeup(&log) under log.lock. *)
CommitDone(p) ==
  /\ pc[p] = "done"
  /\ committing' = FALSE
  /\ WakeAnd(p, "idle")
  /\ UNCHANGED <<durable, cache, lh, outstanding, held, tail, wrote>>

(***************************************************************************)
(* Crash, and recovery by initlog() in the first process.                  *)
(***************************************************************************)
Boot == [p \in Procs |-> IF p = InitProc THEN "read_head" ELSE "off"]

Crash ==
  /\ buf' = [b \in Blocks |-> NoBuf]
  /\ dirty' = {}
  /\ lh' = <<>> /\ outstanding' = 0 /\ committing' = FALSE
  /\ pc' = Boot
  /\ tail' = [p \in Procs |-> 1]
  /\ wrote' = [p \in Procs |-> {}]
  /\ held' = [p \in Procs |-> {}]
  /\ UNCHANGED durable

ReadHead(p) ==
  /\ pc[p] = "read_head"
  /\ lh' = hdr
  /\ Goto(p, IF hdr = <<>> THEN "recover_clear" ELSE "recover_install")
  /\ UNCHANGED <<durable, cache, outstanding, committing, held, tail, wrote>>

RecoverClear(p) ==
  /\ pc[p] = "recover_clear"
  /\ lh' = <<>> /\ hdr' = <<>>
  /\ pc' = [q \in Procs |-> "idle"]
  /\ UNCHANGED <<disk, logd, cache, outstanding, committing, held, tail, wrote>>

Init ==
  /\ disk = [b \in Blocks |-> InitVal]
  /\ logd = [i \in 1..LOGSIZE |-> InitVal]
  /\ hdr = <<>>
  /\ buf = [b \in Blocks |-> NoBuf] /\ dirty = {}
  /\ lh = <<>> /\ outstanding = 0 /\ committing = FALSE
  /\ pc = Boot
  /\ held = [p \in Procs |-> {}]
  /\ tail = [p \in Procs |-> 1]
  /\ wrote = [p \in Procs |-> {}]

Step(p) ==
  \/ BeginOpSleep(p) \/ BeginOp(p)
  \/ \E b \in Blocks, v \in Vals : LogWriteCheck(p, b, v)
  \/ LogWrite(p) \/ EndOp(p)
  \/ WriteLog(p) \/ WriteHead(p) \/ InstallTrans(p) \/ EraseHead(p)
  \/ CommitDone(p) \/ ReadHead(p) \/ RecoverClear(p)

Next ==
  \/ \E p \in Procs : Step(p)
  \/ \E b \in Blocks : ReadBlock(b) \/ Recycle(b)
  \/ Crash

Spec == Init /\ [][Next]_vars

(***************************************************************************)
(* Properties.                                                             *)
(***************************************************************************)
TypeOK ==
  /\ disk \in [Blocks -> Vals] /\ logd \in [1..LOGSIZE -> Vals]
  /\ hdr \in Seq(Blocks) /\ lh \in Seq(Blocks)
  /\ buf \in [Blocks -> Vals \cup {NoBuf}] /\ dirty \subseteq Blocks
  /\ outstanding \in Nat /\ committing \in BOOLEAN
  /\ pc \in [Procs -> Labels] /\ held \in [Procs -> SUBSET Blocks]
  /\ tail \in [Procs -> Nat] /\ wrote \in [Procs -> SUBSET Blocks]

(* The logged blocks never overrun logheader.block[] or the log on disk:   *)
(* log_write() tests the room before it takes log.lock, so two calls can   *)
(* pass the test with room for one, and only the reservation of begin_op() *)
(* (blocks logged, and calls in progress) keeps them within bounds.        *)
LogFits == Len(lh) <= LOGSIZE /\ Len(lh) < LogBlocks

(* No call that begin_op() admitted runs into a panic of log_write() or    *)
(* end_op(): the reservation of MAXOPBLOCKS blocks per call is enough.     *)
NoPanic == \A p \in Procs : pc[p] # "panic"

(* A process asleep in begin_op() has somebody left who will wake it: a    *)
(* call still to reach end_op(), or a commit under way.                    *)
NoLostWakeup ==
  (\E p \in Procs : pc[p] = "asleep")
    => \E q \in Procs : pc[q] \in InOp \cup Committer

(* Calls that log.outstanding counts. *)
Counted == {p \in Procs : pc[p] \in InOp \cup {"panic"}}

(* What recover_from_log() would make of the disk as it is now. *)
Recovered ==
  [b \in Blocks |->
     IF \E i \in 1..Len(hdr) : hdr[i] = b
     THEN logd[CHOOSE i \in 1..Len(hdr) : hdr[i] = b] ELSE disk[b]]

(* What the file system reads. *)
Contents == IF Up THEN [b \in Blocks |-> Bread(b)] ELSE Recovered

(* With no call and no commit in progress everything written is durable:   *)
(* the last end_op() does not return before its group is on disk.          *)
DurableWhenQuiet ==
  Counted = {} /\ ~committing => Recovered = Contents

Txn == INSTANCE TxnDisk WITH
         mem <- Contents, stable <- Recovered,
         active <- Counted

(* A crash at any point keeps whole groups of calls or nothing: commit(),  *)
(* recover_from_log() and the buffer cache implement TxnDisk.              *)
CrashAtomic == Txn!Spec

(***************************************************************************)
(* Liveness.  The scheduler is round robin and the disk answers, so every  *)
(* started step is finished; a system call makes finitely many writes, so  *)
(* it gets to its end_op().                                                *)
(***************************************************************************)
Continue(p) ==
  \/ pc[p] = "begin" /\ (BeginOpSleep(p) \/ BeginOp(p))
  \/ LogWrite(p) \/ WriteLog(p) \/ WriteHead(p) \/ InstallTrans(p)
  \/ EraseHead(p) \/ CommitDone(p) \/ ReadHead(p) \/ RecoverClear(p)

FairSpec == Spec /\ \A p \in Procs : WF_vars(Continue(p)) /\ SF_vars(EndOp(p))

(* Nobody sleeps in begin_op() for ever, unless the kernel panics: when a  *)
(* call uses its reservation up, log_write() takes another write of a      *)
(* block that is logged already for one that does not fit.                 *)
SleepersWake ==
  \A p \in Procs : pc[p] = "asleep" ~> pc[p] # "asleep" \/ \E q \in Procs : pc[q] = "panic"
=============================================================================
