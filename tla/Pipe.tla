------------------------------- MODULE Pipe -------------------------------
(***************************************************************************)
(* pipe.c under file.c: one pipe, the processes that share its two ends    *)
(* through fork() and close(), and kill().  A step is one critical section *)
(* of p->lock (it ends in sleep() or in release()) or of ftable.lock.      *)
(***************************************************************************)
EXTENDS Naturals, Sequences, FiniteSets

CONSTANTS
  Procs, First,  \* processes; First called pipe() and has both ends
  Bytes,
  PIPESIZE,
  W,             \* nread and nwrite are unsigned integers below W (2^32 in C)
  Buffers,       \* bound: the buffers a write is called with
  MaxN,          \* bound: the most bytes a read asks for
  Killable       \* the processes kill() is called on

ASSUME PipeAssumption ==
  /\ First \in Procs /\ Killable \subseteq Procs /\ IsFiniteSet(Procs)
  /\ PIPESIZE \in Nat \ {0} /\ MaxN \in Nat /\ Buffers \subseteq Seq(Bytes)
  /\ W \in Nat /\ W > PIPESIZE /\ W % PIPESIZE = 0

VARIABLES
  data, nread, nwrite, readopen, writeopen,  \* struct pipe
  freed,                                     \* times the pipe was kfree()d
  ref,                                       \* f->ref of the two files
  ends,                                      \* per process: the ends in its ofile[]
  pc,                                        \* per process: its place in a call,
  buf, n,                                    \* the bytes it still has to write, the
                                             \* number it wants to read (if it is in
                                             \* such a call),
  killed                                     \* and p->killed

ring == <<data, nread, nwrite>>
pipe == <<ring, readopen, writeopen, freed>>
files == <<ref, ends>>
call == <<buf, n>>
vars == <<pipe, files, pc, call, killed>>

End == {"r", "w"}
Asleep == {"r_asleep", "w_asleep"}
Goto(p, l) == pc' = [pc EXCEPT ![p] = l]

(* wakeup(chan): chan is where the sleepers are; p goes on at l. *)
WakeAnd(p, l, chan, woken) ==
  pc' = [q \in Procs |-> IF q = p THEN l ELSE IF pc[q] = chan THEN woken ELSE pc[q]]

Count == (W + nwrite - nread) % W
RoomPlusOne == PIPESIZE + 1 - Count                        \* a mutant

Room == PIPESIZE - Count
Min(a, b) == IF a <= b THEN a ELSE b

(***************************************************************************)
(* pipewrite().                                                            *)
(***************************************************************************)
WriteCall(p, b) ==
  /\ pc[p] = "idle" /\ "w" \in ends[p] /\ ~killed[p]
  /\ buf' = [buf EXCEPT ![p] = b]
  /\ Goto(p, "write")
  /\ UNCHANGED <<pipe, files, n, killed>>

(* p->nwrite++ and p->nread++ on an unsigned int. *)
Incr(i, k) == (i + k) % W

(* p->data after the bytes of s were stored from p->nwrite on. *)
Copy(s) ==
  [i \in DOMAIN data |->
     IF \E j \in DOMAIN s : i = Incr(nwrite, j - 1) % PIPESIZE
     THEN s[CHOOSE j \in DOMAIN s : i = Incr(nwrite, j - 1) % PIPESIZE]
     ELSE data[i]]

(* The for loop from acquire(), or from a wakeup, until it has written all *)
(* or meets a full pipe.  killed may be read just before kill() sets it.   *)
Pipewrite(p) ==
  /\ pc[p] = "write"
  /\ LET k == Min(Len(buf[p]), Room)
         Rest(s) == buf' = [buf EXCEPT ![p] = s]
     IN  /\ data' = Copy(SubSeq(buf[p], 1, k))
         /\ nwrite' = Incr(nwrite, k)
         /\ IF k = Len(buf[p])
            THEN WakeAnd(p, "idle", "r_asleep", "read") /\ Rest(<<>>)
            ELSE \E seen \in {FALSE, killed[p]} :
                   IF ~readopen \/ seen THEN Goto(p, "idle") /\ Rest(<<>>)
                   ELSE /\ WakeAnd(p, "w_asleep", "r_asleep", "read")
                        /\ Rest(SubSeq(buf[p], k + 1, Len(buf[p])))
  /\ UNCHANGED <<nread, readopen, writeopen, freed, files, n, killed>>

(***************************************************************************)
(* piperead().                                                             *)
(***************************************************************************)
ReadCall(p, k) ==
  /\ pc[p] = "idle" /\ "r" \in ends[p] /\ ~killed[p]
  /\ n' = [n EXCEPT ![p] = k]
  /\ Goto(p, "read")
  /\ UNCHANGED <<pipe, files, buf, killed>>

ReadWakesNobody(p) == Goto(p, "idle")                     \* a mutant

ReadDone(p) == WakeAnd(p, "idle", "w_asleep", "write")

Piperead(p) ==
  /\ pc[p] = "read"
  /\ IF nread = nwrite /\ writeopen
     THEN /\ \E seen \in {FALSE, killed[p]} :
               IF seen THEN Goto(p, "idle") /\ n' = [n EXCEPT ![p] = 0]
               ELSE Goto(p, "r_asleep") /\ UNCHANGED n
          /\ UNCHANGED nread
     ELSE /\ nread' = Incr(nread, Min(n[p], Count))
          /\ ReadDone(p) /\ n' = [n EXCEPT ![p] = 0]
  /\ UNCHANGED <<data, nwrite, readopen, writeopen, freed, files, buf, killed>>

(***************************************************************************)
(* fork(), close(), kill().                                                *)
(***************************************************************************)
(* The filedup() calls of fork(): the child is not running yet. *)
Fork(p, q) ==
  /\ pc[p] = "idle" /\ ends[p] # {} /\ ends[q] = {} /\ pc[q] = "idle" /\ p # q
  /\ ~killed[p] /\ ~killed[q]
  /\ ends' = [ends EXCEPT ![q] = ends[p]]
  /\ ref' = [e \in End |-> IF e \in ends[p] THEN ref[e] + 1 ELSE ref[e]]
  /\ UNCHANGED <<pipe, pc, call, killed>>

(* sys_close(), or exit() of a killed process: fileclose() under           *)
(* ftable.lock.                                                            *)
Fileclose(p, e) ==
  /\ pc[p] = "idle" /\ e \in ends[p]
  /\ ends' = [ends EXCEPT ![p] = @ \ {e}]
  /\ ref' = [ref EXCEPT ![e] = @ - 1]
  /\ Goto(p, IF ref[e] > 1 THEN "idle" ELSE IF e = "w" THEN "close_w" ELSE "close_r")
  /\ UNCHANGED <<pipe, call, killed>>

CloseWakesNobody(p, e) == Goto(p, "idle")                 \* a mutant

CloseWakes(p, e) ==
  IF e = "w" THEN WakeAnd(p, "idle", "r_asleep", "read")
  ELSE WakeAnd(p, "idle", "w_asleep", "write")

FreeOnWriteClose(r, w) == ~w                              \* a mutant

BothClosed(r, w) == ~r /\ ~w

Pipeclose(p, e) ==
  /\ pc[p] = IF e = "w" THEN "close_w" ELSE "close_r"
  /\ writeopen' = (writeopen /\ e # "w")
  /\ readopen' = (readopen /\ e # "r")
  /\ CloseWakes(p, e)
  /\ freed' = IF BothClosed(readopen', writeopen') THEN freed + 1 ELSE freed
  /\ UNCHANGED <<ring, files, call, killed>>

Kill(p) ==
  /\ p \in Killable /\ ~killed[p]
  /\ killed' = [killed EXCEPT ![p] = TRUE]
  /\ pc' = [pc EXCEPT ![p] = IF @ = "r_asleep" THEN "read"
                             ELSE IF @ = "w_asleep" THEN "write" ELSE @]
  /\ UNCHANGED <<pipe, files, call>>

(***************************************************************************)
(* The specification.  Init is the state pipealloc() and sys_pipe() leave. *)
(***************************************************************************)
Init ==
  /\ data \in {[i \in 0..PIPESIZE - 1 |-> v] : v \in Bytes}
  /\ nread = 0 /\ nwrite = 0 /\ readopen = TRUE /\ writeopen = TRUE /\ freed = 0
  /\ ref = [e \in End |-> 1]
  /\ ends = [p \in Procs |-> IF p = First THEN End ELSE {}]
  /\ pc = [p \in Procs |-> "idle"]
  /\ buf = [p \in Procs |-> <<>>] /\ n = [p \in Procs |-> 0]
  /\ killed = [p \in Procs |-> FALSE]

Step(p) ==
  \/ \E k \in 0..MaxN : ReadCall(p, k)
  \/ \E b \in Buffers : WriteCall(p, b)
  \/ Pipewrite(p) \/ Piperead(p)
  \/ \E q \in Procs : Fork(p, q)
  \/ \E e \in End : Fileclose(p, e) \/ Pipeclose(p, e)
  \/ Kill(p)

Next == \E p \in Procs : Step(p)

Spec == Init /\ [][Next]_vars

(***************************************************************************)
(* Properties.                                                             *)
(***************************************************************************)
TypeOK ==
  /\ data \in [0..PIPESIZE - 1 -> Bytes] /\ nread \in 0..W - 1 /\ nwrite \in 0..W - 1
  /\ readopen \in BOOLEAN /\ writeopen \in BOOLEAN /\ freed \in Nat
  /\ ref \in [End -> Nat] /\ ends \in [Procs -> SUBSET End]
  /\ pc \in [Procs -> {"idle", "read", "write", "close_r", "close_w"} \cup Asleep]
  /\ buf \in [Procs -> Seq(Bytes)] /\ n \in [Procs -> Nat] /\ killed \in [Procs -> BOOLEAN]

(* The page of the pipe is freed once, and only when no process has an end *)
(* open or is still closing one: nobody uses a freed pipe.                 *)
FreedOnce ==
  freed = IF \A p \in Procs : ends[p] = {} /\ pc[p] \notin {"close_r", "close_w"}
          THEN 1 ELSE 0

(* A writer sleeps only on a full pipe that somebody can still read. *)
WriterNotStuck ==
  \A p \in Procs : pc[p] = "w_asleep" => Count = PIPESIZE /\ readopen

(* A reader sleeps only on an empty pipe that somebody can still write. *)
ReaderNotStuck ==
  \A p \in Procs : pc[p] = "r_asleep" => nread = nwrite /\ writeopen

(* Only the kill() of a process can make a reader sleep for another reason *)
(* (a killed writer returns without waking it).                            *)
ReaderStuckByKillOnly ==
  ReaderNotStuck \/ \E p \in Procs : killed[p]

Queue == INSTANCE Fifo WITH
           Capacity <- PIPESIZE,
           q <- [i \in 1..Count |-> data[Incr(nread, i - 1) % PIPESIZE]]

(* The bytes in the ring come out in the order they were put there, none   *)
(* lost, doubled or overwritten, also when the counters wrap around.       *)
InOrder == Queue!Spec
=============================================================================
