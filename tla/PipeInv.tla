------------------------------ MODULE PipeInv ------------------------------
(***************************************************************************)
(* The inductive invariant of Pipe, and that every step keeps it.          *)
(***************************************************************************)
EXTENDS Pipe, FiniteSetTheorems, TLAPS

(***************************************************************************)
(* The inductive invariant.                                                *)
(***************************************************************************)
Pcs == {"idle", "read", "write", "close_r", "close_w"} \cup Asleep
Users(e) == {p \in Procs : e \in ends[p]}
Open(e) == IF e = "w" THEN writeopen ELSE readopen
ClosePc(e) == IF e = "w" THEN "close_w" ELSE "close_r"

(* f->ref counts the processes that have the end. *)
RefCounts == \A e \in End : ref[e] = Cardinality(Users(e))

(* An end is open as long as a process has it or is the one that closes    *)
(* it, which happens once nobody has it any more.                          *)
OpenWhileUsed(e) ==
  /\ Open(e) <=> \E p \in Procs : e \in ends[p] \/ pc[p] = ClosePc(e)
  /\ \A p, q \in Procs : pc[p] = ClosePc(e) => e \notin ends[q] /\ (pc[q] = ClosePc(e) => q = p)
EndsOpen == \A e \in End : OpenWhileUsed(e)

Freed == freed = IF readopen \/ writeopen THEN 0 ELSE 1

(* Who is in a call has the end it uses. *)
InCall ==
  \A p \in Procs : /\ pc[p] \in {"read", "r_asleep"} => "r" \in ends[p]
                   /\ pc[p] \in {"write", "w_asleep"} => "w" \in ends[p]

Bounded == Count <= PIPESIZE

IInv ==
  /\ TypeOK /\ RefCounts /\ EndsOpen /\ Freed /\ InCall /\ Bounded
  /\ WriterNotStuck /\ ReaderStuckByKillOnly

LEMMA Sizes ==
  /\ First \in Procs /\ IsFiniteSet(Procs) /\ Buffers \subseteq Seq(Bytes)
  /\ PIPESIZE \in Nat \ {0} /\ MaxN \in Nat /\ W \in Nat \ {0} /\ W > PIPESIZE
BY PipeAssumption

USE Sizes DEF End, Asleep

(***************************************************************************)
(* Counters that wrap around at M: from a to b there are Dist(M, a, b)     *)
(* steps.                                                                  *)
(***************************************************************************)
Dist(M, a, b) == (M + b - a) % M

LEMMA ModSmall ==
  ASSUME NEW M \in Nat \ {0}, NEW a \in 0..M - 1
  PROVE  a % M = a
OBVIOUS

LEMMA ModWrap ==
  ASSUME NEW M \in Nat \ {0}, NEW a \in M..2 * M - 1
  PROVE  a % M = a - M
OBVIOUS

(* What the unsigned subtraction computes. *)
LEMMA DistIs ==
  ASSUME NEW M \in Nat \ {0}, NEW a \in 0..M - 1, NEW b \in 0..M - 1
  PROVE  Dist(M, a, b) = (IF a <= b THEN b - a ELSE M + b - a) /\ Dist(M, a, b) \in 0..M - 1
<1>1. CASE a <= b
  <2>1. PICK x \in M..2 * M - 1 : x = M + b - a
    BY <1>1
  <2>2. x % M = x - M
    BY ModWrap
  <2> QED BY <1>1, <2>1, <2>2 DEF Dist
<1>2. CASE b < a
  <2>1. PICK x \in 0..M - 1 : x = M + b - a
    BY <1>2
  <2>2. x % M = x
    BY ModSmall
  <2> QED BY <1>2, <2>1, <2>2 DEF Dist
<1> QED BY <1>1, <1>2

(* k steps on from b. *)
LEMMA StepIs ==
  ASSUME NEW M \in Nat \ {0}, NEW b \in 0..M - 1, NEW k \in 0..M - 1
  PROVE  (b + k) % M = (IF b + k < M THEN b + k ELSE b + k - M) /\ (b + k) % M \in 0..M - 1
<1>1. CASE b + k < M
  BY <1>1, ModSmall
<1>2. CASE b + k >= M
  <2>1. PICK x \in M..2 * M - 1 : x = b + k
    BY <1>2
  <2>2. x % M = x - M
    BY ModWrap
  <2> QED BY <1>2, <2>1, <2>2
<1> QED BY <1>1, <1>2

LEMMA DistZero ==
  ASSUME NEW M \in Nat \ {0}, NEW a \in 0..M - 1, NEW b \in 0..M - 1
  PROVE  Dist(M, a, b) = 0 <=> a = b
<1>1. Dist(M, a, b) = IF a <= b THEN b - a ELSE M + b - a
  BY DistIs
<1> QED BY <1>1

(* The end goes on k steps. *)
LEMMA DistGrow ==
  ASSUME NEW M \in Nat \ {0}, NEW a \in 0..M - 1, NEW b \in 0..M - 1,
         NEW k \in Nat, Dist(M, a, b) + k < M
  PROVE  Dist(M, a, (b + k) % M) = Dist(M, a, b) + k /\ (b + k) % M \in 0..M - 1
<1>1. k \in 0..M - 1
  BY DistIs
<1>2. PICK c \in 0..M - 1 : c = (b + k) % M /\ c = IF b + k < M THEN b + k ELSE b + k - M
  BY <1>1, StepIs
<1>3. Dist(M, a, c) = IF a <= c THEN c - a ELSE M + c - a
  BY DistIs
<1>4. Dist(M, a, b) = IF a <= b THEN b - a ELSE M + b - a
  BY DistIs
<1> QED BY <1>1, <1>2, <1>3, <1>4

(* The start goes on k steps. *)
LEMMA DistShrink ==
  ASSUME NEW M \in Nat \ {0}, NEW a \in 0..M - 1, NEW b \in 0..M - 1,
         NEW k \in Nat, k <= Dist(M, a, b)
  PROVE  Dist(M, (a + k) % M, b) = Dist(M, a, b) - k /\ (a + k) % M \in 0..M - 1
<1>1. k \in 0..M - 1
  BY DistIs
<1>2. PICK c \in 0..M - 1 : c = (a + k) % M /\ c = IF a + k < M THEN a + k ELSE a + k - M
  BY <1>1, StepIs
<1>3. Dist(M, c, b) = IF c <= b THEN b - c ELSE M + b - c
  BY DistIs
<1>4. Dist(M, a, b) = IF a <= b THEN b - a ELSE M + b - a
  BY DistIs
<1> QED BY <1>1, <1>2, <1>3, <1>4

(***************************************************************************)
(* The counters.                                                           *)
(***************************************************************************)
LEMMA CountIs ==
  ASSUME TypeOK
  PROVE  /\ Count = Dist(W, nread, nwrite) /\ Count \in 0..W - 1
         /\ Count = 0 <=> nread = nwrite
<1>1. W \in Nat \ {0} /\ nread \in 0..W - 1 /\ nwrite \in 0..W - 1
  BY DEF TypeOK
<1>2. Count = Dist(W, nread, nwrite)
  BY DEF Count, Dist
<1>3. Dist(W, nread, nwrite) \in 0..W - 1
  BY <1>1, DistIs
<1>4. Dist(W, nread, nwrite) = 0 <=> nread = nwrite
  BY <1>1, DistZero
<1> QED BY <1>2, <1>3, <1>4

(* What pipewrite() stores before it returns or sleeps. *)
Stored(p) == Min(Len(buf[p]), Room)

LEMMA StoredIs ==
  ASSUME TypeOK, Bounded, NEW p \in Procs
  PROVE  /\ Stored(p) \in Nat /\ Stored(p) <= Len(buf[p]) /\ Count + Stored(p) <= PIPESIZE
         /\ Stored(p) # Len(buf[p]) => Count + Stored(p) = PIPESIZE
         /\ Len(buf[p]) \in Nat /\ Count \in Nat
<1>1. Count \in Nat
  BY CountIs
<1>2. Len(buf[p]) \in Nat
  BY DEF TypeOK
<1> QED BY <1>1, <1>2 DEF Stored, Min, Room, Bounded

LEMMA CountGrows ==
  ASSUME TypeOK, NEW k \in Nat, Count + k <= PIPESIZE, nwrite' = Incr(nwrite, k), nread' = nread
  PROVE  Count' = Count + k /\ nwrite' \in 0..W - 1
<1>1. W \in Nat \ {0} /\ nread \in 0..W - 1 /\ nwrite \in 0..W - 1
  BY DEF TypeOK
<1>2. Count = Dist(W, nread, nwrite) /\ Dist(W, nread, nwrite) + k < W
  BY CountIs
<1>3. /\ Dist(W, nread, (nwrite + k) % W) = Dist(W, nread, nwrite) + k
      /\ (nwrite + k) % W \in 0..W - 1
  BY <1>1, <1>2, DistGrow
<1> QED BY <1>2, <1>3 DEF Count, Incr, Dist

LEMMA CountShrinks ==
  ASSUME TypeOK, NEW k \in Nat, k <= Count, nread' = Incr(nread, k), nwrite' = nwrite
  PROVE  Count' = Count - k /\ nread' \in 0..W - 1
<1>1. W \in Nat \ {0} /\ nread \in 0..W - 1 /\ nwrite \in 0..W - 1
  BY DEF TypeOK
<1>2. Count = Dist(W, nread, nwrite)
  BY CountIs
<1>3. /\ Dist(W, (nread + k) % W, nwrite) = Dist(W, nread, nwrite) - k
      /\ (nread + k) % W \in 0..W - 1
  BY <1>1, <1>2, DistShrink
<1> QED BY <1>2, <1>3 DEF Count, Incr, Dist

LEMMA CountKept ==
  ASSUME nread' = nread, nwrite' = nwrite
  PROVE  Count' = Count
BY DEF Count

LEMMA IInvInit == Init => IInv
<1> SUFFICES ASSUME Init PROVE IInv
  OBVIOUS
<1> USE DEF Init
<1>1. TypeOK
  BY DEF TypeOK
<1>2. RefCounts
  <2>1. ASSUME NEW e \in End PROVE Users(e) = {First}
    BY <2>1 DEF Users
  <2>2. Cardinality({First}) = 1
    BY FS_Singleton
  <2> QED BY <2>1, <2>2 DEF RefCounts
<1>3. EndsOpen /\ Freed /\ InCall
  BY DEF EndsOpen, OpenWhileUsed, Open, ClosePc, Freed, InCall
<1>4. Bounded
  BY <1>1, CountIs DEF Bounded
<1>5. WriterNotStuck /\ ReaderStuckByKillOnly
  BY DEF WriterNotStuck, ReaderStuckByKillOnly, ReaderNotStuck
<1> QED BY <1>1, <1>2, <1>3, <1>4, <1>5 DEF IInv

(***************************************************************************)
(* Entering a call.                                                        *)
(***************************************************************************)
LEMMA PcType ==
  ASSUME TypeOK, NEW p \in Procs,
         NEW l \in Pcs, NEW w \in Pcs, NEW chan
  PROVE  WakeAnd(p, l, chan, w) \/ Goto(p, l) => pc' \in [Procs -> Pcs]
BY DEF WakeAnd, Goto, TypeOK, Pcs

LEMMA EndKept ==
  ASSUME NEW e \in End, OpenWhileUsed(e), Open(e)' = Open(e),
         \A q \in Procs : /\ e \in ends'[q] <=> e \in ends[q]
                          /\ pc'[q] = ClosePc(e) <=> pc[q] = ClosePc(e)
  PROVE  OpenWhileUsed(e)'
<1>1. ClosePc(e)' = ClosePc(e)
  BY DEF ClosePc
<1> QED BY <1>1 DEF OpenWhileUsed

LEMMA CallKeeps ==
  ASSUME IInv, NEW p \in Procs, pc[p] = "idle",
         NEW l \in {"read", "write"}, (IF l = "read" THEN "r" ELSE "w") \in ends[p], Goto(p, l),
         buf' \in [Procs -> Seq(Bytes)], n' \in [Procs -> Nat],
         UNCHANGED <<pipe, files, killed>>
  PROVE  IInv'
<1> USE DEF IInv, Goto, pipe, ring, files
<1>1. TypeOK' /\ Count' = Count
  BY CountKept DEF TypeOK
<1>2. RefCounts' /\ Freed' /\ Bounded'
  BY <1>1 DEF RefCounts, Users, Freed, Bounded
<1>3. EndsOpen'
  <2>1. \A q \in Procs, e \in End : pc'[q] = ClosePc(e) <=> pc[q] = ClosePc(e)
    BY DEF TypeOK, ClosePc
  <2>2. UNCHANGED <<readopen, writeopen, ends>>
    OBVIOUS
  <2> HIDE DEF IInv, Goto, pipe, ring, files
  <2>3. ASSUME NEW e \in End PROVE OpenWhileUsed(e)'
    <3>1. OpenWhileUsed(e) /\ Open(e)' = Open(e)
      BY <2>2 DEF IInv, EndsOpen, Open
    <3> QED BY <2>1, <2>2, <3>1, EndKept
  <2> QED BY <2>3 DEF EndsOpen
<1>5. InCall'
  BY DEF TypeOK, InCall
<1>4. WriterNotStuck' /\ ReaderStuckByKillOnly'
  BY <1>1 DEF TypeOK, WriterNotStuck, ReaderStuckByKillOnly, ReaderNotStuck
<1> QED BY <1>1, <1>2, <1>3, <1>4, <1>5

LEMMA WriteCallKeeps ==
  ASSUME IInv, NEW p \in Procs, NEW b \in Buffers, WriteCall(p, b)
  PROVE  IInv'
<1>1. buf' \in [Procs -> Seq(Bytes)] /\ n' \in [Procs -> Nat]
  BY DEF WriteCall, IInv, TypeOK
<1> QED BY <1>1, CallKeeps DEF WriteCall

LEMMA ReadCallKeeps ==
  ASSUME IInv, NEW p \in Procs, NEW k \in 0..MaxN, ReadCall(p, k)
  PROVE  IInv'
<1>1. buf' \in [Procs -> Seq(Bytes)] /\ n' \in [Procs -> Nat]
  BY DEF ReadCall, IInv, TypeOK
<1> QED BY <1>1, CallKeeps DEF ReadCall

(***************************************************************************)
(* Bytes stored and taken: what the critical sections of pipewrite() and   *)
(* piperead() leave of the invariant when they only move processes between *)
(* the places of a call.                                                   *)
(***************************************************************************)
Moves(p) ==
  \A q \in Procs :
    \/ pc'[q] = pc[q]
    \/ pc[q] \in {"read", "r_asleep"} /\ pc'[q] \in {"read", "r_asleep"}
    \/ pc[q] \in {"write", "w_asleep"} /\ pc'[q] \in {"write", "w_asleep"}
    \/ q = p /\ pc[q] \in {"read", "write"} /\ pc'[q] = "idle"

LEMMA MovesKeep ==
  ASSUME IInv, NEW p \in Procs, Moves(p), UNCHANGED <<readopen, writeopen, freed, files>>
  PROVE  RefCounts' /\ EndsOpen' /\ Freed' /\ InCall'
<1> USE DEF IInv, files
<1>1. RefCounts' /\ Freed'
  BY DEF RefCounts, Users, Freed
<1>2. \A q \in Procs, e \in End : pc'[q] = ClosePc(e) <=> pc[q] = ClosePc(e)
  BY DEF Moves, ClosePc
<1>3. EndsOpen'
  <2> SUFFICES ASSUME NEW e \in End PROVE OpenWhileUsed(e)'
    BY DEF EndsOpen
  <2>1. OpenWhileUsed(e)
    BY DEF EndsOpen
  <2>2. Open(e)' = Open(e) /\ \A q \in Procs : pc'[q] = ClosePc(e) <=> pc[q] = ClosePc(e)
    BY <1>2 DEF Open, ClosePc
  <2> QED BY <1>2, <2>1, <2>2, EndKept
<1>4. InCall'
  BY DEF InCall, Moves
<1> QED BY <1>1, <1>3, <1>4

LEMMA CopyType ==
  ASSUME TypeOK, NEW s \in Seq(Bytes)
  PROVE  Copy(s) \in [0..PIPESIZE - 1 -> Bytes]
<1>1. \A j \in DOMAIN s : s[j] \in Bytes
  OBVIOUS
<1>2. DOMAIN data = 0..PIPESIZE - 1 /\ \A i \in 0..PIPESIZE - 1 : data[i] \in Bytes
  BY DEF TypeOK
<1>3. ASSUME NEW i \in 0..PIPESIZE - 1, \E j \in DOMAIN s : i = Incr(nwrite, j - 1) % PIPESIZE
      PROVE  s[CHOOSE j \in DOMAIN s : i = Incr(nwrite, j - 1) % PIPESIZE] \in Bytes
  BY <1>1, <1>3
<1> QED BY <1>2, <1>3 DEF Copy

LEMMA PipewriteKeeps ==
  ASSUME IInv, NEW p \in Procs, Pipewrite(p)
  PROVE  IInv'
<1> DEFINE k == Stored(p)
<1> USE DEF IInv
<1>1. /\ pc[p] = "write" /\ data' = Copy(SubSeq(buf[p], 1, k)) /\ nwrite' = Incr(nwrite, k)
      /\ UNCHANGED <<nread, readopen, writeopen, freed, files, n, killed>>
  BY DEF Pipewrite, Stored
<1>2. \/ /\ k = Len(buf[p]) /\ WakeAnd(p, "idle", "r_asleep", "read")
         /\ buf' = [buf EXCEPT ![p] = <<>>]
      \/ /\ k # Len(buf[p]) /\ (~readopen \/ killed[p]) /\ Goto(p, "idle")
         /\ buf' = [buf EXCEPT ![p] = <<>>]
      \/ /\ k # Len(buf[p]) /\ readopen /\ WakeAnd(p, "w_asleep", "r_asleep", "read")
         /\ buf' = [buf EXCEPT ![p] = SubSeq(buf[p], k + 1, Len(buf[p]))]
  BY DEF Pipewrite, Stored
<1>3. /\ k \in Nat /\ k <= Len(buf[p]) /\ Count + k <= PIPESIZE
      /\ k # Len(buf[p]) => Count + k = PIPESIZE
      /\ Len(buf[p]) \in Nat /\ Count \in Nat
  BY StoredIs
<1> HIDE DEF k
<1>4. Count' = Count + k /\ nwrite' \in 0..W - 1
  BY <1>1, <1>3, CountGrows
<1>5. TypeOK'
  <2>1. buf[p] \in Seq(Bytes) /\ SubSeq(buf[p], 1, k) \in Seq(Bytes)
    BY <1>3 DEF TypeOK
  <2>2. data' \in [0..PIPESIZE - 1 -> Bytes]
    BY <1>1, <2>1, CopyType
  <2>3. buf' \in [Procs -> Seq(Bytes)]
    <3>1. SubSeq(buf[p], k + 1, Len(buf[p])) \in Seq(Bytes) /\ <<>> \in Seq(Bytes)
      BY <1>3, <2>1
    <3> QED BY <1>2, <3>1 DEF TypeOK
  <2>4. pc' \in [Procs -> Pcs]
    <3>1. /\ {"idle", "read", "w_asleep"} \subseteq Pcs
          /\ \/ \E l \in {"idle", "w_asleep"} : WakeAnd(p, l, "r_asleep", "read")
             \/ Goto(p, "idle")
      BY <1>2 DEF Pcs
    <3>2. TypeOK
      OBVIOUS
    <3> HIDE DEF IInv, k
    <3> QED BY <3>1, <3>2, PcType
  <2> QED BY <1>1, <1>4, <2>2, <2>3, <2>4 DEF TypeOK, files, Pcs
<1>6. Moves(p)
  BY <1>1, <1>2 DEF TypeOK, Moves, WakeAnd, Goto
<1>7. RefCounts' /\ EndsOpen' /\ Freed' /\ InCall'
  BY <1>1, <1>6, MovesKeep
<1>8. Bounded'
  BY <1>3, <1>4 DEF Bounded
<1>9. WriterNotStuck'
  <2> SUFFICES ASSUME NEW q \in Procs, pc'[q] = "w_asleep" PROVE Count' = PIPESIZE /\ readopen'
    BY DEF WriterNotStuck
  <2>1. CASE q = p
    BY <1>1, <1>2, <1>3, <1>4, <2>1 DEF TypeOK, WakeAnd, Goto
  <2>2. CASE q # p
    <3>1. pc[q] = "w_asleep"
      BY <1>2, <2>2 DEF TypeOK, WakeAnd, Goto
    <3> QED BY <1>1, <1>3, <1>4, <3>1 DEF WriterNotStuck
  <2> QED BY <2>1, <2>2
(* A writer leaves without waking the readers only if it was killed, or if *)
(* there are none.                                                         *)
<1>10. ReaderStuckByKillOnly'
  <2> SUFFICES ASSUME \A q \in Procs : ~killed[q], NEW q \in Procs, pc'[q] = "r_asleep"
               PROVE  FALSE
    BY <1>1 DEF ReaderStuckByKillOnly, ReaderNotStuck
  <2>1. pc[q] = "r_asleep" /\ q # p
    BY <1>1, <1>2 DEF TypeOK, WakeAnd, Goto
  <2>2. readopen
    BY <2>1 DEF InCall, EndsOpen, OpenWhileUsed, Open
  <2>3. WakeAnd(p, "idle", "r_asleep", "read") \/ WakeAnd(p, "w_asleep", "r_asleep", "read")
    BY <1>2, <2>2
  <2> QED BY <2>1, <2>3 DEF WakeAnd
<1> QED BY <1>5, <1>7, <1>8, <1>9, <1>10

LEMMA PipereadKeeps ==
  ASSUME IInv, NEW p \in Procs, Piperead(p)
  PROVE  IInv'
<1> USE DEF IInv
<1>1. /\ pc[p] = "read"
      /\ UNCHANGED <<data, nwrite, readopen, writeopen, freed, files, buf, killed>>
  BY DEF Piperead
<1>2. \/ /\ nread = nwrite /\ writeopen /\ nread' = nread /\ killed[p] /\ Goto(p, "idle")
         /\ n' = [n EXCEPT ![p] = 0]
      \/ /\ nread = nwrite /\ writeopen /\ nread' = nread /\ Goto(p, "r_asleep") /\ n' = n
      \/ /\ nread' = Incr(nread, Min(n[p], Count)) /\ n' = [n EXCEPT ![p] = 0]
         /\ WakeAnd(p, "idle", "w_asleep", "write")
         /\ ~(nread = nwrite /\ writeopen)
  BY DEF Piperead, ReadDone
<1>3. Count \in Nat /\ n[p] \in Nat
  BY CountIs DEF TypeOK
<1>4. Moves(p)
  BY <1>1, <1>2 DEF TypeOK, Moves, WakeAnd, Goto
<1>5. RefCounts' /\ EndsOpen' /\ Freed' /\ InCall'
  BY <1>1, <1>4, MovesKeep
<1>6. pc' \in [Procs -> Pcs]
  <2>1. /\ {"idle", "r_asleep", "write"} \subseteq Pcs
        /\ \/ \E l \in {"idle", "r_asleep"} : Goto(p, l)
           \/ WakeAnd(p, "idle", "w_asleep", "write")
    BY <1>2 DEF Pcs
  <2>2. TypeOK
    OBVIOUS
  <2> HIDE DEF IInv
  <2> QED BY <2>1, <2>2, PcType
<1>7. n' \in [Procs -> Nat]
  BY <1>2, SMTT(20) DEF TypeOK
<1>8. CASE nread' = nread
  <2>1. Count' = Count
    BY <1>1, <1>8, CountKept
  <2>2. TypeOK' /\ Bounded'
    BY <1>1, <1>6, <1>7, <1>8, <2>1 DEF TypeOK, Pcs, Bounded, files
  <2>3. WriterNotStuck'
    BY <1>1, <1>2, <2>1 DEF TypeOK, WriterNotStuck, WakeAnd, Goto
  <2>4. ReaderStuckByKillOnly'
    BY <1>1, <1>2, <1>8 DEF TypeOK, ReaderStuckByKillOnly, ReaderNotStuck, WakeAnd, Goto
  <2> QED BY <1>5, <2>2, <2>3, <2>4
<1>9. CASE nread' # nread
  <2>1. PICK k \in Nat : k <= Count /\ nread' = Incr(nread, k)
    BY <1>2, <1>3, <1>9 DEF Min
  <2>2. Count' = Count - k /\ nread' \in 0..W - 1
    BY <1>1, <2>1, CountShrinks
  <2>3. TypeOK' /\ Bounded'
    BY <1>1, <1>3, <1>6, <1>7, <2>1, <2>2 DEF TypeOK, Pcs, Bounded, files
  <2>4. WriterNotStuck'
    BY <1>2, <1>9 DEF WriterNotStuck, WakeAnd
  <2>5. ReaderStuckByKillOnly'
    <3>1. \A q \in Procs : pc'[q] = "r_asleep" => pc[q] = "r_asleep"
      BY <1>2, <1>9 DEF WakeAnd
    <3>2. Count # 0
      <4>1. Incr(nread, 0) = nread
        <5>1. nread \in 0..W - 1 /\ nread + 0 = nread
          BY DEF TypeOK
        <5>2. nread % W = nread
          BY <5>1, ModSmall
        <5> QED BY <5>1, <5>2 DEF Incr
      <4> QED BY <1>3, <1>9, <2>1, <4>1
    <3>3. ReaderNotStuck => \A q \in Procs : pc[q] # "r_asleep"
      BY <3>2, CountIs DEF ReaderNotStuck
    <3> QED BY <1>1, <3>1, <3>3 DEF ReaderStuckByKillOnly, ReaderNotStuck
  <2> QED BY <1>5, <2>3, <2>4, <2>5
<1> QED BY <1>8, <1>9

(***************************************************************************)
(* fork(), close(), kill().                                                *)
(***************************************************************************)
LEMMA UsersFinite ==
  ASSUME NEW e
  PROVE  IsFiniteSet(Users(e)) /\ Cardinality(Users(e)) \in Nat
BY FS_Subset, FS_CardinalityType DEF Users

LEMMA ForkKeeps ==
  ASSUME IInv, NEW p \in Procs, NEW q \in Procs, Fork(p, q)
  PROVE  IInv'
<1> USE DEF IInv
<1>1. /\ pc[q] = "idle" /\ ends[q] = {} /\ p # q
      /\ ends' = [ends EXCEPT ![q] = ends[p]]
      /\ ref' = [e \in End |-> IF e \in ends[p] THEN ref[e] + 1 ELSE ref[e]]
      /\ UNCHANGED <<data, nread, nwrite, readopen, writeopen, freed, pc, buf, n, killed>>
  BY DEF Fork, pipe, ring, call
<1>2. ends'[q] = ends[p] /\ \A o \in Procs \ {q} : ends'[o] = ends[o]
  BY <1>1 DEF TypeOK
<1>3. TypeOK' /\ Count' = Count
  BY <1>1, CountKept DEF TypeOK
<1>4. RefCounts'
  <2>1. ASSUME NEW e \in End, e \in ends[p] PROVE ref'[e] = Cardinality(Users(e)')
    <3>1. Users(e)' = Users(e) \cup {q} /\ q \notin Users(e)
      BY <1>1, <1>2, <2>1 DEF Users
    <3>2. Cardinality(Users(e) \cup {q}) = Cardinality(Users(e)) + 1
      BY <3>1, UsersFinite, FS_AddElement
    <3> QED BY <1>1, <2>1, <3>1, <3>2 DEF RefCounts
  <2>2. ASSUME NEW e \in End, e \notin ends[p] PROVE ref'[e] = Cardinality(Users(e)')
    <3>1. Users(e)' = Users(e)
      BY <1>1, <1>2, <2>2 DEF Users
    <3> QED BY <1>1, <2>2, <3>1 DEF RefCounts
  <2> QED BY <2>1, <2>2 DEF RefCounts
<1>5. EndsOpen'
  BY <1>1, <1>2 DEF EndsOpen, OpenWhileUsed, Open, ClosePc
<1>6. Freed' /\ InCall' /\ Bounded'
  BY <1>1, <1>2, <1>3 DEF Freed, InCall, Bounded
<1>7. WriterNotStuck' /\ ReaderStuckByKillOnly'
  BY <1>1, <1>3 DEF WriterNotStuck, ReaderStuckByKillOnly, ReaderNotStuck
<1> QED BY <1>3, <1>4, <1>5, <1>6, <1>7

(* The last user of an end goes on to pipeclose(). *)
LEMMA FilecloseKeeps ==
  ASSUME IInv, NEW p \in Procs, NEW e \in End, Fileclose(p, e)
  PROVE  IInv'
<1> USE DEF IInv
<1>1. /\ pc[p] = "idle" /\ e \in ends[p]
      /\ ends' = [ends EXCEPT ![p] = @ \ {e}]
      /\ ref' = [ref EXCEPT ![e] = @ - 1]
      /\ pc' = [pc EXCEPT ![p] = IF ref[e] > 1 THEN "idle" ELSE ClosePc(e)]
      /\ UNCHANGED <<data, nread, nwrite, readopen, writeopen, freed, buf, n, killed>>
  BY DEF Fileclose, Goto, ClosePc, pipe, ring, call
<1>2. /\ ends'[p] = ends[p] \ {e} /\ \A q \in Procs \ {p} : ends'[q] = ends[q] /\ pc'[q] = pc[q]
      /\ pc'[p] = IF ref[e] > 1 THEN "idle" ELSE ClosePc(e)
  BY <1>1 DEF TypeOK
<1>3. Users(e)' = Users(e) \ {p} /\ p \in Users(e)
  BY <1>1, <1>2 DEF Users
<1>4. /\ Cardinality(Users(e)') = Cardinality(Users(e)) - 1 /\ ref[e] = Cardinality(Users(e))
      /\ IsFiniteSet(Users(e)') /\ Cardinality(Users(e)') \in Nat /\ ref[e] \in Nat
  <2>1. IsFiniteSet(Users(e)) /\ Cardinality(Users(e)) \in Nat
    BY UsersFinite
  <2>2. /\ IsFiniteSet(Users(e) \ {p})
        /\ Cardinality(Users(e) \ {p}) = Cardinality(Users(e)) - 1
    BY <1>3, <2>1, FS_RemoveElement
  <2>3. Cardinality(Users(e) \ {p}) \in Nat
    BY <2>2, FS_CardinalityType
  <2> QED BY <1>3, <2>1, <2>2, <2>3 DEF RefCounts
<1>5. ref[e] > 1 <=> Users(e)' # {}
  BY <1>4, FS_EmptySet
<1>6. TypeOK' /\ Count' = Count
  <2>1. ref' \in [End -> Nat]
    BY <1>1, <1>4 DEF TypeOK
  <2> QED BY <1>1, <2>1, CountKept DEF TypeOK, ClosePc
<1>7. RefCounts'
  <2>1. ASSUME NEW f \in End \ {e} PROVE Users(f)' = Users(f)
    BY <1>1, <1>2 DEF Users
  <2> QED BY <1>1, <1>4, <2>1 DEF TypeOK, RefCounts
<1>8. EndsOpen'
  <2> SUFFICES ASSUME NEW f \in End PROVE OpenWhileUsed(f)'
    BY DEF EndsOpen
  <2>0. Open(f)' = Open(f) /\ ClosePc(f)' = ClosePc(f)
    BY <1>1 DEF Open, ClosePc
  <2>1. CASE f # e
    <3>1. \A q \in Procs : /\ f \in ends'[q] <=> f \in ends[q]
                           /\ pc'[q] = ClosePc(f) <=> pc[q] = ClosePc(f)
      BY <1>1, <1>2, <2>1 DEF ClosePc
    <3>2. OpenWhileUsed(f)
      BY DEF EndsOpen
    <3> HIDE DEF IInv
    <3> QED BY <2>0, <3>1, <3>2, EndKept
  <2>2. CASE f = e
    <3>1. Open(e) /\ \A q \in Procs : pc[q] # ClosePc(e)
      BY <1>1 DEF EndsOpen, OpenWhileUsed
    <3>2. CASE Users(e)' # {}
      <4>1. \A q \in Procs : pc'[q] # ClosePc(e)
        BY <1>2, <1>5, <3>1, <3>2 DEF ClosePc
      <4>2. \E q \in Procs : e \in ends'[q]
        BY <3>2 DEF Users
      <4> QED BY <2>0, <2>2, <3>1, <4>1, <4>2 DEF OpenWhileUsed
    <3>3. CASE Users(e)' = {}
      <4>1. pc'[p] = ClosePc(e) /\ \A q \in Procs : e \notin ends'[q]
        BY <1>2, <1>5, <3>3 DEF Users
      <4> QED BY <1>2, <2>0, <2>2, <3>1, <4>1 DEF OpenWhileUsed
    <3> QED BY <3>2, <3>3
  <2> QED BY <2>1, <2>2
<1>9. Freed' /\ Bounded'
  BY <1>1, <1>6 DEF Freed, Bounded
<1>10. InCall'
  BY <1>1, <1>2 DEF InCall, ClosePc
<1>11. WriterNotStuck' /\ ReaderStuckByKillOnly'
  BY <1>1, <1>2, <1>6 DEF WriterNotStuck, ReaderStuckByKillOnly, ReaderNotStuck, ClosePc
<1> QED BY <1>6, <1>7, <1>8, <1>9, <1>10, <1>11

LEMMA PipecloseKeeps ==
  ASSUME IInv, NEW p \in Procs, NEW e \in End, Pipeclose(p, e)
  PROVE  IInv'
<1> USE DEF IInv
<1>1. /\ pc[p] = ClosePc(e)
      /\ writeopen' = (writeopen /\ e # "w") /\ readopen' = (readopen /\ e # "r")
      /\ freed' = IF ~readopen' /\ ~writeopen' THEN freed + 1 ELSE freed
      /\ UNCHANGED <<data, nread, nwrite, ref, ends, buf, n, killed>>
  BY DEF Pipeclose, ClosePc, BothClosed, ring, files, call
<1>2. \A q \in Procs :
        pc'[q] = IF q = p THEN "idle"
                 ELSE IF e = "w" /\ pc[q] = "r_asleep" THEN "read"
                 ELSE IF e = "r" /\ pc[q] = "w_asleep" THEN "write" ELSE pc[q]
  BY DEF Pipeclose, CloseWakes, WakeAnd
<1>3. TypeOK' /\ Count' = Count
  <2>1. pc' \in [Procs -> Pcs]
    BY DEF Pipeclose, CloseWakes, WakeAnd, TypeOK, Pcs
  <2>2. freed' \in Nat
    BY <1>1 DEF TypeOK
  <2> QED BY <1>1, <2>1, <2>2, CountKept DEF TypeOK, Pcs
<1>4. RefCounts' /\ Bounded'
  BY <1>1, <1>3 DEF RefCounts, Users, Bounded
<1>5. /\ Open(e) /\ ~Open(e)' /\ \A f \in End \ {e} : Open(f)' = Open(f)
      /\ \A q \in Procs : pc'[q] # ClosePc(e) /\ e \notin ends[q]
  <2>1. Open(e) /\ \A q \in Procs : e \notin ends[q] /\ (pc[q] = ClosePc(e) => q = p)
    BY <1>1 DEF EndsOpen, OpenWhileUsed
  <2>2. ~Open(e)' /\ \A f \in End \ {e} : Open(f)' = Open(f)
    BY <1>1 DEF Open, TypeOK
  <2>3. \A q \in Procs : pc'[q] # ClosePc(e)
    BY <1>2, <2>1 DEF ClosePc
  <2> QED BY <2>1, <2>2, <2>3
<1>6. EndsOpen'
  <2>1. \A f \in End \ {e}, q \in Procs : pc'[q] = ClosePc(f) <=> pc[q] = ClosePc(f)
    BY <1>1, <1>2 DEF ClosePc
  <2>2. ASSUME NEW f \in End PROVE OpenWhileUsed(f)'
    <3>1. CASE f = e
      <4>1. ClosePc(e)' = ClosePc(e) /\ ends' = ends
        BY <1>1 DEF ClosePc
      <4> QED BY <1>5, <3>1, <4>1 DEF OpenWhileUsed
    <3>2. CASE f # e
      <4>1. OpenWhileUsed(f) /\ ends' = ends /\ Open(f)' = Open(f)
        BY <1>1, <1>5, <3>2 DEF EndsOpen
      <4>2. \A q \in Procs : pc'[q] = ClosePc(f) <=> pc[q] = ClosePc(f)
        BY <2>1, <3>2
      <4> HIDE DEF IInv
      <4> QED BY <4>1, <4>2, EndKept
    <3> QED BY <3>1, <3>2
  <2> QED BY <2>2 DEF EndsOpen
<1>7. Freed'
  BY <1>1, <1>5 DEF Freed, Open, TypeOK
<1>8. InCall'
  BY <1>1, <1>2 DEF InCall
<1>9. WriterNotStuck'
  <2> SUFFICES ASSUME NEW q \in Procs, pc'[q] = "w_asleep" PROVE Count' = PIPESIZE /\ readopen'
    BY DEF WriterNotStuck
  <2>1. pc[q] = "w_asleep" /\ e # "r"
    BY <1>2
  <2> QED BY <1>1, <1>3, <2>1 DEF WriterNotStuck
<1>10. ReaderStuckByKillOnly'
  <2> SUFFICES ASSUME \A q \in Procs : ~killed[q], NEW q \in Procs, pc'[q] = "r_asleep"
               PROVE  nread = nwrite /\ writeopen'
    BY <1>1 DEF ReaderStuckByKillOnly, ReaderNotStuck
  <2>1. pc[q] = "r_asleep" /\ e # "w"
    BY <1>2
  <2> QED BY <1>1, <2>1 DEF ReaderStuckByKillOnly, ReaderNotStuck
<1> QED BY <1>3, <1>4, <1>6, <1>7, <1>8, <1>9, <1>10

LEMMA KillKeeps ==
  ASSUME IInv, NEW p \in Procs, Kill(p)
  PROVE  IInv'
<1> USE DEF IInv
<1>1. /\ killed' = [killed EXCEPT ![p] = TRUE]
      /\ UNCHANGED <<data, nread, nwrite, readopen, writeopen, freed, files, buf, n>>
  BY DEF Kill, pipe, ring, call
<1>2. \A q \in Procs : \/ pc'[q] = pc[q]
                       \/ pc[q] = "r_asleep" /\ pc'[q] = "read"
                       \/ pc[q] = "w_asleep" /\ pc'[q] = "write"
  BY DEF Kill, TypeOK
<1>3. TypeOK' /\ Count' = Count
  <2>1. pc' \in [Procs -> Pcs]
    BY DEF Kill, TypeOK, Pcs
  <2> QED BY <1>1, <2>1, CountKept DEF TypeOK, Pcs, files
<1>4. Moves(p)
  BY <1>2 DEF Moves
<1>5. RefCounts' /\ EndsOpen' /\ Freed' /\ InCall'
  BY <1>1, <1>4, MovesKeep
<1>6. Bounded' /\ WriterNotStuck'
  BY <1>1, <1>2, <1>3 DEF Bounded, WriterNotStuck
<1>7. ReaderStuckByKillOnly'
  <2>1. killed'[p]
    BY <1>1 DEF TypeOK
  <2> QED BY <2>1 DEF ReaderStuckByKillOnly
<1> QED BY <1>3, <1>5, <1>6, <1>7

LEMMA IInvNext == IInv /\ [Next]_vars => IInv'
<1> SUFFICES ASSUME IInv, [Next]_vars PROVE IInv'
  OBVIOUS
<1>1. ASSUME NEW p \in Procs, Step(p) PROVE IInv'
  BY <1>1, ReadCallKeeps, WriteCallKeeps, PipewriteKeeps, PipereadKeeps, ForkKeeps,
     FilecloseKeeps, PipecloseKeeps, KillKeeps DEF Step
<1>2. CASE UNCHANGED vars
  <2> USE <1>2 DEF vars, pipe, ring, files, call, IInv
  <2>1. TypeOK' /\ Count' = Count
    BY DEF TypeOK, Count
  <2>2. RefCounts' /\ Freed' /\ InCall' /\ Bounded'
    BY <2>1 DEF RefCounts, Users, Freed, InCall, Bounded
  <2>4. EndsOpen'
    BY DEF EndsOpen, OpenWhileUsed, Open, ClosePc
  <2>3. WriterNotStuck' /\ ReaderStuckByKillOnly'
    BY <2>1 DEF WriterNotStuck, ReaderStuckByKillOnly, ReaderNotStuck
  <2> QED BY <2>1, <2>2, <2>3, <2>4
<1> QED BY <1>1, <1>2 DEF Next

LEMMA IInvAlways == Spec => []IInv
BY IInvInit, IInvNext, PTL DEF Spec

=============================================================================
