----------------------------- MODULE PipeProofs -----------------------------
(***************************************************************************)
(* Proofs about Pipe: the pipe is freed once, its sleepers can be woken,   *)
(* and its bytes come out in order.                                        *)
(***************************************************************************)
EXTENDS PipeInv, SequenceTheorems

(***************************************************************************)
(* Arithmetic of ring buffers: counters that wrap around at M, and an      *)
(* index into the buffer that is the counter modulo its size P.            *)
(***************************************************************************)
LEMMA ModUniq ==
  ASSUME NEW M \in Nat \ {0}, NEW q \in Nat, NEW r \in 0..M - 1
  PROVE  (q * M + r) % M = r
OBVIOUS

LEMMA ModQuot ==
  ASSUME NEW M \in Nat \ {0}, NEW a \in Nat
  PROVE  \E q \in Nat : a = q * M + (a % M)
<1>1. a \div M \in Nat
  OBVIOUS
<1>2. a = (a \div M) * M + (a % M)
  OBVIOUS
<1> QED BY <1>1, <1>2

LEMMA ModRange ==
  ASSUME NEW M \in Nat \ {0}, NEW a \in Nat
  PROVE  a % M \in 0..M - 1
OBVIOUS

(* A buffer is passed a whole number of times when the counter wraps. *)
LEMMA ModMod ==
  ASSUME NEW M \in Nat \ {0}, NEW P \in Nat \ {0}, M % P = 0, NEW a \in Nat
  PROVE  (a % M) % P = a % P
<1>1. PICK k \in Nat : M = k * P + 0
  BY ModQuot
<1>2. PICK q \in Nat : a = q * M + (a % M)
  BY ModQuot
<1>3. a % M \in Nat
  OBVIOUS
<1>4. PICK s \in Nat : a % M = s * P + ((a % M) % P)
  BY <1>3, ModQuot
<1>5. (a % M) % P \in 0..P - 1
  BY <1>3
<1>6. q * M = (q * k) * P
  BY <1>1
<1>7. q * k \in Nat /\ q * k + s \in Nat
  OBVIOUS
<1>8. (q * k) * P + s * P = (q * k + s) * P /\ s * P \in Nat /\ q * M \in Nat
  BY <1>7
<1> DEFINE m == q * k + s
           r == (a % M) % P
           mp == m * P
           qw == q * M
           sp == s * P
<1>9. a = mp + r
  <2>1. a = qw + (a % M) /\ a % M = sp + r /\ qw + sp = mp /\ qw \in Nat /\ sp \in Nat /\ r \in Nat
    BY <1>2, <1>4, <1>5, <1>6, <1>8
  <2> HIDE DEF mp, qw, sp, r
  <2> QED BY <2>1
<1>10. (m * P + r) % P = r
  <2>1. m \in Nat /\ r \in 0..P - 1
    BY <1>5, <1>7
  <2> HIDE DEF m, r
  <2> QED BY <2>1, ModUniq
<1> QED BY <1>9, <1>10

(* Counters less than a buffer apart are at different places. *)
LEMMA ModInj ==
  ASSUME NEW P \in Nat \ {0}, NEW a \in Nat, NEW b \in Nat, a < b, b < a + P
  PROVE  a % P # b % P
<1> SUFFICES ASSUME a % P = b % P PROVE FALSE
  OBVIOUS
<1>1. PICK q \in Nat : a = q * P + (a % P)
  BY ModQuot
<1>2. PICK s \in Nat : b = s * P + (b % P)
  BY ModQuot
<1>3. a % P \in Nat
  OBVIOUS
<1> DEFINE qp == q * P
           sp == s * P
<1>4. qp \in Nat /\ sp \in Nat
  OBVIOUS
<1>5. qp < sp /\ sp - qp < P
  <2>1. a = qp + (a % P) /\ b = sp + (a % P)
    BY <1>1, <1>2
  <2> HIDE DEF qp, sp
  <2> QED BY <2>1, <1>3, <1>4
<1>6. CASE s > q
  <2>1. PICK d \in Nat : s = q + 1 + d
    BY <1>6, s - q - 1 \in Nat
  <2>2. sp = qp + P + d * P /\ d * P \in Nat
    BY <2>1
  <2> HIDE DEF qp, sp
  <2> QED BY <2>2, <1>4, <1>5
<1>7. CASE s <= q
  <2>1. PICK d \in Nat : q = s + d
    BY <1>7, q - s \in Nat
  <2>2. qp = sp + d * P /\ d * P \in Nat
    BY <2>1
  <2> HIDE DEF qp, sp
  <2> QED BY <2>2, <1>4, <1>5
<1> QED BY <1>6, <1>7

LEMMA DistReach ==
  ASSUME NEW M \in Nat \ {0}, NEW a \in 0..M - 1, NEW b \in 0..M - 1
  PROVE  (a + Dist(M, a, b)) % M = b
<1>1. PICK d \in 0..M - 1 : d = Dist(M, a, b) /\ d = IF a <= b THEN b - a ELSE M + b - a
  BY DistIs
<1>2. (a + d) % M = IF a + d < M THEN a + d ELSE a + d - M
  BY StepIs
<1> QED BY <1>1, <1>2

LEMMA StepStep ==
  ASSUME NEW M \in Nat \ {0}, NEW a \in Nat, NEW j \in Nat, NEW k \in Nat
  PROVE  (((a + j) % M) + k) % M = (a + j + k) % M
<1>1. PICK x \in Nat : x = a + j
  OBVIOUS
<1>2. PICK q \in Nat : x = q * M + (x % M)
  BY ModQuot, Zenon
<1>3. PICK r \in 0..M - 1 : r = x % M
  BY ModRange
<1>4. PICK y \in Nat : y = r + k
  OBVIOUS
<1>5. PICK p \in Nat : y = p * M + (y % M)
  BY ModQuot, Zenon
<1>11. PICK s \in 0..M - 1 : s = y % M
  BY ModRange
<1>6. PICK qw \in Nat, pw \in Nat : qw = q * M /\ pw = p * M
  OBVIOUS
<1>7. a + j + k = qw + pw + s
  <2>1. x = qw + r /\ y = pw + s
    BY <1>2, <1>3, <1>5, <1>6, <1>11
  <2> QED BY <1>1, <1>4, <2>1
<1>8. PICK m \in Nat : m = q + p
  OBVIOUS
<1>9. qw + pw = m * M
  BY <1>6, <1>8
<1>10. (m * M + s) % M = s
  BY ModUniq
<1> QED BY <1>1, <1>3, <1>4, <1>7, <1>9, <1>10, <1>11

(* The slots of a stretch no longer than the buffer are different. *)
LEMMA SlotsDiffer ==
  ASSUME NEW M \in Nat \ {0}, NEW P \in Nat \ {0}, M % P = 0, NEW a \in Nat,
         NEW i \in Nat, NEW j \in Nat, i # j, i < j + P, j < i + P
  PROVE  ((a + i) % M) % P # ((a + j) % M) % P
<1>1. PICK x \in Nat, y \in Nat : x = a + i /\ y = a + j
  OBVIOUS
<1>2. \A z \in Nat : (z % M) % P = z % P
  BY ModMod, Zenon
<1>3. x % P # y % P
  <2>1. y < x + P /\ x < y + P /\ (x < y \/ y < x)
    BY <1>1
  <2> QED BY <2>1, ModInj, Zenon
<1> QED BY <1>1, <1>2, <1>3

LEMMA ConcatIs ==
  ASSUME NEW S, NEW x \in Seq(S), NEW s \in Seq(S), NEW y \in Seq(S),
         Len(y) = Len(x) + Len(s), \A i \in 1..Len(x) : y[i] = x[i],
         \A j \in 1..Len(s) : y[Len(x) + j] = s[j]
  PROVE  y = x \o s
<1>1. /\ x \o s \in Seq(S) /\ Len(x \o s) = Len(x) + Len(s)
      /\ \A i \in 1..Len(x) + Len(s) : (x \o s)[i] = IF i <= Len(x) THEN x[i] ELSE s[i - Len(x)]
  BY ConcatProperties
<1>2. Len(x) \in Nat /\ Len(s) \in Nat
  BY LenProperties
<1>3. ASSUME NEW i \in 1..Len(y) PROVE y[i] = (x \o s)[i]
  <2>1. CASE i <= Len(x)
    BY <1>1, <1>2, <2>1
  <2>2. CASE i > Len(x)
    <3>1. PICK j \in 1..Len(s) : i = Len(x) + j /\ i - Len(x) = j
      <4>1. i - Len(x) \in 1..Len(s) /\ i = Len(x) + (i - Len(x))
        BY <1>2, <2>2
      <4> QED BY <4>1
    <3>2. i \in 1..Len(x) + Len(s) /\ ~(i <= Len(x))
      BY <1>2, <2>2
    <3> QED BY <1>1, <3>1, <3>2
  <2> QED BY <1>2, <2>1, <2>2
<1> QED BY <1>1, <1>3, SeqEqual

USE Sizes DEF End, Asleep

(***************************************************************************)
(* What follows from the invariant.                                        *)
(***************************************************************************)
(* The page of the pipe is freed once, by the pipeclose() after which      *)
(* neither end is open, however fork(), close() and exit() interleave.     *)
THEOREM FreedOnceTheorem == Spec => []FreedOnce
<1>1. IInv => FreedOnce
  <2> SUFFICES ASSUME IInv PROVE FreedOnce
    OBVIOUS
  <2>1. Open("w") <=> \E p \in Procs : "w" \in ends[p] \/ pc[p] = "close_w"
    BY DEF IInv, EndsOpen, OpenWhileUsed, ClosePc
  <2>2. Open("r") <=> \E p \in Procs : "r" \in ends[p] \/ pc[p] = "close_r"
    BY DEF IInv, EndsOpen, OpenWhileUsed, ClosePc
  <2>3. \A p \in Procs : ends[p] = {} <=> "r" \notin ends[p] /\ "w" \notin ends[p]
    BY DEF IInv, TypeOK
  <2> QED BY <2>1, <2>2, <2>3 DEF IInv, Freed, FreedOnce, Open
<1> QED BY <1>1, IInvAlways, PTL

(* A writer that sleeps has a full pipe before it and readers that will    *)
(* wake it: neither piperead() nor pipeclose() forgets one.                *)
THEOREM WriterNotStuckTheorem == Spec => []WriterNotStuck
<1>1. IInv => WriterNotStuck
  BY DEF IInv
<1> QED BY <1>1, IInvAlways, PTL

(* As long as nobody is killed a reader that sleeps has an empty pipe      *)
(* before it and writers that will wake it.                                *)
THEOREM ReaderStuckByKillOnlyTheorem == Spec => []ReaderStuckByKillOnly
<1>1. IInv => ReaderStuckByKillOnly
  BY DEF IInv
<1> QED BY <1>1, IInvAlways, PTL

(***************************************************************************)
(* The c bytes that the ring d holds from counter r on, as a queue.   *)
(***************************************************************************)
Buffer == [0..PIPESIZE - 1 -> Bytes]
Slot(a) == (a % W) % PIPESIZE
Held(d, r, c) == [i \in 1..c |-> d[Slot(r + (i - 1))]]
Join(q, s) == q \o s
Drop(q, k) == SubSeq(q, k + 1, Len(q))

LEMMA SlotIn ==
  ASSUME NEW a \in Nat
  PROVE  Slot(a) \in 0..PIPESIZE - 1
<1>1. PICK x \in 0..W - 1 : x = a % W
  BY ModRange
<1>2. x % PIPESIZE \in 0..PIPESIZE - 1
  BY ModRange
<1> QED BY <1>1, <1>2 DEF Slot

LEMMA HeldIs ==
  ASSUME NEW d \in Buffer,
         NEW r \in Nat, NEW c \in Nat
  PROVE  Held(d, r, c) \in Seq(Bytes) /\ Len(Held(d, r, c)) = c
<1>1. ASSUME NEW i \in 1..c PROVE d[Slot(r + (i - 1))] \in Bytes
  <2>1. PICK a \in Nat : a = r + (i - 1)
    OBVIOUS
  <2>2. Slot(a) \in 0..PIPESIZE - 1
    BY SlotIn
  <2> QED BY <2>1, <2>2 DEF Buffer
<1>2. Held(d, r, c) \in [1..c -> Bytes]
  BY <1>1 DEF Held
<1> QED BY <1>2

(* The slots of the queue are as they were, and s is stored behind it. *)
Kept(f, d, r, c) == \A i \in 0..c - 1 : f[Slot(r + i)] = d[Slot(r + i)]
Behind(f, s, r, c) == \A j \in 0..Len(s) - 1 : f[Slot(r + (c + j))] = s[j + 1]

(* The queue after s was stored behind it. *)
LEMMA HeldSend ==
  ASSUME NEW d \in Buffer, NEW f \in Buffer,
         NEW r \in Nat, NEW c \in Nat, NEW k \in Nat, NEW b \in Nat,
         NEW s \in Seq(Bytes)
  PROVE  Len(s) = k /\ b = c + k /\ Kept(f, d, r, c) /\ Behind(f, s, r, c)
         => Held(f, r, b) = Join(Held(d, r, c), s)
<1>2. Held(d, r, c) \in Seq(Bytes) /\ Len(Held(d, r, c)) = c
  BY HeldIs
<1>3. Held(f, r, b) \in Seq(Bytes) /\ Len(Held(f, r, b)) = b
  <2>1. \A x \in Nat : Held(f, r, x) \in Seq(Bytes) /\ Len(Held(f, r, x)) = x
    BY HeldIs
  <2> QED BY <2>1
<1> SUFFICES ASSUME Len(s) = k, b = c + k,
                    \A i \in 0..c - 1 : f[Slot(r + i)] = d[Slot(r + i)],
                    \A j \in 0..k - 1 : f[Slot(r + (c + j))] = s[j + 1]
             PROVE  Held(f, r, b) = Held(d, r, c) \o s
  BY DEF Kept, Behind, Join
<1>4. ASSUME NEW i \in 1..c PROVE Held(f, r, b)[i] = Held(d, r, c)[i]
  <2>1. PICK h \in 0..c - 1 : h = i - 1
    OBVIOUS
  <2>2. i \in 1..b
    OBVIOUS
  <2> QED BY <2>1, <2>2 DEF Held
<1>5. ASSUME NEW j \in 1..k PROVE Held(f, r, b)[c + j] = s[j]
  <2>1. PICK h \in 0..k - 1 : h = j - 1 /\ h + 1 = j /\ (c + j) - 1 = c + h
    OBVIOUS
  <2>2. c + j \in 1..b
    OBVIOUS
  <2>3. Held(f, r, b)[c + j] = f[Slot(r + (c + h))]
    BY <2>1, <2>2 DEF Held
  <2> QED BY <2>1, <2>3
<1>6. PICK x \in Seq(Bytes), y \in Seq(Bytes) : x = Held(d, r, c) /\ y = Held(f, r, b)
  BY <1>2, <1>3
<1>7. y = x \o s
  <2>1. Len(y) = Len(x) + Len(s)
    BY <1>2, <1>3, <1>6
  <2>2. \A i \in 1..Len(x) : y[i] = x[i]
    BY <1>2, <1>4, <1>6
  <2>3. \A j \in 1..Len(s) : y[Len(x) + j] = s[j]
    BY <1>2, <1>5, <1>6
  <2> QED BY <2>1, <2>2, <2>3, ConcatIs
<1> QED BY <1>6, <1>7

(* The queue after its first k bytes were taken. *)
LEMMA HeldReceive ==
  ASSUME NEW d \in Buffer,
         NEW r \in Nat, NEW c \in Nat, NEW k \in 0..c,
         NEW m \in Nat, m = (r + k) % W, NEW b \in Nat, b = c - k
  PROVE  Held(d, m, b) = Drop(Held(d, r, c), k)
<1>0. \A h \in Nat : (((r + k) % W) + h) % W = (r + k + h) % W
  <2>1. k \in Nat
    OBVIOUS
  <2>2. \A j, h \in Nat : (((r + j) % W) + h) % W = (r + j + h) % W
    BY StepStep, Zenon
  <2> QED BY <2>1, <2>2, Zenon
<1>7. ASSUME NEW h \in Nat PROVE (m + h) % W = (r + (k + h)) % W
  <2>1. (((r + k) % W) + h) % W = (r + k + h) % W
    BY <1>0, Zenon
  <2>2. r + k + h = r + (k + h)
    OBVIOUS
  <2> QED BY <2>1, <2>2
<1>2. PICK x \in Seq(Bytes), y \in Seq(Bytes) :
        /\ x = Held(d, r, c) /\ Len(x) = c
        /\ y = Held(d, m, b) /\ Len(y) = b
  <2>1. \A a, l \in Nat : Held(d, a, l) \in Seq(Bytes) /\ Len(Held(d, a, l)) = l
    BY HeldIs
  <2>2. Held(d, m, b) \in Seq(Bytes) /\ Len(Held(d, m, b)) = b
    BY <2>1, Zenon
  <2>3. Held(d, r, c) \in Seq(Bytes) /\ Len(Held(d, r, c)) = c
    BY <2>1, Zenon
  <2> QED BY <2>2, <2>3, Zenon
<1>3. ASSUME NEW i \in 1..b, NEW j \in 1..c, j = k + i PROVE y[i] = x[j]
  <2>1. PICK h \in Nat, g \in Nat : h = i - 1 /\ g = j - 1
    OBVIOUS
  <2>2. y[i] = d[Slot(m + h)] /\ x[j] = d[Slot(r + g)]
    BY <1>2, <2>1 DEF Held
  <2>3. k + h = g
    BY <1>3, <2>1
  <2> QED BY <1>7, <2>2, <2>3 DEF Slot
<1>4. PICK z \in Seq(Bytes) : /\ z = SubSeq(x, k + 1, c) /\ Len(z) = b
                          /\ \A i \in 1..b : z[i] = x[k + i]
  <2>1. \A i \in k + 1..c : x[i] \in Bytes
    BY <1>2
  <2>2. /\ SubSeq(x, k + 1, c) \in Seq(Bytes)
        /\ Len(SubSeq(x, k + 1, c)) = IF k + 1 <= c THEN c - (k + 1) + 1 ELSE 0
        /\ \A i \in 1..c - (k + 1) + 1 : SubSeq(x, k + 1, c)[i] = x[k + 1 + i - 1]
    BY <2>1, SubSeqProperties
  <2>3. \A i \in 1..b : i \in 1..c - (k + 1) + 1 /\ k + 1 + i - 1 = k + i
    OBVIOUS
  <2>4. Len(SubSeq(x, k + 1, c)) = b
    BY <2>2
  <2>5. \A i \in 1..b : SubSeq(x, k + 1, c)[i] = x[k + i]
    BY <2>2, <2>3
  <2> QED BY <2>2, <2>4, <2>5
<1>5. ASSUME NEW i \in 1..b PROVE y[i] = z[i]
  <2>1. PICK j \in 1..c : j = k + i
    OBVIOUS
  <2> QED BY <1>3, <1>4, <2>1
<1>6. y = z
  BY <1>2, <1>4, <1>5, SeqEqual
<1> QED BY <1>2, <1>4, <1>6 DEF Drop

(***************************************************************************)
(* The ring implements a queue.                                            *)
(***************************************************************************)
(* The slot of the i-th byte that waits, or will wait, for the readers. *)
Place(i) == Slot(nread + i)

(* pipewrite() stores behind the bytes that wait, *)
LEMMA WritePlace ==
  ASSUME TypeOK
  PROVE  \A j \in Nat : Incr(nwrite, j) % PIPESIZE = Place(Count + j)
<1>1. W \in Nat \ {0} /\ nread \in 0..W - 1 /\ nwrite \in 0..W - 1 /\ nread \in Nat
  BY DEF TypeOK
<1>2. PICK c \in Nat : c = Count /\ (nread + c) % W = nwrite
  BY <1>1, CountIs, DistReach
<1>3. ASSUME NEW j \in Nat PROVE (nwrite + j) % W = (nread + (c + j)) % W
  <2>1. \A b, d \in Nat : (((nread + b) % W) + d) % W = (nread + b + d) % W
    BY <1>1, StepStep, Zenon
  <2>2. (((nread + c) % W) + j) % W = (nread + c + j) % W
    BY <2>1, Zenon
  <2>3. nread + c + j = nread + (c + j)
    BY <1>1
  <2> QED BY <1>2, <2>2, <2>3
<1> QED BY <1>2, <1>3 DEF Incr, Place, Slot

(* and no byte in the slot of another one. *)
LEMMA PlacesDiffer ==
  ASSUME TypeOK, NEW i \in 0..PIPESIZE - 1, NEW j \in 0..PIPESIZE - 1, i # j
  PROVE  Place(i) # Place(j)
<1>1. W \in Nat \ {0} /\ nread \in Nat
  BY DEF TypeOK
<1>2. i < j + PIPESIZE /\ j < i + PIPESIZE /\ i \in Nat /\ j \in Nat
  OBVIOUS
<1>3. W % PIPESIZE = 0
  BY PipeAssumption
<1> QED BY <1>1, <1>2, <1>3, SlotsDiffer, Zenon DEF Place, Slot

LEMMA PlaceIn ==
  ASSUME TypeOK, NEW i \in Nat
  PROVE  Place(i) \in 0..PIPESIZE - 1
<1>1. W \in Nat \ {0}
  OBVIOUS
<1>2. PICK a \in Nat : a = nread + i
  BY DEF TypeOK
<1>3. Slot(a) \in 0..PIPESIZE - 1
  BY <1>1, SlotIn
<1> QED BY <1>2, <1>3 DEF Place

LEMMA CopyIs ==
  ASSUME TypeOK, NEW s \in Seq(Bytes), NEW k \in Nat, Len(s) = k, Count + k <= PIPESIZE
  PROVE  /\ \A i \in 0..Count - 1 : Copy(s)[Place(i)] = data[Place(i)]
         /\ \A j \in 0..k - 1 : Copy(s)[Place(Count + j)] = s[j + 1]
<1>1. Count \in Nat /\ DOMAIN data = 0..PIPESIZE - 1 /\ DOMAIN s = 1..k
  BY CountIs DEF TypeOK
<1>2. ASSUME NEW j \in 1..k PROVE Incr(nwrite, j - 1) % PIPESIZE = Place(Count + (j - 1))
  BY WritePlace
<1>3. ASSUME NEW i \in 0..Count - 1 PROVE Copy(s)[Place(i)] = data[Place(i)]
  <2>1. Place(i) \in 0..PIPESIZE - 1
    BY PlaceIn
  <2>2. ASSUME NEW j \in 1..k PROVE Place(i) # Incr(nwrite, j - 1) % PIPESIZE
    <3>1. PICK h \in 0..PIPESIZE - 1 : h = Count + (j - 1) /\ i \in 0..PIPESIZE - 1 /\ i # h
      BY <1>1
    <3>2. Place(i) # Place(h)
      BY <3>1, PlacesDiffer
    <3> QED BY <1>2, <3>1, <3>2
  <2> QED BY <1>1, <2>1, <2>2 DEF Copy
<1>4. ASSUME NEW j \in 0..k - 1 PROVE Copy(s)[Place(Count + j)] = s[j + 1]
  <2> DEFINE Stores(h) == Place(Count + j) = Incr(nwrite, h - 1) % PIPESIZE
  <2>1. PICK m \in 0..PIPESIZE - 1 : m = Count + j
    BY <1>1
  <2>2. PICK g \in 1..k : g = j + 1 /\ g - 1 = j
    OBVIOUS
  <2>3. Stores(g)
    BY <1>2, <2>2
  <2>4. ASSUME NEW h \in 1..k, Stores(h) PROVE h = g
    <3>1. PICK l \in 0..PIPESIZE - 1 : l = Count + (h - 1)
      BY <1>1
    <3>2. Place(m) = Place(l)
      BY <1>2, <2>1, <2>4, <3>1
    <3>3. m = l
      BY <3>2, PlacesDiffer
    <3> QED BY <1>1, <2>1, <2>2, <3>1, <3>3
  <2>5. Place(Count + j) \in DOMAIN data
    <3>1. \A i \in Nat : Place(i) \in 0..PIPESIZE - 1
      BY PlaceIn, Zenon
    <3>2. Count + j \in Nat
      BY <1>1
    <3> QED BY <1>1, <3>1, <3>2, Zenon
  <2> HIDE DEF Stores
  <2>6. (CHOOSE h \in 1..k : Stores(h)) = g
    BY <2>3, <2>4
  <2>7. Copy(s)[Place(Count + j)] = s[CHOOSE h \in 1..k : Stores(h)]
    <3>1. \E h \in 1..k : Stores(h)
      BY <2>3
    <3> QED BY <1>1, <2>5, <3>1 DEF Copy, Stores
  <2> QED BY <2>2, <2>6, <2>7
<1> QED BY <1>3, <1>4

(* The bytes that wait for the readers. *)
Waiting == Held(data, nread, Count)

LEMMA QueueIs ==
  /\ [i \in 1..Count |-> data[Incr(nread, i - 1) % PIPESIZE]] = Waiting
  /\ [i \in 1..Count |-> data[Incr(nread, i - 1) % PIPESIZE]]' = Waiting'
BY DEF Waiting, Held, Slot, Incr

LEMMA WaitingType ==
  ASSUME TypeOK
  PROVE  Waiting \in Seq(Bytes) /\ Len(Waiting) = Count /\ Count \in Nat
<1>1. data \in Buffer /\ nread \in Nat /\ Count \in Nat
  BY CountIs DEF TypeOK, Buffer
<1> QED BY <1>1, HeldIs DEF Waiting

LEMMA PipewriteSends ==
  ASSUME IInv, NEW p \in Procs, Pipewrite(p)
  PROVE  Queue!Send \/ Waiting' = Waiting
<1> DEFINE k == Stored(p)
           s == SubSeq(buf[p], 1, k)
<1>1. data' = Copy(s) /\ nwrite' = Incr(nwrite, k) /\ nread' = nread
  BY DEF Pipewrite, Stored
<1>2. TypeOK /\ Bounded
  BY DEF IInv
<1>3. k \in Nat /\ k <= Len(buf[p]) /\ Count + k <= PIPESIZE /\ Count \in Nat
  BY <1>2, StoredIs
<1>4. s \in Seq(Bytes) /\ Len(s) = k
  BY <1>2, <1>3 DEF TypeOK
<1> HIDE DEF k, s
<1>5. Count' = Count + k
  BY <1>1, <1>2, <1>3, CountGrows
<1>6. Waiting' = Waiting \o s
  <2>1. /\ W \in Nat \ {0} /\ data \in [0..PIPESIZE - 1 -> Bytes] /\ nread \in Nat
        /\ data' \in [0..PIPESIZE - 1 -> Bytes]
    BY <1>1, <1>2, <1>4, CopyType DEF TypeOK
  <2>2. /\ \A i \in 0..Count - 1 : Copy(s)[Place(i)] = data[Place(i)]
        /\ \A j \in 0..k - 1 : Copy(s)[Place(Count + j)] = s[j + 1]
    BY <1>2, <1>3, <1>4, CopyIs
  <2>3. PICK f \in [0..PIPESIZE - 1 -> Bytes], c \in Nat, x \in Seq(Bytes), h, b \in Nat :
          f = data' /\ c = Count /\ x = s /\ h = k /\ b = c + h
    BY <1>3, <1>4, <2>1
  <2>4. Kept(f, data, nread, c) /\ Behind(f, x, nread, c)
    BY <1>1, <1>4, <2>2, <2>3 DEF Place, Kept, Behind
  <2>5. Held(f, nread, b) = Join(Held(data, nread, c), x)
    <3>1. Len(x) = h /\ f \in Buffer /\ data \in Buffer
      BY <1>4, <2>1, <2>3 DEF Buffer
    <3>2. b = c + h /\ W \in Nat \ {0} /\ nread \in Nat
      BY <2>1, <2>3
    <3> QED BY <2>4, <3>1, <3>2, HeldSend
  <2> QED BY <1>1, <1>5, <2>3, <2>5 DEF Waiting, Join
<1>7. Waiting \in Seq(Bytes) /\ Len(Waiting) = Count
  BY <1>2, WaitingType
<1>8. CASE k = 0
  <2>1. s = <<>>
    BY <1>4, <1>8
  <2> QED BY <1>6, <1>7, <2>1
<1>9. CASE k # 0
  <2>1. k \in 1..PIPESIZE - Len(Waiting)
    BY <1>3, <1>7, <1>9
  <2>2. s \in [1..k -> Bytes]
    BY <1>4
  <2> QED BY <1>6, <2>1, <2>2, QueueIs DEF Queue!Send
<1> QED BY <1>8, <1>9

LEMMA PipereadReceives ==
  ASSUME IInv, NEW p \in Procs, Piperead(p)
  PROVE  Queue!Receive \/ Waiting' = Waiting
<1>1. TypeOK /\ data' = data /\ nwrite' = nwrite /\ Count \in Nat /\ n[p] \in Nat
  <2>1. TypeOK /\ data' = data /\ nwrite' = nwrite
    BY DEF Piperead, IInv
  <2>2. Count \in Nat
    BY <2>1, CountIs
  <2>3. n[p] \in Nat
    BY <2>1 DEF TypeOK
  <2> QED BY <2>1, <2>2, <2>3
<1>2. CASE nread' = nread
  BY <1>1, <1>2, CountKept DEF Waiting
<1>3. CASE nread' # nread
  <2>1. PICK k \in Nat : k <= Count /\ nread' = Incr(nread, k)
    <3>1. nread' = Incr(nread, Min(n[p], Count))
      BY <1>3 DEF Piperead
    <3>2. Min(n[p], Count) \in Nat /\ Min(n[p], Count) <= Count
      BY <1>1 DEF Min
    <3> QED BY <3>1, <3>2
  <2>2. Count' = Count - k
    BY <1>1, <2>1, CountShrinks
  <2>3. PICK c \in Nat : c = Count /\ k \in 0..c
    BY <1>1, <2>1
  <2>4. W \in Nat \ {0} /\ data \in [0..PIPESIZE - 1 -> Bytes] /\ nread \in Nat
    BY <1>1 DEF TypeOK
  <2>5. PICK m \in Nat, b \in Nat : m = nread' /\ m = (nread + k) % W /\ b = Count' /\ b = c - k
    <3>1. nread' \in 0..W - 1
      BY <1>1, <2>1, CountShrinks
    <3> QED BY <2>1, <2>2, <2>3, <3>1 DEF Incr
  <2>10. Held(data, m, b) = Drop(Held(data, nread, c), k)
    <3>1. data \in Buffer
      BY <2>4 DEF Buffer
    <3> QED BY <2>3, <2>4, <2>5, <3>1, HeldReceive
  <2>6. Waiting' = Drop(Waiting, k)
    BY <1>1, <2>3, <2>5, <2>10 DEF Waiting
  <2>7. Len(Waiting) = c /\ Waiting \in Seq(Bytes)
    BY <1>1, <2>3, WaitingType
  <2>8. CASE k = 0
    <3>1. SubSeq(Waiting, 1, c) = Waiting
      BY <2>7, SubSeqFull
    <3> QED BY <2>6, <2>7, <2>8, <3>1 DEF Drop
  <2>9. CASE k # 0
    <3>1. k \in 1..Len(Waiting)
      BY <2>3, <2>7, <2>9
    <3> QED BY <2>6, <2>7, <3>1, QueueIs DEF Queue!Receive, Drop
  <2> QED BY <2>8, <2>9
<1> QED BY <1>2, <1>3

LEMMA QueueNext == IInv /\ [Next]_vars => Queue!Next \/ Waiting' = Waiting
<1> SUFFICES ASSUME IInv, [Next]_vars PROVE Queue!Next \/ Waiting' = Waiting
  OBVIOUS
<1>1. ASSUME NEW p \in Procs, Pipewrite(p) \/ Piperead(p)
      PROVE  Queue!Next \/ Waiting' = Waiting
  BY <1>1, PipewriteSends, PipereadReceives DEF Queue!Next
<1>2. ASSUME data' = data, nread' = nread, nwrite' = nwrite PROVE Waiting' = Waiting
  BY <1>2, CountKept DEF Waiting
<1>3. ASSUME NEW p \in Procs, Step(p), ~Pipewrite(p), ~Piperead(p)
      PROVE  data' = data /\ nread' = nread /\ nwrite' = nwrite
  BY <1>3 DEF Step, ReadCall, WriteCall, Fork, Fileclose, Pipeclose, Kill, pipe, ring
<1>4. CASE UNCHANGED vars
  BY <1>2, <1>4 DEF vars, pipe, ring
<1> QED BY <1>1, <1>2, <1>3, <1>4 DEF Next

(* The bytes in the ring come out in the order they were put there, with   *)
(* nothing lost, doubled or overwritten, for every size of the buffer and  *)
(* of the counters that wrap around: the ring of pipewrite() and           *)
(* piperead() implements the bounded queue of Fifo.                        *)
THEOREM InOrderTheorem == Spec => InOrder
<1>1. Init => Queue!Init
  <2> SUFFICES ASSUME Init PROVE Waiting = <<>>
    BY QueueIs DEF Queue!Init
  <2>1. TypeOK /\ Count = 0
    BY IInvInit, CountIs DEF IInv, Init
  <2> QED BY <2>1, WaitingType
<1>2. IInv /\ [Next]_vars => [Queue!Next]_[i \in 1..Count |-> data[Incr(nread, i - 1) % PIPESIZE]]
  BY QueueNext, QueueIs
<1> QED BY <1>1, <1>2, IInvAlways, PTL DEF Spec, InOrder, Queue!Spec
=============================================================================
