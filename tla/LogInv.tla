------------------------------- MODULE LogInv -------------------------------
(***************************************************************************)
(* The control invariant of Log: what it says, why it holds initially,     *)
(* and that the steps of begin_op(), log_write() and end_op() and of the   *)
(* first half of commit() keep it, for any number of processes, blocks     *)
(* and values and any geometry of the log that meets LogAssumption.        *)
(***************************************************************************)
EXTENDS Log, TLAPS, FiniteSetTheorems

(***************************************************************************)
(* The inductive invariant, in four parts.                                 *)
(***************************************************************************)
Looping == {"write_log", "install", "recover_install"}

(* log.outstanding is the number of those calls. *)
Counting == outstanding = Cardinality(Counted)

(* At most one process commits, and only while no call is in progress. *)
OneCommitter ==
  /\ committing <=> \E p \in Procs : pc[p] \in Committer
  /\ committing => Counted = {}
  /\ \A p, q \in Procs : pc[p] \in Committer /\ pc[q] \in Committer => p = q

(* The first process recovers the log before any other runs. *)
BootAlone ==
  /\ \A p \in Procs : pc[p] \in Recovering => p = InitProc
  /\ \A p \in Procs : p # InitProc => (pc[p] = "off" <=> ~Up)
  /\ pc[InitProc] # "off"

(* The loops of write_log() and install_trans() stay inside the header. *)
TailInRange ==
  \A p \in Procs :
    /\ pc[p] \in Looping \cup {"write_head"} => tail[p] \in 1..Len(lh)
    /\ pc[p] \notin Looping => tail[p] = 1

(* A process locks a buffer only from bread() to the end of log_write(). *)
Holding ==
  \A p \in Procs :
    /\ pc[p] = "append" => \E b \in Blocks : held[p] = {b}
    /\ held[p] # {} => pc[p] \in {"append", "panic"}

Control == Counting /\ OneCommitter /\ BootAlone /\ TailInRange /\ Holding

(* Slots of the log that calls in progress have reserved and not yet used: *)
(* slot i of p is used once i of the blocks p wrote are in the header.     *)
Used(p) == Cardinality({b \in wrote[p] : Logged(b)})

Reserved == {r \in Counted \X (1..MAXOPBLOCKS) : r[2] > Used(r[1])}

(* The header and the reserved slots fit in the log together. *)
Room ==
  /\ Len(lh) + Cardinality(Reserved) <= LOGSIZE
  /\ Len(hdr) <= LOGSIZE
  /\ \A p \in Procs :
       /\ IsFiniteSet(wrote[p]) /\ Cardinality(wrote[p]) <= OpWrites
       /\ held[p] \subseteq wrote[p]
       /\ p \notin Counted => wrote[p] = {}
       /\ \A b \in wrote[p] : b \in held[p] \/ Logged(b)

CInv == TypeOK /\ Control /\ Room

LEMMA CountedFinite == IsFiniteSet(Counted) /\ Cardinality(Counted) \in Nat
BY LogAssumption, FS_Subset, FS_CardinalityType DEF Counted

(* begin_op() tests the worst case: every call writes all it reserved. *)
LEMMA ReservedBound ==
  /\ IsFiniteSet(Reserved) /\ Cardinality(Reserved) \in Nat
  /\ Cardinality(Reserved) <= Cardinality(Counted) * MAXOPBLOCKS
<1> DEFINE All == Counted \X (1..MAXOPBLOCKS)
<1>1. IsFiniteSet(1..MAXOPBLOCKS) /\ Cardinality(1..MAXOPBLOCKS) = MAXOPBLOCKS
  BY LogAssumption, FS_Interval
<1>2. IsFiniteSet(All) /\ Cardinality(All) = Cardinality(Counted) * MAXOPBLOCKS
  BY ZenonT(60), <1>1, CountedFinite, FS_Product
<1>3. Reserved \in SUBSET All
  BY DEF Reserved
<1> HIDE DEF All
<1>4. QED
  BY <1>2, <1>3, FS_Subset, FS_CardinalityType

LEMMA ReservedBoundPrime ==
  (/\ IsFiniteSet(Reserved) /\ Cardinality(Reserved) \in Nat
   /\ Cardinality(Reserved) <= Cardinality(Counted) * MAXOPBLOCKS)'
BY ReservedBound, PTL

LEMMA UsedNat ==
  ASSUME Room, NEW p \in Procs
  PROVE  /\ IsFiniteSet({b \in wrote[p] : Logged(b)})
         /\ Used(p) \in Nat /\ Used(p) <= OpWrites
<1>1. IsFiniteSet(wrote[p]) /\ Cardinality(wrote[p]) <= OpWrites
  BY DEF Room
<1>2. {b \in wrote[p] : Logged(b)} \in SUBSET wrote[p]
  OBVIOUS
<1>3. QED
  BY <1>1, <1>2, FS_Subset, FS_CardinalityType, LogAssumption DEF Used

LEMMA LogLen ==
  ASSUME TypeOK, Room
  PROVE  Len(lh) \in Nat /\ Len(lh) <= LOGSIZE
<1>1. Len(lh) \in Nat /\ Len(lh) + Cardinality(Reserved) <= LOGSIZE
  BY DEF TypeOK, Room
<1>2. QED
  BY <1>1, ReservedBound, LogAssumption

(* Reservations shrink when calls leave or their blocks get logged. *)
LEMMA ReservedShrinks ==
  ASSUME Room, Counted' \subseteq Counted,
         \A p \in Counted' :
           /\ IsFiniteSet(wrote'[p])
           /\ \A b \in wrote[p] : Logged(b) => b \in wrote'[p] /\ Logged(b)'
  PROVE  Reserved' \subseteq Reserved /\ Cardinality(Reserved') <= Cardinality(Reserved)
<1>1. ASSUME NEW p \in Counted' PROVE Used(p) <= Used(p)'
  <2> DEFINE T == {b \in wrote[p] : Logged(b)}
             U == {b \in wrote'[p] : Logged(b)'}
  <2>1. IsFiniteSet(wrote'[p]) /\ U \in SUBSET wrote'[p] /\ T \in SUBSET U
    BY <1>1
  <2>2. IsFiniteSet(U)
    BY <2>1, FS_Subset
  <2>3. Cardinality(T) <= Cardinality(U)
    <3> HIDE DEF T, U
    <3> QED BY <2>1, <2>2, FS_Subset
  <2>4. QED
    BY <2>3 DEF Used
<1>2. \A p \in Counted' : Used(p)' \in Nat /\ Used(p) \in Nat
  <2> SUFFICES ASSUME NEW p \in Counted' PROVE Used(p)' \in Nat /\ Used(p) \in Nat
    OBVIOUS
  <2>1. p \in Procs
    BY DEF Counted
  <2> DEFINE U == {b \in wrote'[p] : Logged(b)'}
  <2>2. IsFiniteSet(wrote'[p]) /\ U \in SUBSET wrote'[p]
    OBVIOUS
  <2>3. Cardinality(U) \in Nat
    BY <2>2, FS_Subset, FS_CardinalityType
  <2>4. QED
    BY <2>1, <2>3, UsedNat DEF Used
<1>3. Reserved' \subseteq Reserved
  BY <1>1, <1>2, LogAssumption DEF Reserved
<1>4. QED
  BY <1>3, ReservedBound, FS_Subset

LEMMA RoomKept ==
  ASSUME TypeOK, Room, Counted' = Counted, UNCHANGED <<lh, wrote, held>>, Len(hdr') <= LOGSIZE
  PROVE  Room'
<1>1. Reserved' = Reserved
  BY DEF Reserved, Used, Logged
<1>2. QED
  BY <1>1, LogAssumption DEF Room, Logged, TypeOK

(* No call in progress: the header is all there is. *)
LEMMA RoomNoCalls ==
  (/\ Counted = {} /\ Len(lh) \in Nat /\ Len(lh) <= LOGSIZE /\ Len(hdr) <= LOGSIZE
   /\ \A p \in Procs : wrote[p] = {} /\ held[p] = {})
  => Room
<1> SUFFICES ASSUME Counted = {}, Len(lh) \in Nat, Len(lh) <= LOGSIZE, Len(hdr) <= LOGSIZE,
                    \A p \in Procs : wrote[p] = {} /\ held[p] = {}
             PROVE  Room
  OBVIOUS
<1>1. Reserved = {}
  BY DEF Reserved
<1>2. Cardinality(Reserved) = 0
  BY <1>1, FS_EmptySet
<1>3. \A p \in Procs : IsFiniteSet(wrote[p]) /\ Cardinality(wrote[p]) <= OpWrites
  <2>1. \A p \in Procs : IsFiniteSet(wrote[p]) /\ Cardinality(wrote[p]) = 0
    BY ZenonT(60), FS_EmptySet, Zenon
  <2>2. QED
    BY <2>1, LogAssumption
<1>4. Len(lh) + Cardinality(Reserved) <= LOGSIZE
  BY <1>2, LogAssumption
<1>5. QED
  BY <1>3, <1>4 DEF Room

LEMMA RoomNoCallsPrime ==
  (/\ Counted = {} /\ Len(lh) \in Nat /\ Len(lh) <= LOGSIZE /\ Len(hdr) <= LOGSIZE
   /\ \A p \in Procs : wrote[p] = {} /\ held[p] = {})'
  => Room'
BY RoomNoCalls, PTL

LEMMA CInvInit == Init => CInv
<1> SUFFICES ASSUME Init PROVE CInv
  OBVIOUS
<1>1. TypeOK
  <2>1. pc \in [Procs -> Labels]
    BY DEF Init, Boot, Labels, Recovering
  <2>2. hdr \in Seq(Blocks) /\ lh \in Seq(Blocks)
    BY DEF Init
  <2>3. disk \in [Blocks -> Vals] /\ logd \in [1..LOGSIZE -> Vals] 
    BY LogAssumption DEF Init
  <2>4. buf \in [Blocks -> Vals \cup {NoBuf}] /\ dirty \subseteq Blocks
    BY LogAssumption DEF Init
  <2>5. outstanding \in Nat
    BY LogAssumption DEF Init
  <2>6. committing \in BOOLEAN
    BY ZenonT(60), LogAssumption DEF Init
  <2>7. held \in [Procs -> SUBSET Blocks]
    BY LogAssumption DEF Init
  <2>8. tail \in [Procs -> Nat \ {0}] 
    BY LogAssumption DEF Init
  <2>9. wrote \in [Procs -> SUBSET Blocks]
    BY LogAssumption DEF Init
  <2>10. QED
    BY SMTT(60), <2>1, <2>2, <2>3, <2>4, <2>5, <2>6,<2>7,<2>8,<2>9 DEF TypeOK
<1>2. Counted = {}
  BY DEF Init, Counted, Boot, InOp
<1>3. Counting
  BY <1>2, FS_EmptySet DEF Init, Counting
<1>4. OneCommitter /\ BootAlone
  BY <1>2, LogAssumption
  DEF Init, OneCommitter, BootAlone, Boot, Up, Recovering, Committer
<1>5. TailInRange /\ Holding
  BY DEF Init, TailInRange, Holding, Boot, Looping
<1>6. Room
  <2>1. Len(lh) = 0 /\ Len(hdr) = 0
    BY DEF Init
  <2>2. QED
    BY <1>2, <2>1, RoomNoCalls, LogAssumption DEF Init
<1>7. QED
  BY <1>1, <1>3, <1>4, <1>5, <1>6 DEF CInv, Control

(* A step of write_log() or install_trans(): the loop of p moves on, or    *)
(* ends, and nothing else moves.                                           *)
LEMMA NextTailStep ==
  ASSUME TypeOK, NEW p \in Procs, NEW l, NextTail(p, l)
  PROVE  /\ \A q \in Procs : q # p => pc'[q] = pc[q] /\ tail'[q] = tail[q]
         /\ tail[p] < Len(lh) => pc'[p] = pc[p] /\ tail'[p] = tail[p] + 1
         /\ ~(tail[p] < Len(lh)) => pc'[p] = l /\ tail'[p] = 1
         /\ tail' \in [Procs -> Nat]
         /\ l \in Labels => pc' \in [Procs -> Labels]
<1>0. pc \in [Procs -> Labels] /\ tail \in [Procs -> Nat]
  BY DEF TypeOK
<1>1. CASE tail[p] < Len(lh)
  BY SMTT(60), <1>0, <1>1 DEF NextTail
<1>2. CASE ~(tail[p] < Len(lh))
  BY SMTT(60), <1>0, <1>2 DEF NextTail, Goto
<1>3. QED  BY <1>1, <1>2

(* A step that moves no call in or out of the log keeps the count. *)
LEMMA CountingKept ==
  ASSUME Counting, Counted' = Counted, outstanding' = outstanding
  PROVE  Counting'
BY DEF Counting

(* log_write() adds its block to the header, and no other.                 *)
LEMMA AbsorbLogged ==
  ASSUME TypeOK, NEW b \in Blocks, lh' = Absorb(b)
  PROVE  \A c \in Blocks : Logged(c)' <=> Logged(c) \/ c = b
<1>0. lh \in Seq(Blocks)
  BY DEF TypeOK
<1>1. CASE Logged(b)
  BY <1>1 DEF Absorb, Logged
<1>2. CASE ~Logged(b)
  <2>1. lh' = Append(lh, b)
    BY <1>2 DEF Absorb
  <2>2. /\ Len(lh') = Len(lh) + 1 /\ lh'[Len(lh) + 1] = b /\ Len(lh) \in Nat
        /\ \A i \in 1..Len(lh) : lh'[i] = lh[i]
    BY <1>0, <2>1
  <2>3. QED
    BY <2>2 DEF Logged
<1>3. QED  BY <1>1, <1>2

LEMMA CInvBeginOpSleep ==
  ASSUME CInv, NEW p \in Procs, BeginOpSleep(p)
  PROVE  CInv'
<1> USE LogAssumption DEF CInv, Control
<1>1. TypeOK'
  BY DEF BeginOpSleep, Goto, TypeOK, Labels, Recovering, Committer, InOp, durable, cache, log
<1>2. Counted' = Counted /\ outstanding' = outstanding
  BY DEF BeginOpSleep, Goto, TypeOK, Counted, InOp, log
<1>3. Counting'
  BY <1>2, CountingKept
<1>4. OneCommitter'
  BY <1>2 DEF BeginOpSleep, Goto, TypeOK, OneCommitter, Committer, log
<1>5. BootAlone'
  BY DEF BeginOpSleep, Goto, TypeOK, BootAlone, Up, Recovering
<1>6. TailInRange'
  BY DEF BeginOpSleep, Goto, TypeOK, TailInRange, Looping, log
<1>7. Holding'
  BY DEF BeginOpSleep, Goto, TypeOK, Holding
<1>8. Room'
  BY <1>2, RoomKept DEF BeginOpSleep, Goto, Room, durable, log
<1>9. QED  BY ZenonT(60), <1>1, <1>3, <1>4, <1>5, <1>6, <1>7, <1>8

LEMMA CInvBeginOp ==
  ASSUME CInv, NEW p \in Procs, BeginOp(p)
  PROVE  CInv'
<1> USE LogAssumption DEF CInv, Control
<1>1. TypeOK'
  BY DEF BeginOp, Goto, Admit, TypeOK, Labels, Recovering, Committer, InOp, durable, cache, log
<1>2. Counted' = Counted \cup {p} /\ p \notin Counted
  BY DEF BeginOp, Goto, TypeOK, Counted, InOp
<1>3. Counting'
  BY ZenonT(60), <1>2, CountedFinite, FS_AddElement DEF BeginOp, Admit, Counting
<1>4. OneCommitter'
  BY <1>2 DEF BeginOp, Goto, Admit, TypeOK, OneCommitter, Committer, log
<1>5. BootAlone'
  BY DEF BeginOp, Goto, Admit, TypeOK, BootAlone, Up, Recovering
<1>6. TailInRange'
  BY DEF BeginOp, Goto, Admit, TypeOK, TailInRange, Looping, log
<1>7. Holding'
  BY DEF BeginOp, Goto, Admit, TypeOK, Holding
<1>8. Room'
  <2>1. Cardinality(Reserved') <= Cardinality(Counted') * MAXOPBLOCKS
    BY ReservedBoundPrime
  <2>2. Cardinality(Counted') = outstanding + 1
    BY <1>3 DEF BeginOp, Admit, Counting
  <2>3. Len(lh') + Cardinality(Reserved') <= LOGSIZE
    BY <2>1, <2>2, ReservedBoundPrime DEF BeginOp, NoRoom, TypeOK
  <2>4. QED
    BY <1>2, <2>3 DEF BeginOp, Room, Logged, durable
<1>9. QED  BY ZenonT(60), <1>1, <1>3, <1>4, <1>5, <1>6, <1>7, <1>8

LEMMA CInvLogWriteCheck ==
  ASSUME CInv, NEW p \in Procs, NEW b \in Blocks, NEW v \in Vals, LogWriteCheck(p, b, v)
  PROVE  CInv'
<1> USE LogAssumption DEF CInv, Control
<1>1. TypeOK'
  BY DEF LogWriteCheck, Goto, TypeOK, Labels, Recovering, Committer, InOp, durable, cache, log
<1>2. Counted' = Counted /\ outstanding' = outstanding
  BY DEF LogWriteCheck, Goto, TypeOK, Counted, InOp, log
<1>3. Counting'
  BY <1>2, CountingKept
<1>4. OneCommitter'
  BY <1>2 DEF LogWriteCheck, Goto, TypeOK, OneCommitter, Committer, log
<1>5. BootAlone'
  BY DEF LogWriteCheck, Goto, TypeOK, BootAlone, Up, Recovering
<1>6. TailInRange'
  BY DEF LogWriteCheck, Goto, TypeOK, TailInRange, Looping, log
<1>7. Holding'
  BY ZenonT(60) DEF LogWriteCheck, Goto, TypeOK, Holding
<1>8. Room'
  <2>1. p \in Counted /\ held[p] = {}
    BY SMTT(60) DEF LogWriteCheck, Counted, InOp, Holding
  <2>2. UNCHANGED <<lh, hdr>> /\ held' = [held EXCEPT ![p] = {b}]
        /\ wrote' = [wrote EXCEPT ![p] = @ \cup {b}]
        /\ Cardinality(wrote[p] \cup {b}) <= OpWrites
    BY DEF LogWriteCheck, durable, log
  <2>3. IsFiniteSet(wrote[p] \cup {b})
    BY ZenonT(60), FS_AddElement DEF Room
  <2>4. wrote'[p] = wrote[p] \cup {b} /\ \A q \in Procs : q # p => wrote'[q] = wrote[q]
    BY <2>2 DEF TypeOK
  <2>5. \A q \in Procs : IsFiniteSet(wrote'[q]) /\ Cardinality(wrote'[q]) <= OpWrites
    BY ZenonT(60), <2>2, <2>3, <2>4, Zenon DEF Room
  <2>6. \A c : Logged(c)' <=> Logged(c)
    BY <2>2 DEF Logged
  <2>7. Cardinality(Reserved') <= Cardinality(Reserved)
    BY <1>2, <2>4, <2>5, <2>6, ReservedShrinks DEF Counted
  <2>8. Len(lh') + Cardinality(Reserved') <= LOGSIZE
    BY SMTT(60), <2>2, <2>7, ReservedBound, ReservedBoundPrime DEF Room, TypeOK
  <2>9. QED
    BY ZenonT(60), <1>2, <2>1, <2>2, <2>4, <2>5, <2>6, <2>8 DEF Room, TypeOK
<1>9. QED  BY ZenonT(60), <1>1, <1>3, <1>4, <1>5, <1>6, <1>7, <1>8

LEMMA CInvLogWrite ==
  ASSUME CInv, NEW p \in Procs, LogWrite(p)
  PROVE  CInv'
<1> USE LogAssumption DEF CInv, Control
<1>1. TypeOK'
  BY DEF LogWrite, Goto, Absorb, Pin, TypeOK, Labels, Recovering, Committer, InOp, durable, cache, log
<1>2. Counted' = Counted /\ outstanding' = outstanding
  BY DEF LogWrite, Goto, Absorb, Pin, TypeOK, Counted, InOp, log
<1>3. Counting'
  BY <1>2, CountingKept
<1>4. OneCommitter'
  BY <1>2 DEF LogWrite, Goto, Absorb, Pin, TypeOK, OneCommitter, Committer, log
<1>5. BootAlone'
  BY DEF LogWrite, Goto, Absorb, Pin, TypeOK, BootAlone, Up, Recovering
<1>6. TailInRange'
  BY DEF LogWrite, Goto, Absorb, Pin, TypeOK, TailInRange, Looping, log
<1>7. Holding'
  BY SMTT(60) DEF LogWrite, Goto, Absorb, Pin, TypeOK, Holding
<1>8. Room'
  <2>1. PICK b \in Blocks : held[p] = {b}
    BY SMTT(60) DEF LogWrite, Holding
  <2>2. b \in wrote[p] /\ lh' = Absorb(b) /\ wrote' = wrote /\ hdr' = hdr
        /\ held' = [held EXCEPT ![p] = {}]
    BY <2>1 DEF LogWrite, Room, durable
  <2>3. \A c \in Blocks : Logged(c)' <=> Logged(c) \/ c = b
    BY <2>2, AbsorbLogged
  <2>4. Cardinality(Reserved') <= Cardinality(Reserved)
    BY <1>2, <2>2, <2>3, ReservedShrinks DEF Room, Counted, TypeOK
  <2>5. ASSUME ~Logged(b) PROVE Cardinality(Reserved') < Cardinality(Reserved)
    <3> DEFINE T == {c \in wrote[p] : Logged(c)}
               slot == <<p, Used(p) + 1>>
    <3>1. {c \in wrote'[p] : Logged(c)'} = T \cup {b} /\ b \notin T
      BY SMTT(60), <2>2, <2>3, <2>5 DEF TypeOK
    <3>2. IsFiniteSet(T) /\ Used(p) = Cardinality(T) /\ Used(p) \in Nat
      BY UsedNat DEF Used
    <3>3. Used(p)' = Used(p) + 1
      <4>1. Used(p)' = Cardinality(T \cup {b})
        BY <3>1 DEF Used
      <4> HIDE DEF T
      <4>2. Cardinality(T \cup {b}) = Cardinality(T) + 1
        BY ZenonT(60), <3>1, <3>2, FS_AddElement
      <4>3. QED  BY SMTT(60), <3>2, <4>1, <4>2
    <3>4. Used(p) + 1 <= MAXOPBLOCKS
      <4>1. T \cup {b} \in SUBSET wrote[p] /\ IsFiniteSet(wrote[p])
            /\ Cardinality(wrote[p]) <= OpWrites
        BY <2>2 DEF Room
      <4>2. Cardinality(T \cup {b}) = Used(p) + 1
        <5> HIDE DEF T
        <5> QED BY ZenonT(60), <3>1, <3>2, FS_AddElement
      <4>3. QED
        BY <4>1, <4>2, <3>2, FS_Subset, FS_CardinalityType
    <3>5. slot \in Reserved /\ slot \notin Reserved'
      <4>1. p \in Counted
        BY DEF LogWrite, Counted, InOp
      <4>2. QED
        BY <3>2, <3>3, <3>4, <4>1 DEF Reserved
    <3>6. Reserved' \subseteq Reserved
      BY <1>2, <2>2, <2>3, ReservedShrinks DEF Room, Counted, TypeOK
    <3>7. QED
      BY SMTT(60), <3>5, <3>6, ReservedBound, ReservedBoundPrime, FS_Subset
  <2>6. Len(lh') + Cardinality(Reserved') <= LOGSIZE
    BY SMTT(60), <2>2, <2>4, <2>5, ReservedBound, ReservedBoundPrime DEF Room, TypeOK, Absorb
  <2>7. QED
    BY SMTT(60), <1>2, <2>1, <2>2, <2>3, <2>6 DEF Room, TypeOK
<1>9. QED  BY ZenonT(60), <1>1, <1>3, <1>4, <1>5, <1>6, <1>7, <1>8

(* The effect of end_op(): the last call starts the commit, the others     *)
(* wake whoever waits for room.                                            *)
LEMMA EndOpStep ==
  ASSUME CInv, NEW p \in Procs, EndOp(p)
  PROVE  /\ p \in Counted /\ committing = FALSE
         /\ outstanding \in Nat \ {0}
         /\ outstanding = 1 => Counted = {p}
         /\ UNCHANGED <<disk, logd, hdr, buf, dirty, lh, held>>
         /\ outstanding' = outstanding - 1 /\ wrote' = [wrote EXCEPT ![p] = {}]
         /\ pc[p] = "op" /\ tail[p] = 1 /\ tail'[p] = 1
         /\ \A q \in Procs : q # p => tail'[q] = tail[q]
         /\ \A q \in Procs : q # p => pc'[q] = pc[q] \/ (pc[q] = "asleep" /\ pc'[q] = "begin")
         /\ outstanding = 1 => /\ committing' = TRUE
                               /\ pc'[p] = IF lh = <<>> THEN "done" ELSE "write_log"
         /\ outstanding # 1 => committing' = FALSE /\ pc'[p] = "idle"
         /\ pc'[p] \in {"done", "write_log", "idle"}
         /\ pc' \in [Procs -> Labels] /\ tail' \in [Procs -> Nat]
<1> USE LogAssumption DEF CInv, Control
<1>1. p \in Counted /\ committing = FALSE
  BY DEF EndOp, Counted, InOp, OneCommitter, TypeOK
<1>2. outstanding \in Nat \ {0}
  BY <1>1, CountedFinite, FS_EmptySet DEF Counting
<1>3. outstanding = 1 => Counted = {p}
  <2>1. SUFFICES ASSUME outstanding = 1 PROVE Counted = {p}
    OBVIOUS
  <2>2. PICK q : Counted = {q}
    BY ZenonT(60), <2>1, CountedFinite, FS_Singleton DEF Counting
  <2>3. QED
    BY <1>1, <2>2
<1>4. UNCHANGED <<disk, logd, hdr, buf, dirty, lh, held>>
      /\ outstanding' = outstanding - 1 /\ wrote' = [wrote EXCEPT ![p] = {}]
  BY DEF EndOp, durable, cache
<1>5. ASSUME outstanding = 1
      PROVE  committing' = TRUE /\ tail' = [tail EXCEPT ![p] = 1]
             /\ pc' = [pc EXCEPT ![p] = IF lh = <<>> THEN "done" ELSE "write_log"]
  BY <1>1, <1>5 DEF EndOp, Goto
<1>6. ASSUME outstanding # 1
      PROVE  committing' = FALSE /\ tail' = tail
             /\ pc' = [q \in Procs |-> IF q = p THEN "idle"
                                  ELSE IF pc[q] = "asleep" THEN "begin" ELSE pc[q]]
  BY <1>1, <1>6 DEF EndOp, WakeAnd
<1>a. /\ pc[p] = "op" /\ tail[p] = 1 /\ tail'[p] = 1
      /\ \A q \in Procs : q # p => tail'[q] = tail[q]
      /\ \A q \in Procs : q # p => pc'[q] = pc[q] \/ (pc[q] = "asleep" /\ pc'[q] = "begin")
  <2>1. pc[p] = "op" /\ tail[p] = 1
    BY DEF EndOp, TailInRange, Looping
  <2>2. CASE outstanding = 1
    BY SMTT(60), <1>5, <2>1, <2>2 DEF TypeOK
  <2>3. CASE outstanding # 1
    BY <1>6, <2>1, <2>3 DEF TypeOK
  <2>4. QED  BY <2>1, <2>2, <2>3
<1>b. outstanding = 1 => /\ committing' = TRUE
                         /\ pc'[p] = IF lh = <<>> THEN "done" ELSE "write_log"
  BY <1>5 DEF TypeOK
<1>c. outstanding # 1 => committing' = FALSE /\ pc'[p] = "idle"
  BY <1>6 DEF TypeOK
<1>d. pc'[p] \in {"done", "write_log", "idle"}
  BY <1>b, <1>c
<1>e. pc' \in [Procs -> Labels] /\ tail' \in [Procs -> Nat]
  <2>1. CASE outstanding = 1
    BY ZenonT(60), <1>5, <2>1 DEF TypeOK, Labels, Committer
  <2>2. CASE outstanding # 1
    BY <1>6, <2>2 DEF TypeOK, Labels
  <2>3. QED  BY <2>1, <2>2
<1> QED
  BY ZenonT(60), <1>1, <1>2, <1>3, <1>4, <1>a, <1>b, <1>c, <1>d, <1>e

LEMMA CInvEndOp ==
  ASSUME CInv, NEW p \in Procs, EndOp(p)
  PROVE  CInv'
<1> USE LogAssumption DEF CInv, Control
<1>1. p \in Counted /\ committing = FALSE
  BY EndOpStep
<1>2. outstanding \in Nat \ {0}
  BY EndOpStep
<1>3. outstanding = 1 => Counted = {p}
  BY EndOpStep
<1>4. UNCHANGED <<disk, logd, hdr, buf, dirty, lh, held>>
      /\ outstanding' = outstanding - 1 /\ wrote' = [wrote EXCEPT ![p] = {}]
  BY EndOpStep
<1>a. /\ pc[p] = "op" /\ tail[p] = 1 /\ tail'[p] = 1
      /\ \A q \in Procs : q # p => tail'[q] = tail[q]
      /\ \A q \in Procs : q # p => pc'[q] = pc[q] \/ (pc[q] = "asleep" /\ pc'[q] = "begin")
  BY EndOpStep
<1>b. outstanding = 1 => /\ committing' = TRUE
                         /\ pc'[p] = IF lh = <<>> THEN "done" ELSE "write_log"
  BY EndOpStep
<1>c. outstanding # 1 => committing' = FALSE /\ pc'[p] = "idle"
  BY EndOpStep
<1>d. pc'[p] \in {"done", "write_log", "idle"}
  BY EndOpStep
<1>7. Counted' = Counted \ {p}
  BY <1>a, <1>d DEF Counted, InOp
<1>8. Counting'
  BY ZenonT(60), <1>1, <1>2, <1>4, <1>7, CountedFinite, FS_RemoveElement DEF Counting
<1>9. TypeOK'
  <2>1. pc' \in [Procs -> Labels] /\ tail' \in [Procs -> Nat]
    BY EndOpStep
  <2>4. committing' \in BOOLEAN
    BY ZenonT(60), <1>b, <1>c
  <2>2. wrote' \in [Procs -> SUBSET Blocks] /\ outstanding' \in Nat
    BY <1>2, <1>4 DEF TypeOK
  <2>3. QED
    BY <1>4, <2>1, <2>2, <2>4 DEF TypeOK
<1>10. OneCommitter'
  <2>1. \A q \in Procs : q # p => pc'[q] \notin Committer
    BY SMTT(60), <1>1, <1>a DEF OneCommitter, Committer
  <2>2. CASE outstanding = 1
    BY SMTT(60), <1>3, <1>7, <1>b, <2>1, <2>2 DEF OneCommitter, Committer
  <2>3. CASE outstanding # 1
    BY SMTT(60), <1>c, <2>1, <2>3 DEF OneCommitter, Committer
  <2>4. QED
    BY <2>2, <2>3
<1>11. BootAlone'
  <2>1. \A q \in Procs : (pc'[q] \in Recovering <=> pc[q] \in Recovering)
                         /\ (pc'[q] = "off" <=> pc[q] = "off")
    BY SMTT(60), <1>a, <1>d DEF Recovering
  <2>2. Up' <=> Up
    BY SMTT(60), <2>1, LogAssumption DEF Up, Recovering
  <2>3. QED
    BY SMTT(60), <2>1, <2>2, LogAssumption DEF BootAlone, Recovering
<1>12. TailInRange'
  <2>0. lh # <<>> => 1 \in 1..Len(lh)
    BY SMTT(60) DEF TypeOK
  <2>1. \A q \in Procs : q # p =>
           /\ pc'[q] \in Looping \cup {"write_head"} => tail'[q] \in 1..Len(lh')
           /\ pc'[q] \notin Looping => tail'[q] = 1
    BY <1>4, <1>a DEF TailInRange, Looping
  <2>2. pc'[p] \in Looping \cup {"write_head"} => lh # <<>>
    BY SMTT(60), <1>b, <1>c DEF Looping
  <2>3. pc'[p] \in Looping \cup {"write_head"} => tail'[p] \in 1..Len(lh')
    BY <1>4, <1>a, <2>0, <2>2
  <2>4. QED
    BY ZenonT(60), <1>a, <2>1, <2>3 DEF TailInRange
<1>13. Holding'
  <2>1. held[p] = {}
    BY SMTT(60), <1>a DEF Holding
  <2>2. QED
    BY SMTT(60), <1>4, <1>a, <1>d, <2>1 DEF Holding
<1>14. Room'
  <2>1. held[p] = {}
    BY DEF EndOp, Holding
  <2>2. wrote'[p] = {} /\ \A q \in Procs : q # p => wrote'[q] = wrote[q]
    BY SMTT(60), <1>4 DEF TypeOK
  <2>3. IsFiniteSet(wrote'[p]) /\ Cardinality(wrote'[p]) <= OpWrites
    BY SMTT(60), <2>2, FS_EmptySet
  <2>4. Cardinality(Reserved') <= Cardinality(Reserved)
    BY SMTT(60), <1>4, <1>7, <2>2, ReservedShrinks DEF Room, Logged, Counted
  <2>5. Len(lh') + Cardinality(Reserved') <= LOGSIZE
    BY SMTT(60), <1>4, <2>4, ReservedBound, ReservedBoundPrime DEF Room, TypeOK
  <2>6. QED
    BY SMTT(60), <1>4, <1>7, <2>1, <2>2, <2>3, <2>5 DEF Room, Logged
<1>15. QED  BY ZenonT(60), <1>8, <1>9, <1>10, <1>11, <1>12, <1>13, <1>14

LEMMA CInvWriteLog ==
  ASSUME CInv, NEW p \in Procs, WriteLog(p)
  PROVE  CInv'
<1> USE LogAssumption DEF CInv, Control
<1>0. lh[tail[p]] \in Blocks /\ tail[p] \in 1..Len(lh)
  BY DEF WriteLog, TypeOK, TailInRange, Looping
<1>1. TypeOK'
  <2>1. disk' \in [Blocks -> Vals] /\ logd' \in [1..LOGSIZE -> Vals]
    BY ZenonT(60), <1>0 DEF WriteLog, Bread, TypeOK, durable
  <2>2. hdr' \in Seq(Blocks) /\ lh' \in Seq(Blocks)
    BY SMTT(60) DEF WriteLog, TypeOK, durable, log
  <2>3. buf' \in [Blocks -> Vals \cup {NoBuf}] /\ dirty' \subseteq Blocks
    BY SMTT(60), <1>0 DEF WriteLog, Bread, TypeOK, cache
  <2>4. outstanding' \in Nat
    BY SMTT(60) DEF WriteLog, TypeOK, log
  <2>5. committing' \in BOOLEAN
    BY SMTT(60) DEF WriteLog, TypeOK, log
  <2>6. pc' \in [Procs -> Labels]
    BY NextTailStep DEF WriteLog, Labels, Committer, Recovering
  <2>7. held' \in [Procs -> SUBSET Blocks] /\ wrote' \in [Procs -> SUBSET Blocks]
    BY SMTT(60) DEF WriteLog, TypeOK
  <2>8. tail' \in [Procs -> Nat]
    BY NextTailStep DEF WriteLog
  <2>9. QED  BY ZenonT(60), <2>1, <2>2, <2>3, <2>4, <2>5, <2>6, <2>7, <2>8 DEF TypeOK
<1>m. /\ pc[p] = "write_log" /\ pc'[p] \in {"write_log", "write_head"}
      /\ \A q \in Procs : q # p => pc'[q] = pc[q] /\ tail'[q] = tail[q]
  BY SMTT(60), NextTailStep DEF WriteLog
<1>k. lh' = lh /\ outstanding' = outstanding /\ committing' = committing /\ held' = held
  BY DEF WriteLog, log
<1>2. Counted' = Counted /\ outstanding' = outstanding
  BY SMTT(60), <1>m, <1>k DEF Counted, InOp
<1>3. Counting'
  BY <1>2, CountingKept
<1>4. OneCommitter'
  <2>1. \A q \in Procs : pc'[q] \in Committer <=> pc[q] \in Committer
    BY <1>m DEF Committer
  <2>2. QED
    BY SMTT(60), <1>2, <1>k, <2>1 DEF OneCommitter, Committer
<1>5. BootAlone'
  <2>1. \A q \in Procs : (pc'[q] \in Recovering <=> pc[q] \in Recovering)
                         /\ (pc'[q] = "off" <=> pc[q] = "off")
    BY SMTT(60), <1>m DEF Recovering
  <2>2. Up' <=> Up
    BY SMTT(60), <2>1 DEF Up, Recovering
  <2>3. QED
    BY SMTT(60), <2>1, <2>2 DEF BootAlone, Recovering
<1>6. TailInRange'
  <2>1. tail'[p] \in 1..Len(lh) /\ (pc'[p] = "write_head" => tail'[p] = 1)
    <3>1. CASE tail[p] < Len(lh)
      BY SMTT(60), <1>0, <1>m, <3>1, NextTailStep DEF WriteLog, TypeOK
    <3>2. CASE ~(tail[p] < Len(lh))
      BY SMTT(60), <1>0, <3>2, NextTailStep DEF WriteLog, TypeOK
    <3>3. QED  BY SMTT(60), <3>1, <3>2
  <2>2. QED
    BY SMTT(60), <1>m, <1>k, <2>1 DEF TailInRange, Looping
<1>7. Holding'
  BY SMTT(60), <1>m, <1>k DEF Holding
<1>8. Room'
  BY ZenonT(60), <1>2, RoomKept DEF WriteLog, Goto, NextTail, Bread, Room, durable, log
<1>9. QED  BY ZenonT(60), <1>1, <1>3, <1>4, <1>5, <1>6, <1>7, <1>8

LEMMA CInvWriteHead ==
  ASSUME CInv, NEW p \in Procs, WriteHead(p)
  PROVE  CInv'
<1> USE LogAssumption DEF CInv, Control
<1>1. TypeOK'
  BY SMTT(60) DEF WriteHead, Goto, TypeOK, Labels, Recovering, Committer, InOp, durable, cache, log
<1>2. Counted' = Counted /\ outstanding' = outstanding
  BY SMTT(60) DEF WriteHead, Goto, TypeOK, Counted, InOp, log
<1>3. Counting'
  BY <1>2, CountingKept
<1>4. OneCommitter'
  BY SMTT(60), <1>2 DEF WriteHead, Goto, TypeOK, OneCommitter, Committer, log
<1>5. BootAlone'
  BY SMTT(60) DEF WriteHead, Goto, TypeOK, BootAlone, Up, Recovering
<1>6. TailInRange'
  BY SMTT(60) DEF WriteHead, Goto, TypeOK, TailInRange, Looping, log
<1>7. Holding'
  BY SMTT(60) DEF WriteHead, Goto, TypeOK, Holding
<1>8. Room'
  BY SMTT(60), <1>2, RoomKept, ReservedBound DEF WriteHead, Room, TypeOK, log
<1>9. QED  BY ZenonT(60), <1>1, <1>3, <1>4, <1>5, <1>6, <1>7, <1>8
=============================================================================
