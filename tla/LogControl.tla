----------------------------- MODULE LogControl -----------------------------
(***************************************************************************)
(* The control invariant of Log, continued: install_trans(), recovery,     *)
(* the buffer cache and the crash keep it, so it holds throughout; and the *)
(* log never overflows.                                                    *)
(***************************************************************************)
EXTENDS LogInv

LEMMA CInvInstallTrans ==
  ASSUME CInv, NEW p \in Procs, InstallTrans(p)
  PROVE  CInv'
<1> USE LogAssumption DEF CInv, Control
<1>0. lh[tail[p]] \in Blocks /\ tail[p] \in 1..Len(lh)
  BY SMTT(60) DEF InstallTrans, TypeOK, TailInRange, Looping
<1>a. logd[tail[p]] \in Vals
  <2>1. tail[p] \in 1..LOGSIZE
    BY SMTT(60), <1>0, LogLen
  <2>2. QED
    BY <2>1 DEF TypeOK
<1>1. TypeOK'
  <2>1. disk' \in [Blocks -> Vals] /\ logd' \in [1..LOGSIZE -> Vals]
    BY ZenonT(60), <1>0, <1>a DEF InstallTrans, Bread, TypeOK, durable
  <2>2. hdr' \in Seq(Blocks) /\ lh' \in Seq(Blocks)
    BY SMTT(60) DEF InstallTrans, TypeOK, durable, log
  <2>3. buf' \in [Blocks -> Vals \cup {NoBuf}] /\ dirty' \subseteq Blocks
    BY SMTT(60), <1>0, <1>a DEF InstallTrans, Bread, TypeOK, cache
  <2>4. outstanding' \in Nat
    BY SMTT(60) DEF InstallTrans, TypeOK, log
  <2>5. committing' \in BOOLEAN
    BY SMTT(60) DEF InstallTrans, TypeOK, log
  <2>6. pc' \in [Procs -> Labels]
    BY NextTailStep DEF InstallTrans, Labels, Committer, Recovering
  <2>7. held' \in [Procs -> SUBSET Blocks] /\ wrote' \in [Procs -> SUBSET Blocks]
    BY SMTT(60) DEF InstallTrans, TypeOK
  <2>8. tail' \in [Procs -> Nat]
    BY NextTailStep DEF InstallTrans
  <2>9. QED  BY ZenonT(60), <2>1, <2>2, <2>3, <2>4, <2>5, <2>6, <2>7, <2>8 DEF TypeOK
<1>m. /\ \/ pc[p] = "install" /\ pc'[p] \in {"install", "clear"}
         \/ pc[p] = "recover_install" /\ pc'[p] \in {"recover_install", "recover_clear"}
      /\ \A q \in Procs : q # p => pc'[q] = pc[q] /\ tail'[q] = tail[q]
  BY SMTT(60), NextTailStep DEF InstallTrans
<1>k. lh' = lh /\ outstanding' = outstanding /\ committing' = committing /\ held' = held
  BY SMTT(60) DEF InstallTrans, log
<1>2. Counted' = Counted /\ outstanding' = outstanding
  BY SMTT(60), <1>m, <1>k DEF Counted, InOp
<1>3. Counting'
  BY <1>2, CountingKept
<1>4. OneCommitter'
  <2>1. \A q \in Procs : pc'[q] \in Committer <=> pc[q] \in Committer
    BY SMTT(60), <1>m DEF Committer
  <2>2. QED
    BY <1>2, <1>k, <2>1 DEF OneCommitter, Committer
<1>5. BootAlone'
  <2>1. \A q \in Procs : (pc'[q] \in Recovering <=> pc[q] \in Recovering)
                         /\ (pc'[q] = "off" <=> pc[q] = "off")
    BY SMTT(60), <1>m DEF Recovering
  <2>2. Up' <=> Up
    BY <2>1 DEF Up, Recovering
  <2>3. QED
    BY <2>1, <2>2 DEF BootAlone, Recovering
<1>6. TailInRange'
  <2>1. tail'[p] \in 1..Len(lh) /\ (pc'[p] \in {"clear", "recover_clear"} => tail'[p] = 1)
    <3>1. CASE tail[p] < Len(lh)
      BY SMTT(60), <1>0, <1>m, <3>1, NextTailStep DEF InstallTrans, TypeOK
    <3>2. CASE ~(tail[p] < Len(lh))
      BY SMTT(60), <1>0, <3>2, NextTailStep DEF InstallTrans, TypeOK
    <3>3. QED  BY SMTT(60), <3>1, <3>2
  <2>2. QED
    BY SMTT(60), <1>m, <1>k, <2>1 DEF TailInRange, Looping
<1>7. Holding'
  BY SMTT(60), <1>m, <1>k DEF Holding
<1>8. Room'
  BY ZenonT(60), <1>2, RoomKept DEF InstallTrans, Goto, NextTail, Room, durable, log
<1>9. QED  BY ZenonT(60), <1>1, <1>3, <1>4, <1>5, <1>6, <1>7, <1>8

LEMMA CInvEraseHead ==
  ASSUME CInv, NEW p \in Procs, EraseHead(p)
  PROVE  CInv'
<1> USE LogAssumption DEF CInv, Control
<1>0. \A q \in Procs : pc[q] \in Looping \cup {"write_head"} => q = p
  BY SMTT(60) DEF EraseHead, OneCommitter, BootAlone, Committer, Recovering, Looping, Up
<1>1. TypeOK'
  BY SMTT(60) DEF EraseHead, Goto, TypeOK, Labels, Recovering, Committer, InOp, durable, cache, log
<1>2. Counted' = Counted /\ outstanding' = outstanding
  BY SMTT(60) DEF EraseHead, Goto, TypeOK, Counted, InOp, log
<1>3. Counting'
  BY <1>2, CountingKept
<1>4. OneCommitter'
  BY SMTT(60), <1>2 DEF EraseHead, Goto, TypeOK, OneCommitter, Committer, log
<1>5. BootAlone'
  BY SMTT(60) DEF EraseHead, Goto, TypeOK, BootAlone, Up, Recovering
<1>6. TailInRange'
  BY SMTT(60), <1>0 DEF EraseHead, Goto, TypeOK, TailInRange, Looping, log
<1>7. Holding'
  BY SMTT(60) DEF EraseHead, Goto, TypeOK, Holding
<1>8. Room'
  <2>1. Counted = {}
    BY SMTT(60) DEF EraseHead, OneCommitter, Committer
  <2>2. \A q \in Procs : wrote[q] = {} /\ held[q] = {}
    BY <2>1 DEF Room
  <2>3. Len(lh') = 0 /\ Len(hdr') = 0
    BY SMTT(60) DEF EraseHead
  <2>4. QED
    BY SMTT(60), <1>2, <2>1, <2>2, <2>3, RoomNoCallsPrime DEF EraseHead
<1>9. QED  BY ZenonT(60), <1>1, <1>3, <1>4, <1>5, <1>6, <1>7, <1>8

LEMMA CInvCommitDone ==
  ASSUME CInv, NEW p \in Procs, CommitDone(p)
  PROVE  CInv'
<1> USE LogAssumption DEF CInv, Control
<1>1. TypeOK'
  BY ZenonT(60) DEF CommitDone, WakeAnd, TypeOK, Labels, Recovering, Committer, InOp, durable, cache, log
<1>2. Counted' = Counted /\ outstanding' = outstanding
  BY DEF CommitDone, WakeAnd, TypeOK, Counted, InOp, log
<1>3. Counting'
  BY <1>2, CountingKept
<1>4. OneCommitter'
  BY <1>2 DEF CommitDone, WakeAnd, TypeOK, OneCommitter, Committer, log
<1>5. BootAlone'
  BY SMTT(60) DEF CommitDone, WakeAnd, TypeOK, BootAlone, Up, Recovering
<1>6. TailInRange'
  BY SMTT(60) DEF CommitDone, WakeAnd, TypeOK, TailInRange, Looping, log
<1>7. Holding'
  BY SMTT(60) DEF CommitDone, WakeAnd, TypeOK, Holding
<1>8. Room'
  BY SMTT(60), <1>2, RoomKept DEF CommitDone, WakeAnd, Room, durable, log
<1>9. QED  BY ZenonT(60), <1>1, <1>3, <1>4, <1>5, <1>6, <1>7, <1>8

LEMMA CInvReadHead ==
  ASSUME CInv, NEW p \in Procs, ReadHead(p)
  PROVE  CInv'
<1> USE LogAssumption DEF CInv, Control
<1>0. \A q \in Procs : q # p => pc[q] = "off"
  BY SMTT(60) DEF ReadHead, BootAlone, Recovering, Up
<1>1. TypeOK'
  BY SMTT(60) DEF ReadHead, Goto, TypeOK, Labels, Recovering, Committer, InOp, durable, cache, log
<1>2. Counted' = Counted /\ outstanding' = outstanding
  BY SMTT(60), <1>0 DEF ReadHead, Goto, TypeOK, Counted, InOp, log
<1>3. Counting'
  BY <1>2, CountingKept
<1>4. OneCommitter'
  BY SMTT(60), <1>2, <1>0 DEF ReadHead, Goto, TypeOK, OneCommitter, Committer, log
<1>5. BootAlone'
  BY SMTT(60) DEF ReadHead, Goto, TypeOK, BootAlone, Up, Recovering
<1>6. TailInRange'
  BY SMTT(60), <1>0 DEF ReadHead, Goto, TypeOK, TailInRange, Looping, log
<1>7. Holding'
  BY SMTT(60), <1>0 DEF ReadHead, Goto, TypeOK, Holding
<1>8. Room'
  <2>1. Counted = {}
    BY SMTT(60), <1>0 DEF ReadHead, Counted, InOp
  <2>2. \A q \in Procs : wrote[q] = {} /\ held[q] = {}
    BY <2>1 DEF Room
  <2>3. lh' = hdr /\ hdr' = hdr /\ Len(hdr) \in Nat /\ Len(hdr) <= LOGSIZE
    BY SMTT(60) DEF ReadHead, Room, durable, TypeOK
  <2>4. QED
    BY SMTT(60), <1>2, <2>1, <2>2, <2>3, RoomNoCallsPrime DEF ReadHead
<1>9. QED  BY ZenonT(60), <1>1, <1>3, <1>4, <1>5, <1>6, <1>7, <1>8

LEMMA CInvRecoverClear ==
  ASSUME CInv, NEW p \in Procs, RecoverClear(p)
  PROVE  CInv'
<1> USE LogAssumption DEF CInv, Control
<1>0. \A q \in Procs : q # p => pc[q] = "off"
  BY SMTT(60) DEF RecoverClear, BootAlone, Recovering, Up
<1>1. TypeOK'
  BY SMTT(60) DEF RecoverClear, TypeOK, Labels, Recovering, Committer, InOp, durable, cache, log
<1>2. Counted' = Counted /\ outstanding' = outstanding
  BY ZenonT(60), <1>0 DEF RecoverClear, TypeOK, Counted, InOp, log
<1>3. Counting'
  BY <1>2, CountingKept
<1>4. OneCommitter'
  BY ZenonT(60), <1>2, <1>0 DEF RecoverClear, TypeOK, OneCommitter, Committer, log
<1>5. BootAlone'
  BY DEF RecoverClear, TypeOK, BootAlone, Up, Recovering
<1>6. TailInRange'
  BY ZenonT(60), <1>0 DEF RecoverClear, TypeOK, TailInRange, Looping, log
<1>7. Holding'
  BY ZenonT(60), <1>0 DEF RecoverClear, TypeOK, Holding
<1>8. Room'
  <2>1. Counted = {}
    BY SMTT(60), <1>0 DEF RecoverClear, Counted, InOp
  <2>2. \A q \in Procs : wrote[q] = {} /\ held[q] = {}
    BY <2>1 DEF Room
  <2>3. Len(lh') = 0 /\ Len(hdr') = 0
    BY DEF RecoverClear
  <2>4. QED
    <3>1. Counted' = {} /\ UNCHANGED <<wrote, held>>
      BY SMTT(60), <1>2, <2>1 DEF RecoverClear
    <3>2. \A q \in Procs : wrote'[q] = {} /\ held'[q] = {}
      BY <2>2, <3>1
    <3>3. 0 <= LOGSIZE
      BY LogAssumption
    <3>4. QED
      BY SMTT(60), <2>3, <3>1, <3>2, <3>3, RoomNoCallsPrime
<1>9. QED  BY ZenonT(60), <1>1, <1>3, <1>4, <1>5, <1>6, <1>7, <1>8

LEMMA CInvReadBlock ==
  ASSUME CInv, NEW b \in Blocks, ReadBlock(b)
  PROVE  CInv'
<1> USE LogAssumption DEF CInv, Control
<1>1. TypeOK'
  BY SMTT(60) DEF ReadBlock, Bread, TypeOK, Labels, Recovering, Committer, InOp, durable, cache, log
<1>2. Counted' = Counted /\ outstanding' = outstanding
  BY DEF ReadBlock, Bread, TypeOK, Counted, InOp, log
<1>3. Counting'
  BY SMTT(60), <1>2, CountingKept
<1>4. OneCommitter'
  BY SMTT(60), <1>2 DEF ReadBlock, Bread, TypeOK, OneCommitter, Committer, log
<1>5. BootAlone'
  BY SMTT(60) DEF ReadBlock, Bread, TypeOK, BootAlone, Up, Recovering
<1>6. TailInRange'
  BY SMTT(60) DEF ReadBlock, Bread, TypeOK, TailInRange, Looping, log
<1>7. Holding'
  BY SMTT(60) DEF ReadBlock, Bread, TypeOK, Holding
<1>8. Room'
  BY SMTT(60), <1>2, RoomKept DEF ReadBlock, Bread, Room, durable, log
<1>9. QED  BY ZenonT(60), <1>1, <1>3, <1>4, <1>5, <1>6, <1>7, <1>8

LEMMA CInvRecycle ==
  ASSUME CInv, NEW b \in Blocks, Recycle(b)
  PROVE  CInv'
<1> USE LogAssumption DEF CInv, Control
<1>1. TypeOK'
  BY SMTT(60) DEF Recycle, TypeOK, Labels, Recovering, Committer, InOp, durable, cache, log
<1>2. Counted' = Counted /\ outstanding' = outstanding
  BY SMTT(60) DEF Recycle, TypeOK, Counted, InOp, log
<1>3. Counting'
  BY SMTT(60), <1>2, CountingKept
<1>4. OneCommitter'
  BY SMTT(60), <1>2 DEF Recycle, TypeOK, OneCommitter, Committer, log
<1>5. BootAlone'
  BY DEF Recycle, TypeOK, BootAlone, Up, Recovering
<1>6. TailInRange'
  BY SMTT(60) DEF Recycle, TypeOK, TailInRange, Looping, log
<1>7. Holding'
  BY SMTT(60) DEF Recycle, TypeOK, Holding
<1>8. Room'
  BY ZenonT(60), <1>2, RoomKept DEF Recycle, Room, durable, log
<1>9. QED  BY ZenonT(60), <1>1, <1>3, <1>4, <1>5, <1>6, <1>7, <1>8

LEMMA CInvCrash ==
  ASSUME CInv, Crash
  PROVE  CInv'
<1> USE LogAssumption DEF CInv, Control
<1>1. TypeOK'
  <2>1. disk' \in [Blocks -> Vals] /\ logd' \in [1..LOGSIZE -> Vals]
    BY SMTT(60) DEF Crash, Boot, TypeOK, Labels, Recovering, Committer, InOp, durable, cache, log
  <2>2. hdr' \in Seq(Blocks) /\ lh' \in Seq(Blocks)
    BY SMTT(60) DEF Crash, Boot, TypeOK, Labels, Recovering, Committer, InOp, durable, cache, log
  <2>3. buf' \in [Blocks -> Vals \cup {NoBuf}] /\ dirty' \subseteq Blocks
    BY SMTT(60) DEF Crash, Boot, TypeOK, Labels, Recovering, Committer, InOp, durable, cache, log
  <2>4. outstanding' \in Nat
    BY SMTT(60) DEF Crash, Boot, TypeOK, Labels, Recovering, Committer, InOp, durable, cache, log
  <2>5. committing' \in BOOLEAN
    BY ZenonT(60) DEF Crash, Boot, TypeOK, Labels, Recovering, Committer, InOp, durable, cache, log
  <2>6. pc' \in [Procs -> Labels]
    BY DEF Crash, Boot, TypeOK, Labels, Recovering, Committer, InOp, durable, cache, log
  <2>7. held' \in [Procs -> SUBSET Blocks] /\ wrote' \in [Procs -> SUBSET Blocks]
    BY DEF Crash, Boot, TypeOK, Labels, Recovering, Committer, InOp, durable, cache, log
  <2>8. tail' \in [Procs -> Nat]
    BY DEF Crash, Boot, TypeOK, Labels, Recovering, Committer, InOp, durable, cache, log
  <2>9. QED  BY ZenonT(60), <2>1, <2>2, <2>3, <2>4, <2>5, <2>6, <2>7, <2>8 DEF TypeOK
<1>2. Counted' = {}
  BY DEF Crash, Boot, Counted, InOp
<1>3. Counting'
  BY SMTT(60), <1>2, FS_EmptySet DEF Crash, Counting
<1>4. OneCommitter'
  BY SMTT(60), <1>2 DEF Crash, Boot, TypeOK, OneCommitter, Committer, log
<1>5. BootAlone'
  BY SMTT(60) DEF Crash, Boot, TypeOK, BootAlone, Up, Recovering
<1>6. TailInRange'
  BY SMTT(60) DEF Crash, Boot, TypeOK, TailInRange, Looping, log
<1>7. Holding'
  BY SMTT(60) DEF Crash, Boot, TypeOK, Holding
<1>8. Room'
  <2>1. Len(lh') = 0 /\ hdr' = hdr
    BY DEF Crash, durable
  <2>2. \A q \in Procs : wrote'[q] = {} /\ held'[q] = {}
    BY SMTT(60) DEF Crash
  <2>3. Len(hdr') <= LOGSIZE /\ 0 <= LOGSIZE
    BY SMTT(60), <2>1, LogAssumption DEF Room
  <2>4. QED
    BY SMTT(60), <1>2, <2>1, <2>2, <2>3, RoomNoCallsPrime
<1>9. QED  BY ZenonT(60), <1>1, <1>3, <1>4, <1>5, <1>6, <1>7, <1>8

LEMMA CInvStutter ==
  ASSUME CInv, UNCHANGED vars
  PROVE  CInv'
<1> USE LogAssumption DEF CInv, Control
<1>1. TypeOK'
  BY DEF vars, TypeOK, Labels, Recovering, Committer, InOp, durable, cache, log
<1>2. Counted' = Counted /\ outstanding' = outstanding
  BY DEF vars, TypeOK, Counted, InOp, log
<1>3. Counting'
  BY SMTT(60), <1>2, CountingKept
<1>4. OneCommitter'
  BY SMTT(60), <1>2 DEF vars, TypeOK, OneCommitter, Committer, log
<1>5. BootAlone'
  BY SMTT(60) DEF vars, TypeOK, BootAlone, Up, Recovering
<1>6. TailInRange'
  BY SMTT(60) DEF vars, TypeOK, TailInRange, Looping, log
<1>7. Holding'
  BY SMTT(60) DEF vars, TypeOK, Holding
<1>8. Room'
  BY ZenonT(60), <1>2, RoomKept DEF vars, Room, durable, log
<1>9. QED  BY ZenonT(60), <1>1, <1>3, <1>4, <1>5, <1>6, <1>7, <1>8

LEMMA CInvStep == CInv /\ [Next]_vars => CInv'
BY CInvBeginOpSleep, CInvBeginOp, CInvLogWriteCheck, CInvLogWrite, CInvEndOp,
   CInvWriteLog, CInvWriteHead, CInvInstallTrans, CInvEraseHead,
   CInvCommitDone, CInvReadHead, CInvRecoverClear, CInvReadBlock,
   CInvRecycle, CInvCrash, CInvStutter DEF Next, Step

(* In every reachable state of log.c the variables have their types.       *)
THEOREM TypeCorrect == Spec => []TypeOK
<1>1. CInv => TypeOK
  BY SMTT(60) DEF CInv
<1>2. QED
  BY <1>1, CInvInit, CInvStep, PTL DEF Spec

(***************************************************************************)
(* The log never overflows and none of its panics is reached.              *)
(***************************************************************************)
(* What a call reserves beyond what it writes is never used up. *)
Slack ==
  /\ Len(lh) + MAXOPBLOCKS <= LOGSIZE + OpWrites
  /\ Len(hdr) + MAXOPBLOCKS <= LOGSIZE + OpWrites

(* The geometry for which log_write()'s test cannot fail, not even when a  *)
(* call writes a block again: 30 blocks on disk, 10 reserved by a call and *)
(* at most 8 written.                                                      *)
RoomForCalls ==
  OpWrites < MAXOPBLOCKS /\ LOGSIZE + OpWrites + 1 < LogBlocks + MAXOPBLOCKS

LEMMA SlackStep == CInv /\ CInv' /\ Slack /\ [Next]_vars => Slack'
<1> SUFFICES ASSUME CInv, CInv', Slack, [Next]_vars PROVE Slack'
  OBVIOUS
<1> USE LogAssumption DEF CInv, Slack
<1>1. ASSUME NEW p \in Procs, LogWrite(p) PROVE Slack'
  <2>1. p \in Counted' /\ hdr' = hdr
    BY ZenonT(60), <1>1 DEF LogWrite, Goto, Counted, InOp, TypeOK, durable
  <2>2. Used(p)' \in Nat /\ Used(p)' <= OpWrites
    <3>1. IsFiniteSet(wrote'[p]) /\ Cardinality(wrote'[p]) <= OpWrites
      BY DEF Room
    <3>2. {b \in wrote'[p] : Logged(b)'} \in SUBSET wrote'[p]
      OBVIOUS
    <3>3. QED
      BY SMTT(60), <3>1, <3>2, FS_Subset, FS_CardinalityType DEF Used
  <2> DEFINE Rest == {p} \X ((OpWrites + 1)..MAXOPBLOCKS)
  <2>3. Rest \in SUBSET Reserved'
    BY <2>1, <2>2 DEF Reserved
  <2>4. Cardinality(Rest) = MAXOPBLOCKS - OpWrites
    <3>1. IsFiniteSet({p}) /\ Cardinality({p}) = 1
      BY ZenonT(60), FS_Singleton
    <3>2. IsFiniteSet((OpWrites + 1)..MAXOPBLOCKS)
          /\ Cardinality((OpWrites + 1)..MAXOPBLOCKS) = MAXOPBLOCKS - OpWrites
      BY FS_Interval
    <3>3. Cardinality(Rest) = Cardinality({p}) * Cardinality((OpWrites + 1)..MAXOPBLOCKS)
      BY ZenonT(60), <3>1, <3>2, FS_Product, Zenon
    <3>4. 1 * (MAXOPBLOCKS - OpWrites) = MAXOPBLOCKS - OpWrites
      OBVIOUS
    <3>5. QED
      BY ZenonT(60), <3>1, <3>2, <3>3, <3>4, Zenon
  <2>5. Cardinality(Rest) <= Cardinality(Reserved')
    BY <2>3, ReservedBoundPrime, FS_Subset
  <2> HIDE DEF Rest
  <2>6. Len(lh') + Cardinality(Reserved') <= LOGSIZE /\ Cardinality(Reserved') \in Nat
    BY SMTT(60), ReservedBoundPrime DEF Room
  <2>7. Len(lh') \in Nat /\ Len(hdr') = Len(hdr)
    BY SMTT(60), <2>1 DEF TypeOK
  <2>8. QED
    BY SMTT(60), <2>4, <2>5, <2>6, <2>7
<1>2. ASSUME NEW p \in Procs, WriteHead(p) PROVE Slack'
  BY SMTT(60), <1>2 DEF WriteHead, log
<1>3. ASSUME NEW p \in Procs, EraseHead(p) \/ RecoverClear(p) PROVE Slack'
  <2>1. Len(lh') = 0 /\ Len(hdr') = 0
    BY SMTT(60), <1>3 DEF EraseHead, RecoverClear
  <2>2. QED
    BY SMTT(60), <2>1
<1>4. ASSUME NEW p \in Procs, ReadHead(p) PROVE Slack'
  BY <1>4 DEF ReadHead, durable
<1>5. ASSUME Crash PROVE Slack'
  <2>1. Len(lh') = 0 /\ hdr' = hdr
    BY SMTT(60), <1>5 DEF Crash, durable
  <2>2. QED
    BY SMTT(60), <2>1
<1>6. ASSUME UNCHANGED <<lh, hdr>> PROVE Slack'
  BY SMTT(60), <1>6
<1>7. QED
  BY ZenonT(60), <1>1, <1>2, <1>3, <1>4, <1>5, <1>6
  DEF Next, Step, BeginOpSleep, BeginOp, LogWriteCheck, EndOp, WriteLog, InstallTrans,
      CommitDone, ReadBlock, Recycle, vars, durable, log

LEMMA NoPanicStep ==
  ASSUME RoomForCalls
  PROVE  CInv /\ Slack /\ NoPanic /\ [Next]_vars => NoPanic'
<1> SUFFICES ASSUME CInv, Slack, NoPanic, [Next]_vars PROVE NoPanic'
  BY SMTT(60)
<1> USE LogAssumption DEF CInv, NoPanic
<1>1. ASSUME NEW p \in Procs, NEW b \in Blocks, NEW v \in Vals, LogWriteCheck(p, b, v)
      PROVE  NoPanic'
  <2>1. ~TooBig
    BY SMTT(60) DEF TooBig, Slack, RoomForCalls, TypeOK
  <2>2. p \in Counted
    BY <1>1 DEF LogWriteCheck, Counted, InOp
  <2>3. ~(outstanding < 1)
    BY SMTT(60), <2>2, CountedFinite, FS_EmptySet DEF Control, Counting
  <2>4. QED
    BY SMTT(60), <1>1, <2>1, <2>3 DEF LogWriteCheck, Goto, TypeOK
<1>2. ASSUME NEW p \in Procs, EndOp(p) PROVE NoPanic'
  <2>1. ~committing
    BY SMTT(60), <1>2 DEF EndOp, Control, OneCommitter, Counted, InOp
  <2>2. QED
    BY SMTT(60), <1>2, <2>1 DEF EndOp, Goto, WakeAnd, TypeOK
<1>3. ASSUME NEW p \in Procs, BeginOpSleep(p) \/ BeginOp(p) \/ LogWrite(p) PROVE NoPanic'
  BY SMTT(60), <1>3 DEF BeginOpSleep, BeginOp, LogWrite, Goto, TypeOK
<1>4. ASSUME NEW p \in Procs,
             WriteLog(p) \/ WriteHead(p) \/ InstallTrans(p) \/ EraseHead(p) \/ CommitDone(p)
      PROVE  NoPanic'
  BY SMTT(60), <1>4 DEF WriteLog, WriteHead, InstallTrans, EraseHead, CommitDone, NextTail, Goto,
              WakeAnd, TypeOK
<1>5. ASSUME NEW p \in Procs, ReadHead(p) \/ RecoverClear(p) PROVE NoPanic'
  BY <1>5 DEF ReadHead, RecoverClear, Goto, TypeOK
<1>6. ASSUME Crash PROVE NoPanic'
  BY <1>6 DEF Crash, Boot
<1>7. ASSUME UNCHANGED pc PROVE NoPanic'
  BY <1>7
<1>8. QED
  BY SMTT(60), <1>1, <1>2, <1>3, <1>4, <1>5, <1>6, <1>7 DEF Next, Step, ReadBlock, Recycle, vars

LEMMA SlackInit == Init => Slack /\ NoPanic
<1> SUFFICES ASSUME Init PROVE Slack /\ NoPanic
  OBVIOUS
<1>1. Len(lh) = 0 /\ Len(hdr) = 0
  BY DEF Init
<1>2. Slack
  BY <1>1, LogAssumption DEF Slack
<1>3. NoPanic
  BY DEF Init, Boot, NoPanic
<1>4. QED
  BY <1>2, <1>3

(* With room for what the calls write, the header never overruns its array *)
(* or the log on disk.                                                     *)
THEOREM LogFitsTheorem == ASSUME RoomForCalls PROVE Spec => []LogFits
<1>1. CInv /\ Slack => LogFits
  BY LogAssumption DEF CInv, Slack, LogFits, RoomForCalls, TypeOK
<1>2. QED
  BY <1>1, CInvInit, SlackInit, CInvStep, SlackStep, PTL DEF Spec

(* ... and no call admitted by begin_op() ends in a panic of log.c.        *)
THEOREM NoPanicTheorem == ASSUME RoomForCalls PROVE Spec => []NoPanic
<1>1. CInv /\ Slack /\ NoPanic /\ [Next]_vars => NoPanic'
  BY NoPanicStep
<1>2. QED
  BY <1>1, CInvInit, SlackInit, CInvStep, SlackStep, PTL DEF Spec
=============================================================================
