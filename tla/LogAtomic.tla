------------------------------ MODULE LogAtomic ------------------------------
(***************************************************************************)
(* Log implements TxnDisk: the proof that a crash at any moment keeps the  *)
(* effect of whole groups of file-system calls; and no process waits for   *)
(* log space that nobody will announce.                                    *)
(***************************************************************************)
EXTENDS LogDurable

(***************************************************************************)
(* Refinement.                                                             *)
(***************************************************************************)
LEMMA RecoveredAt ==
  ASSUME CInv, DInv
  PROVE  /\ \A i \in 1..Len(hdr) : Recovered[hdr[i]] = logd[i]
         /\ \A b \in Blocks : (\A i \in 1..Len(hdr) : hdr[i] # b) => Recovered[b] = disk[b]
<1>1. ASSUME NEW i \in 1..Len(hdr) PROVE Recovered[hdr[i]] = logd[i]
  <2>1. hdr[i] \in Blocks
    BY DEF CInv, TypeOK
  <2>2. (CHOOSE j \in 1..Len(hdr) : hdr[j] = hdr[i]) = i
    BY DEF DInv, HeaderOnDisk
  <2>3. QED
    BY <2>1, <2>2 DEF Recovered
<1>2. QED
  BY ZenonT(60), <1>1 DEF Recovered

LEMMA RecoveredKept == UNCHANGED durable => Recovered' = Recovered
BY DEF Recovered, durable

(* With an empty header recovery leaves the home blocks as they are. *)
LEMMA RecoveredIsDisk == (hdr = <<>>) => Recovered = [b \in Blocks |-> disk[b]]
BY DEF Recovered

LEMMA RecoveredIsDiskPrime == (hdr' = <<>>) => Recovered' = [b \in Blocks |-> disk'[b]]
BY DEF Recovered

LEMMA InitRefines == Init => Txn!Init
<1> SUFFICES ASSUME Init PROVE Txn!Init
  OBVIOUS
<1>1. Recovered = [b \in Blocks |-> InitVal]
  BY RecoveredIsDisk DEF Init
<1>2. Contents = Recovered
  BY LogAssumption DEF Init, Contents, Up, Boot, Recovering
<1>3. Counted = {}
  BY SMTT(60) DEF Init, Counted, Boot, InOp
<1>4. QED
  BY <1>1, <1>2, <1>3 DEF Txn!Init

LEMMA RefinesBeginOpSleep ==
  ASSUME CInv, CInv', DInv, DInv', NEW p \in Procs, BeginOpSleep(p)
  PROVE  UNCHANGED Txn!vars
<1> USE LogAssumption
<1>1. Counted' = Counted
  BY SMTT(60) DEF BeginOpSleep, Goto, Counted, InOp, CInv, TypeOK
<1>2. Contents' = Contents
  BY SMTT(60), RecoveredKept
  DEF BeginOpSleep, Goto, CInv, TypeOK, Contents, Bread, Up, Recovering, durable, cache
<1>3. QED
  BY SMTT(60), <1>1, <1>2, RecoveredKept DEF BeginOpSleep, Txn!vars

LEMMA RefinesBeginOp ==
  ASSUME CInv, CInv', DInv, DInv', NEW p \in Procs, BeginOp(p)
  PROVE  Txn!Begin(p)
<1> USE LogAssumption
<1>1. Counted' = Counted \cup {p} /\ p \notin Counted
  BY SMTT(60) DEF BeginOp, Goto, Counted, InOp, CInv, TypeOK
<1>2. Contents' = Contents
  BY SMTT(60), RecoveredKept
  DEF BeginOp, Goto, CInv, TypeOK, Contents, Bread, Up, Recovering, durable, cache
<1>3. QED
  BY SMTT(60), <1>1, <1>2, RecoveredKept DEF BeginOp, Txn!Begin

LEMMA RefinesLogWriteCheck ==
  ASSUME CInv, CInv', DInv, DInv', NEW p \in Procs, NEW b \in Blocks, NEW v \in Vals, LogWriteCheck(p, b, v)
  PROVE  Txn!Write(p, b, v)
<1> USE LogAssumption
<1>1. Counted' = Counted /\ p \in Counted
  BY ZenonT(60) DEF LogWriteCheck, Goto, Counted, InOp, CInv, TypeOK
<1>2. Up /\ Up'
  BY SMTT(60), CallersOnly DEF LogWriteCheck, Goto, InOp, Up, Recovering, CInv, TypeOK
<1>3. Contents' = [Contents EXCEPT ![b] = v]
  BY ZenonT(60), <1>2 DEF LogWriteCheck, CInv, TypeOK, Contents, Bread, durable
<1>4. QED
  BY ZenonT(60), <1>1, <1>3, RecoveredKept DEF LogWriteCheck, Txn!Write

LEMMA RefinesLogWrite ==
  ASSUME CInv, CInv', DInv, DInv', NEW p \in Procs, LogWrite(p)
  PROVE  UNCHANGED Txn!vars
<1> USE LogAssumption
<1>1. Counted' = Counted
  BY SMTT(60) DEF LogWrite, Goto, Counted, InOp, CInv, TypeOK
<1>2. Contents' = Contents
  BY SMTT(60), RecoveredKept
  DEF LogWrite, Goto, CInv, TypeOK, Contents, Bread, Up, Recovering, durable, cache
<1>3. QED
  BY ZenonT(60), <1>1, <1>2, RecoveredKept DEF LogWrite, Txn!vars

LEMMA RefinesEndOp ==
  ASSUME CInv, CInv', DInv, DInv', NEW p \in Procs, EndOp(p)
  PROVE  Txn!End(p)
<1> USE LogAssumption
<1>1. p \in Counted /\ ~committing /\ Up
  BY SMTT(60), CallersOnly DEF EndOp, Counted, InOp
<1>2. Counted' = Counted \ {p} /\ Up'
  BY SMTT(60), <1>1 DEF EndOp, Goto, WakeAnd, Counted, InOp, Up, Recovering, CInv, TypeOK
<1>3. Contents' = Contents
  BY ZenonT(60), <1>1, <1>2 DEF EndOp, Contents, Bread, durable, cache
<1>4. QED
  BY SMTT(60), <1>1, <1>2, <1>3, RecoveredKept DEF EndOp, Txn!End

LEMMA RefinesWriteLog ==
  ASSUME CInv, CInv', DInv, DInv', NEW p \in Procs, WriteLog(p)
  PROVE  UNCHANGED Txn!vars
<1> USE LogAssumption
<1>1. Counted' = Counted /\ Up /\ Up' /\ hdr' = hdr /\ disk' = disk /\ hdr = <<>>
  <2>1. hdr = <<>> /\ Up
    BY ZenonT(60), CommitterAlone DEF WriteLog, Committer, DInv, HeaderOnDisk
  <2>2. QED
    BY SMTT(60), <2>1
    DEF WriteLog, NextTail, Goto, Counted, InOp, Up, Recovering, CInv, TypeOK
<1>2. Recovered' = Recovered
  BY SMTT(60), <1>1 DEF Recovered
<1>3. lh[tail[p]] \in Blocks
  BY SMTT(60) DEF WriteLog, CInv, Control, TypeOK, TailInRange, Looping
<1>4. Contents' = Contents
  BY SMTT(60), <1>1, <1>3 DEF WriteLog, Contents, Bread, CInv, TypeOK
<1>5. QED
  BY SMTT(60), <1>1, <1>2, <1>4 DEF Txn!vars

LEMMA RefinesWriteHead ==
  ASSUME CInv, CInv', DInv, DInv', NEW p \in Procs, WriteHead(p)
  PROVE  Txn!Commit
<1> USE LogAssumption
<1>1. Counted = {} /\ Counted' = {} /\ Up /\ Up' /\ (\A b \in Blocks : ~Locked(b))
  BY ZenonT(60), CommitterAlone
  DEF WriteHead, Goto, Counted, InOp, Committer, Up, Recovering, CInv, TypeOK
<1>2. hdr' = lh /\ UNCHANGED <<disk, logd, buf, dirty, lh>>
  BY SMTT(60) DEF WriteHead, cache, log
<1>3. Contents' = Contents
  BY SMTT(60), <1>1, <1>2 DEF Contents, Bread
<1>4. \A b \in Blocks : Recovered'[b] = Bread(b)
  <2> SUFFICES ASSUME NEW b \in Blocks PROVE Recovered'[b] = Bread(b)
    BY SMTT(60)
  <2>1. CASE \E i \in 1..Len(lh) : lh[i] = b
    <3>1. PICK i \in 1..Len(lh) : lh[i] = b
      BY <2>1
    <3>2. (CHOOSE j \in 1..Len(lh) : lh[j] = b) = i
      BY <3>1 DEF DInv, LoggedOnce
    <3>3. logd[i] = Bread(b)
      BY <3>1 DEF WriteHead, DInv, Copied
    <3>4. QED
      BY ZenonT(60), <1>2, <3>1, <3>2, <3>3 DEF Recovered
  <2>2. CASE ~ \E i \in 1..Len(lh) : lh[i] = b
    <3>1. b \notin dirty
      BY SMTT(60), <2>2 DEF DInv, DirtyLogged, Logged
    <3>2. disk[b] = Bread(b)
      BY SMTT(60), <1>1, <3>1 DEF DInv, CacheClean, Bread
    <3>3. QED
      BY SMTT(60), <1>2, <2>2, <3>2 DEF Recovered
  <2>3. QED  BY <2>1, <2>2
<1>5. Recovered' = Contents
  BY <1>1, <1>4 DEF Recovered, Contents
<1>6. QED
  BY SMTT(60), <1>1, <1>3, <1>5 DEF Txn!Commit

LEMMA RefinesInstallTrans ==
  ASSUME CInv, CInv', DInv, DInv', NEW p \in Procs, InstallTrans(p)
  PROVE  UNCHANGED Txn!vars
<1> USE LogAssumption
<1>1. hdr = lh /\ hdr' = hdr /\ logd' = logd /\ tail[p] \in 1..Len(lh)
  BY SMTT(60) DEF InstallTrans, DInv, HeaderOnDisk, CInv, Control, TailInRange, Looping
<1>2. disk' = [disk EXCEPT ![hdr[tail[p]]] = logd[tail[p]]]
      /\ buf' = [buf EXCEPT ![hdr[tail[p]]] = logd[tail[p]]]
  BY ZenonT(60), <1>1 DEF InstallTrans
<1>3. Recovered' = Recovered
  <2>1. \A b \in Blocks : (\A i \in 1..Len(hdr) : hdr[i] # b) => disk'[b] = disk[b]
    BY SMTT(60), <1>1, <1>2 DEF CInv, TypeOK
  <2>2. QED
    BY ZenonT(60), <1>1, <2>1 DEF Recovered
<1>4. Counted' = Counted /\ (Up' <=> Up)
  BY SMTT(60)
  DEF InstallTrans, NextTail, Goto, Counted, InOp, Up, Recovering, CInv, TypeOK
<1>5. Contents' = Contents
  <2>1. CASE ~Up
    BY SMTT(60), <1>3, <1>4, <2>1 DEF Contents
  <2>2. CASE Up
    <3>1. pc[p] = "install"
      BY SMTT(60), <2>2, RecovererAlone DEF InstallTrans, Recovering
    <3>2. logd[tail[p]] = Bread(hdr[tail[p]])
      BY SMTT(60), <1>1, <3>1 DEF DInv, Copied
    <3>3. logd[tail[p]] \in Vals
      <4>1. hdr[tail[p]] \in Blocks
        BY SMTT(60), <1>1 DEF CInv, TypeOK
      <4>2. QED
        BY SMTT(60), <3>2, <4>1 DEF Bread, CInv, TypeOK
    <3>4. \A b \in Blocks : Bread(b)' = Bread(b)
      BY SMTT(60), <1>2, <3>2, <3>3 DEF Bread, CInv, TypeOK
    <3>5. QED
      BY SMTT(60), <1>4, <2>2, <3>4 DEF Contents
  <2>3. QED  BY SMTT(60), <2>1, <2>2
<1>6. QED
  BY SMTT(60), <1>3, <1>4, <1>5 DEF Txn!vars

LEMMA RefinesEraseHead ==
  ASSUME CInv, CInv', DInv, DInv', NEW p \in Procs, EraseHead(p)
  PROVE  UNCHANGED Txn!vars
<1> USE LogAssumption
<1>1. Counted' = Counted /\ Up /\ Up' /\ hdr' = <<>> /\ hdr = lh /\ UNCHANGED <<disk, buf>>
  <2>1. Up /\ hdr = lh
    BY SMTT(60), CommitterAlone DEF EraseHead, Committer, DInv, HeaderOnDisk
  <2>2. QED
    BY SMTT(60), <2>1
    DEF EraseHead, Goto, Counted, InOp, Up, Recovering, CInv, TypeOK, cache
<1>2. \A b \in Blocks : Recovered[b] = disk[b]
  BY SMTT(60), <1>1, RecoveredAt DEF EraseHead, DInv, Installed
<1>3. Recovered' = Recovered
  <2>1. Recovered = [b \in Blocks |-> disk[b]]
    BY ZenonT(60), <1>2 DEF Recovered
  <2>2. Recovered' = [b \in Blocks |-> disk[b]]
    BY <1>1, RecoveredIsDiskPrime
  <2>3. QED  BY SMTT(60), <2>1, <2>2
<1>4. Contents' = Contents
  BY <1>1 DEF Contents, Bread
<1>5. QED
  BY SMTT(60), <1>1, <1>3, <1>4 DEF Txn!vars

LEMMA RefinesCommitDone ==
  ASSUME CInv, CInv', DInv, DInv', NEW p \in Procs, CommitDone(p)
  PROVE  UNCHANGED Txn!vars
<1> USE LogAssumption
<1>1. Counted' = Counted /\ (Up' <=> Up)
  BY SMTT(60) DEF CommitDone, WakeAnd, Counted, InOp, Up, Recovering, CInv, TypeOK
<1>2. Contents' = Contents
  BY ZenonT(60), <1>1, RecoveredKept DEF CommitDone, Contents, Bread, durable, cache
<1>3. QED
  BY <1>1, <1>2, RecoveredKept DEF CommitDone, Txn!vars

LEMMA RefinesReadHead ==
  ASSUME CInv, CInv', DInv, DInv', NEW p \in Procs, ReadHead(p)
  PROVE  UNCHANGED Txn!vars
<1> USE LogAssumption
<1>1. Counted' = Counted /\ ~Up /\ ~Up'
  BY ZenonT(60), RecovererAlone
  DEF ReadHead, Goto, Counted, InOp, Up, Recovering, CInv, TypeOK
<1>2. QED
  BY SMTT(60), <1>1, RecoveredKept DEF ReadHead, Contents, Txn!vars

LEMMA RefinesRecoverClear ==
  ASSUME CInv, CInv', DInv, DInv', NEW p \in Procs, RecoverClear(p)
  PROVE  UNCHANGED Txn!vars
<1> USE LogAssumption
<1>1. ~Up /\ Up' /\ Counted = {} /\ Counted' = {} /\ hdr' = <<>> /\ UNCHANGED <<disk, buf>>
  BY SMTT(60), RecovererAlone DEF RecoverClear, Counted, InOp, Up, Recovering, cache
<1>2. \A b \in Blocks : Recovered[b] = disk[b]
  <2>1. hdr = lh
    BY SMTT(60) DEF RecoverClear, DInv, HeaderOnDisk
  <2>2. \A i \in 1..Len(hdr) : disk[hdr[i]] = logd[i]
    BY SMTT(60), <2>1 DEF RecoverClear, DInv, Installed
  <2>3. QED
    BY SMTT(60), <2>2, RecoveredAt
<1>3. Recovered' = Recovered
  <2>1. Recovered = [b \in Blocks |-> disk[b]]
    BY <1>2 DEF Recovered
  <2>2. Recovered' = [b \in Blocks |-> disk[b]]
    BY SMTT(60), <1>1, RecoveredIsDiskPrime
  <2>3. QED  BY SMTT(60), <2>1, <2>2
<1>4. \A b \in Blocks : Bread(b) = disk[b]
  BY ZenonT(60), <1>1, RecovererAlone
  DEF RecoverClear, Recovering, DInv, DirtyLogged, CacheClean, Bread
<1>5. Contents' = Recovered
  <2>1. Recovered = [b \in Blocks |-> disk[b]]
    BY <1>2 DEF Recovered
  <2>2. Contents' = [b \in Blocks |-> disk[b]]
    BY SMTT(60), <1>1, <1>4 DEF Contents, Bread
  <2>3. QED  BY SMTT(60), <2>1, <2>2
<1>6. QED
  BY SMTT(60), <1>1, <1>3, <1>5 DEF Contents, Txn!vars

LEMMA RefinesReadBlock ==
  ASSUME CInv, CInv', DInv, DInv', NEW b \in Blocks, ReadBlock(b) \/ Recycle(b)
  PROVE  UNCHANGED Txn!vars
<1> USE LogAssumption
<1>1. \A c \in Blocks : Bread(c)' = Bread(c)
  BY SMTT(60) DEF ReadBlock, Recycle, Recyclable, Bread, DInv, CacheClean, CInv, TypeOK, durable
<1>2. UNCHANGED <<durable, pc>>
  BY SMTT(60) DEF ReadBlock, Recycle
<1>3. QED
  BY SMTT(60), <1>1, <1>2, RecoveredKept DEF Contents, Up, Counted, Txn!vars

LEMMA RefinesCrash ==
  ASSUME CInv, CInv', DInv, DInv', Crash
  PROVE  Txn!Crash
<1> USE LogAssumption
<1>1. Counted' = {} /\ ~Up'
  BY SMTT(60) DEF Crash, Boot, Counted, InOp, Up, Recovering
<1>2. QED
  BY SMTT(60), <1>1, RecoveredKept DEF Crash, Contents, Txn!Crash

LEMMA RefinesStutter ==
  ASSUME CInv, CInv', DInv, DInv', UNCHANGED vars
  PROVE  UNCHANGED Txn!vars
BY RecoveredKept
DEF vars, durable, cache, Contents, Bread, Up, Counted, Txn!vars, LogAssumption

LEMMA StepRefines ==
  CInv /\ CInv' /\ DInv /\ DInv' /\ [Next]_vars => [Txn!Next]_(Txn!vars)
<1> SUFFICES ASSUME CInv, CInv', DInv, DInv', [Next]_vars
             PROVE  Txn!Next \/ UNCHANGED Txn!vars
  BY DEF Txn!vars
<1> QED
  BY RefinesBeginOpSleep, RefinesBeginOp, RefinesLogWriteCheck,
     RefinesLogWrite, RefinesEndOp, RefinesWriteLog, RefinesWriteHead,
     RefinesInstallTrans, RefinesEraseHead, RefinesCommitDone, RefinesReadHead,
     RefinesRecoverClear, RefinesReadBlock, RefinesCrash, RefinesStutter DEF
     Next, Step, Txn!Next

(* log.c over the buffer cache implements an atomic, crash-safe disk: what *)
(* commit() and recover_from_log() leave behind after a crash is the       *)
(* effect of whole groups of finished calls.                               *)
THEOREM CrashAtomicTheorem == Spec => CrashAtomic
<1>1. Spec => [](CInv /\ DInv)
  BY CInvInit, CInvStep, DInvInit, DInvStep, PTL DEF Spec
<1>2. QED
  BY <1>1, InitRefines, StepRefines, PTL DEF Spec, CrashAtomic, Txn!Spec

(* When no call is in progress and no commit under way, everything that    *)
(* was written is already durable.                                         *)
THEOREM DurableWhenQuietTheorem == Spec => []DurableWhenQuiet
<1>1. CInv /\ DInv => DurableWhenQuiet
  <2> SUFFICES ASSUME CInv, DInv, Counted = {}, ~committing
               PROVE  Recovered = Contents
    BY DEF DurableWhenQuiet
  <2>1. CASE ~Up
    BY <2>1 DEF Contents
  <2>2. CASE Up
    <3>1. \A p \in Procs : pc[p] \notin Committer
      BY DEF CInv, Control, OneCommitter
    <3>2. lh = <<>> /\ hdr = <<>>
      BY <2>2, <3>1 DEF DInv, Quiet, HeaderOnDisk, Committer
    <3>3. dirty = {}
      BY SMTT(60), <3>2 DEF DInv, DirtyLogged, Logged
    <3>4. \A b \in Blocks : ~Locked(b)
      BY SMTT(60) DEF CInv, Room, Locked
    <3>5. \A b \in Blocks : Bread(b) = disk[b]
      BY SMTT(60), <3>3, <3>4 DEF DInv, CacheClean, Bread
    <3>6. QED
      BY SMTT(60), <2>2, <3>2, <3>5, RecoveredIsDisk DEF Contents
  <2>3. QED  BY <2>1, <2>2
<1>2. QED
  BY <1>1, CInvInit, CInvStep, DInvInit, DInvStep, PTL DEF Spec

(***************************************************************************)
(* Sleepers.                                                               *)
(***************************************************************************)
(* Somebody sleeps in begin_op() only while a call or a commit goes on. *)
Waited == (\E p \in Procs : pc[p] = "asleep") => committing \/ Counted # {}

LEMMA WaitedStep == CInv /\ CInv' /\ DInv /\ Waited /\ [Next]_vars => Waited'
<1> SUFFICES ASSUME CInv, CInv', DInv, Waited, [Next]_vars PROVE Waited'
  OBVIOUS
<1> USE LogAssumption
<1>1. ASSUME NEW p \in Procs, BeginOpSleep(p) PROVE Waited'
  <2>1. CASE committing
    BY SMTT(60), <1>1, <2>1 DEF BeginOpSleep, Waited, log
  <2>2. CASE ~committing /\ Counted = {}
    <3>1. Up
      BY <1>1 DEF BeginOpSleep, CInv, Control, BootAlone, Up, Recovering
    <3>2. Len(lh) = 0
      BY <2>2, <3>1 DEF DInv, Quiet
    <3>3. Cardinality(Counted) = 0
      BY ZenonT(60), <2>2, FS_EmptySet, Zenon
    <3>4. ~NoRoom
      BY SMTT(60), <3>2, <3>3 DEF NoRoom, CInv, Control, Counting
    <3>5. QED
      BY SMTT(60), <1>1, <2>2, <3>4 DEF BeginOpSleep
  <2>3. CASE Counted # {}
    <3>1. Counted' = Counted
      BY <1>1 DEF BeginOpSleep, Goto, Counted, InOp, CInv, TypeOK
    <3>2. QED
      BY SMTT(60), <2>3, <3>1 DEF Waited
  <2>4. QED  BY SMTT(60), <2>1, <2>2, <2>3
<1>2. ASSUME NEW p \in Procs, BeginOp(p) \/ LogWrite(p) \/
             (\E b \in Blocks, v \in Vals : LogWriteCheck(p, b, v))
      PROVE  Waited'
  <2>1. p \in Counted'
    BY ZenonT(60), <1>2 DEF BeginOp, LogWrite, LogWriteCheck, Goto, Counted, InOp, CInv, TypeOK
  <2>2. QED
    BY SMTT(60), <2>1 DEF Waited
<1>3. ASSUME NEW p \in Procs, EndOp(p) PROVE Waited'
  <2>1. ~committing
    BY <1>3, CallersOnly DEF EndOp, InOp
  <2>2. CASE outstanding = 1
    BY ZenonT(60), <1>3, <2>1, <2>2 DEF EndOp, Waited
  <2>3. CASE outstanding # 1
    BY SMTT(60), <1>3, <2>1, <2>3 DEF EndOp, WakeAnd, Waited
  <2>4. QED  BY <2>2, <2>3
<1>4. ASSUME NEW p \in Procs,
             WriteLog(p) \/ WriteHead(p) \/ (InstallTrans(p) /\ Up) \/ EraseHead(p)
      PROVE  Waited'
  <2>1. committing
    <3>1. pc[p] \in Committer
      BY ZenonT(60), <1>4, RecovererAlone
      DEF WriteLog, WriteHead, InstallTrans, EraseHead, Committer, Recovering
    <3>2. QED  BY SMTT(60), <3>1, CommitterAlone
  <2>2. committing' = committing
    BY ZenonT(60), <1>4 DEF WriteLog, WriteHead, InstallTrans, EraseHead, log
  <2>3. QED  BY SMTT(60), <2>1, <2>2 DEF Waited
<1>5. ASSUME NEW p \in Procs, CommitDone(p) PROVE Waited'
  BY SMTT(60), <1>5 DEF CommitDone, WakeAnd, Waited
<1>6. ASSUME NEW p \in Procs, RecoverClear(p) PROVE Waited'
  BY SMTT(60), <1>6 DEF RecoverClear, Waited
<1>7. ASSUME ~Up' PROVE Waited'
  <2>1. \A q \in Procs : pc'[q] # "asleep"
    BY <1>7 DEF CInv, Control, BootAlone, Up, Recovering
  <2>2. QED  BY SMTT(60), <2>1 DEF Waited
<1>8. ASSUME NEW p \in Procs, ReadHead(p) \/ (InstallTrans(p) /\ ~Up) PROVE Waited'
  <2>1. ~Up'
    BY ZenonT(60), <1>8, RecovererAlone
    DEF ReadHead, InstallTrans, NextTail, Goto, Up, Recovering, CInv, TypeOK
  <2>2. QED  BY SMTT(60), <2>1, <1>7
<1>9. ASSUME Crash PROVE Waited'
  BY <1>9, <1>7 DEF Crash, Boot, Up, Recovering
<1>10. ASSUME UNCHANGED <<pc, committing>> PROVE Waited'
  BY SMTT(60), <1>10 DEF Waited, Counted
<1>11. ASSUME (\E b \in Blocks : ReadBlock(b) \/ Recycle(b)) \/ UNCHANGED vars PROVE Waited'
  BY SMTT(60), <1>10, <1>11 DEF ReadBlock, Recycle, vars, log
<1>12. ASSUME NEW p \in Procs, InstallTrans(p) PROVE Waited'
  BY SMTT(60), <1>4, <1>8, <1>12
<1>13. ASSUME NEW p \in Procs, Step(p) PROVE Waited'
  <2>1. CASE \E b \in Blocks, v \in Vals : LogWriteCheck(p, b, v)
    BY SMTT(60), <1>2, <2>1
  <2>2. CASE BeginOpSleep(p) \/ BeginOp(p) \/ LogWrite(p) \/ EndOp(p)
    BY SMTT(60), <1>1, <1>2, <1>3, <2>2
  <2>3. CASE WriteLog(p) \/ WriteHead(p) \/ EraseHead(p)
    BY SMTT(60), <1>4, <2>3
  <2>4. CASE InstallTrans(p) \/ CommitDone(p) \/ ReadHead(p) \/ RecoverClear(p)
    BY SMTT(60), <1>5, <1>6, <1>8, <1>12, <2>4
  <2>5. QED
    BY SMTT(60), <1>13, <2>1, <2>2, <2>3, <2>4 DEF Step
<1>14. QED
  BY <1>9, <1>11, <1>13 DEF Next

(* With room for what the calls write, a process asleep in begin_op()      *)
(* always has a call or a commit left whose end_op() will wake it.         *)
THEOREM NoLostWakeupTheorem == ASSUME RoomForCalls PROVE Spec => []NoLostWakeup
<1>1. Init => Waited
  BY SMTT(60) DEF Init, Boot, Waited
<1>2. CInv /\ NoPanic /\ Waited => NoLostWakeup
  BY DEF CInv, Control, OneCommitter, NoPanic, Waited, Counted, NoLostWakeup
<1>3. Spec => []NoPanic
  BY NoPanicTheorem
<1>4. QED
  BY <1>1, <1>2, <1>3, CInvInit, CInvStep, DInvInit, DInvStep, WaitedStep, PTL DEF Spec
=============================================================================
