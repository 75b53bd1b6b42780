----------------------------- MODULE LogDurable -----------------------------
(***************************************************************************)
(* The invariant of Log about contents: where the committed and the        *)
(* uncommitted value of every block is at each point of commit().          *)
(***************************************************************************)
EXTENDS LogControl

(***************************************************************************)
(* The inductive invariant about contents.                                 *)
(***************************************************************************)
(* A commit leaves the header empty behind it. *)
Quiet ==
  /\ \A p \in Procs : pc[p] = "done" => lh = <<>>
  /\ Up /\ ~committing /\ Counted = {} => lh = <<>>

(* Log absorption gives a block one slot only. *)
LoggedOnce == \A i, j \in 1..Len(lh) : lh[i] = lh[j] => i = j

(* The header on disk is the one in memory from write_head() until it is   *)
(* erased, and empty before.                                               *)
HeaderOnDisk ==
  /\ \A p \in Procs :
       pc[p] \in {"install", "clear", "recover_install", "recover_clear"} => hdr = lh
  /\ Up /\ (\A p \in Procs : pc[p] \notin {"install", "clear"}) => hdr = <<>>
  /\ \A i, j \in 1..Len(hdr) : hdr[i] = hdr[j] => i = j

(* A cached block differs from the disk only while it is locked or pinned, *)
(* and then it is not recycled.                                            *)
CacheClean ==
  \A b \in Blocks :
    /\ buf[b] # NoBuf /\ buf[b] # disk[b] => b \in dirty \/ Locked(b)
    /\ b \in dirty \/ Locked(b) => buf[b] # NoBuf

(* Every pinned block is in the header. *)
DirtyLogged ==
  /\ \A b \in dirty : Logged(b)
  /\ ~Up => dirty = {}

(* write_log() has copied the blocks before tail. *)
Copied ==
  \A p \in Procs : \A i \in 1..Len(lh) :
    \/ pc[p] = "write_log" /\ i < tail[p]
    \/ pc[p] \in {"write_head", "install", "clear"}
    => logd[i] = Bread(lh[i])

(* install_trans() has installed the blocks before tail. *)
Installed ==
  \A p \in Procs : \A i \in 1..Len(lh) :
    \/ pc[p] \in {"install", "recover_install"} /\ i < tail[p]
    \/ pc[p] \in {"clear", "recover_clear"}
    => disk[lh[i]] = logd[i] /\ lh[i] \notin dirty

DInv == /\ Quiet /\ LoggedOnce /\ HeaderOnDisk /\ CacheClean /\ DirtyLogged
        /\ Copied /\ Installed

(***************************************************************************)
(* Who else can be running beside a process at a given point.              *)
(***************************************************************************)
LEMMA CallersOnly ==
  ASSUME CInv, NEW p \in Procs, pc[p] \in InOp
  PROVE  Up /\ ~committing /\ \A q \in Procs : pc[q] \notin Committer \cup Recovering
BY LogAssumption DEF CInv, Control, OneCommitter, BootAlone, Counted, Up, InOp, Recovering

LEMMA CommitterAlone ==
  ASSUME CInv, NEW p \in Procs, pc[p] \in Committer
  PROVE  /\ Up /\ committing /\ Counted = {}
         /\ \A q \in Procs : q # p => pc[q] \in {"idle", "begin", "asleep"}
         /\ \A b \in Blocks : ~Locked(b)
<1>1. Up /\ committing /\ Counted = {}
  BY LogAssumption DEF CInv, Control, OneCommitter, BootAlone, Up, Committer, Recovering
<1>2. \A q \in Procs : q # p => pc[q] \in {"idle", "begin", "asleep"}
  BY ZenonT(60), <1>1, LogAssumption
  DEF CInv, TypeOK, Labels, Control, OneCommitter, BootAlone, Counted, InOp, Up
<1>3. \A b \in Blocks : ~Locked(b)
  BY <1>1 DEF CInv, Room, Locked
<1>4. QED
  BY <1>1, <1>2, <1>3

LEMMA RecovererAlone ==
  ASSUME CInv, NEW p \in Procs, pc[p] \in Recovering
  PROVE  /\ ~Up /\ p = InitProc /\ Counted = {}
         /\ \A q \in Procs : q # p => pc[q] = "off"
         /\ \A b \in Blocks : ~Locked(b)
<1>1. ~Up /\ p = InitProc /\ \A q \in Procs : q # p => pc[q] = "off"
  BY LogAssumption DEF CInv, Control, BootAlone, Up
<1>2. Counted = {}
  BY <1>1 DEF Counted, InOp, Recovering
<1>3. \A b \in Blocks : ~Locked(b)
  BY <1>2 DEF CInv, Room, Locked
<1>4. QED
  BY <1>1, <1>2, <1>3

LEMMA DInvInit == Init => DInv
<1> SUFFICES ASSUME Init PROVE DInv
  OBVIOUS
<1>1. Len(lh) = 0 /\ Len(hdr) = 0
  BY DEF Init
<1>2. Quiet /\ LoggedOnce /\ HeaderOnDisk
  BY <1>1, LogAssumption
  DEF Init, Boot, Up, Recovering, Quiet, LoggedOnce, HeaderOnDisk
<1>3. CacheClean /\ DirtyLogged
  BY DEF Init, Boot, CacheClean, DirtyLogged, Locked
<1>4. Copied /\ Installed
  BY <1>1 DEF Init, Copied, Installed
<1>5. QED
  BY <1>2, <1>3, <1>4 DEF DInv

LEMMA DInvBeginOpSleep ==
  ASSUME CInv, DInv, NEW p \in Procs, BeginOpSleep(p)
  PROVE  DInv'
<1> USE LogAssumption DEF CInv, Control, DInv
<1>1. Quiet'
  BY DEF BeginOpSleep, Goto, TypeOK, Quiet, Up, Recovering, Counted, InOp, log
<1>2. LoggedOnce'
  BY DEF BeginOpSleep, Goto, TypeOK, LoggedOnce, log
<1>3. HeaderOnDisk'
  BY DEF BeginOpSleep, Goto, TypeOK, HeaderOnDisk, Up, Recovering, durable, log
<1>4. CacheClean'
  BY DEF BeginOpSleep, Goto, TypeOK, CacheClean, Locked, durable, cache
<1>5. DirtyLogged'
  BY DEF BeginOpSleep, Goto, TypeOK, DirtyLogged, Logged, Up, Recovering, cache, log
<1>6. Copied'
  BY DEF BeginOpSleep, Goto, TypeOK, Copied, Bread, durable, cache, log
<1>7. Installed'
  BY SMTT(60) DEF BeginOpSleep, Goto, TypeOK, Installed, durable, cache, log
<1>8. QED  BY ZenonT(60), <1>1, <1>2, <1>3, <1>4, <1>5, <1>6, <1>7

LEMMA DInvBeginOp ==
  ASSUME CInv, DInv, NEW p \in Procs, BeginOp(p)
  PROVE  DInv'
<1> USE LogAssumption DEF CInv, Control, DInv
<1>1. Quiet'
  BY DEF BeginOp, Goto, TypeOK, Quiet, Up, Recovering, Counted, InOp, log
<1>2. LoggedOnce'
  BY DEF BeginOp, Goto, TypeOK, LoggedOnce, log
<1>3. HeaderOnDisk'
  BY DEF BeginOp, Goto, TypeOK, HeaderOnDisk, Up, Recovering, durable, log
<1>4. CacheClean'
  BY DEF BeginOp, Goto, TypeOK, CacheClean, Locked, durable, cache
<1>5. DirtyLogged'
  BY DEF BeginOp, Goto, TypeOK, DirtyLogged, Logged, Up, Recovering, cache, log
<1>6. Copied'
  BY DEF BeginOp, Goto, TypeOK, Copied, Bread, durable, cache, log
<1>7. Installed'
  BY DEF BeginOp, Goto, TypeOK, Installed, durable, cache, log
<1>8. QED  BY ZenonT(60), <1>1, <1>2, <1>3, <1>4, <1>5, <1>6, <1>7

LEMMA DInvLogWriteCheck ==
  ASSUME CInv, DInv, NEW p \in Procs, NEW b \in Blocks, NEW v \in Vals, LogWriteCheck(p, b, v)
  PROVE  DInv'
<1> USE LogAssumption DEF CInv, Control, DInv
<1>0. Up /\ ~committing /\ \A q \in Procs : pc[q] \notin Committer \cup Recovering
  BY SMTT(60), CallersOnly DEF LogWriteCheck, InOp
<1>1. Quiet'
  BY DEF LogWriteCheck, Goto, TypeOK, Quiet, Up, Recovering, Counted, InOp, log
<1>2. LoggedOnce'
  BY DEF LogWriteCheck, Goto, TypeOK, LoggedOnce, log
<1>3. HeaderOnDisk'
  BY DEF LogWriteCheck, Goto, TypeOK, HeaderOnDisk, Up, Recovering, durable, log
<1>4. CacheClean'
  <2>1. held[p] = {}
    BY SMTT(60) DEF LogWriteCheck, Holding
  <2>2. UNCHANGED <<disk, dirty>> /\ buf' = [buf EXCEPT ![b] = v]
        /\ held' = [held EXCEPT ![p] = {b}]
    BY DEF LogWriteCheck, durable
  <2>3. \A c \in Blocks : Locked(c)' <=> Locked(c) \/ c = b
    BY SMTT(60), <2>1, <2>2 DEF Locked, TypeOK
  <2>4. QED
    BY <2>2, <2>3 DEF CacheClean, TypeOK
<1>5. DirtyLogged'
  BY DEF LogWriteCheck, Goto, TypeOK, DirtyLogged, Logged, Up, Recovering, cache, log
<1>6. Copied'
  BY SMTT(60), <1>0 DEF LogWriteCheck, Goto, TypeOK, Copied, Committer
<1>7. Installed'
  BY DEF LogWriteCheck, Goto, TypeOK, Installed, durable, cache, log
<1>8. QED  BY ZenonT(60), <1>1, <1>2, <1>3, <1>4, <1>5, <1>6, <1>7

LEMMA DInvLogWrite ==
  ASSUME CInv, DInv, NEW p \in Procs, LogWrite(p)
  PROVE  DInv'
<1> USE LogAssumption DEF CInv, Control, DInv
<1>0. Up /\ ~committing /\ \A q \in Procs : pc[q] \notin Committer \cup Recovering
  BY CallersOnly DEF LogWrite, InOp
<1>a. PICK b \in Blocks : held[p] = {b}
  BY DEF LogWrite, Holding
<1>b. lh' = Absorb(b) /\ dirty' = dirty \cup {b} /\ UNCHANGED <<disk, logd, hdr, buf>>
      /\ held' = [held EXCEPT ![p] = {}] /\ pc' = [pc EXCEPT ![p] = "op"]
  BY <1>a DEF LogWrite, Goto, Pin, durable
<1>c. \A c \in Blocks : Logged(c)' <=> Logged(c) \/ c = b
  BY <1>b, AbsorbLogged
<1>d. Up' /\ \A q \in Procs : pc'[q] \notin Committer \cup Recovering
  BY SMTT(60), <1>0, <1>b DEF Up, TypeOK, Committer, Recovering
<1>1. Quiet'
  <2>1. p \in Counted'
    BY <1>b DEF Counted, InOp, TypeOK
  <2>2. QED
    BY <1>d, <2>1 DEF Quiet, Committer
<1>2. LoggedOnce'
  BY SMTT(60), <1>b DEF Absorb, Logged, LoggedOnce, TypeOK
<1>3. HeaderOnDisk'
  BY <1>0, <1>b, <1>d DEF HeaderOnDisk, Committer, Recovering
<1>4. CacheClean'
  BY SMTT(60), <1>a, <1>b DEF CacheClean, Locked, TypeOK
<1>5. DirtyLogged'
  BY SMTT(60), <1>b, <1>c, <1>d DEF DirtyLogged, TypeOK
<1>6. Copied'
  BY SMTT(60), <1>d DEF Copied, Committer
<1>7. Installed'
  <2>1. \A q \in Procs : pc'[q] \notin {"install", "recover_install", "clear", "recover_clear"}
    BY ZenonT(60), <1>d DEF Committer, Recovering
  <2>2. QED
    BY ZenonT(60), <2>1 DEF Installed
<1>8. QED  BY ZenonT(60), <1>1, <1>2, <1>3, <1>4, <1>5, <1>6, <1>7

LEMMA DInvEndOp ==
  ASSUME CInv, DInv, NEW p \in Procs, EndOp(p)
  PROVE  DInv'
<1> USE LogAssumption DEF CInv, Control, DInv
<1>0. p \in Counted /\ Up /\ ~committing /\ \A q \in Procs : pc[q] \notin Committer
  BY SMTT(60), CallersOnly DEF EndOp, InOp, Counted
<1>a. UNCHANGED <<disk, logd, hdr, buf, dirty, lh, held>>
  BY EndOpStep
<1>b. \A q \in Procs : q # p => pc'[q] = pc[q] \/ (pc[q] = "asleep" /\ pc'[q] = "begin")
  BY EndOpStep
<1>c. pc[p] = "op" /\ pc'[p] \in {"done", "write_log", "idle"} /\ tail'[p] = 1
  BY EndOpStep
<1>d. \A q \in Procs : pc'[q] \notin {"write_head", "install", "clear"} \cup Recovering
  BY <1>0, <1>b, <1>c, CallersOnly DEF EndOp, InOp, Committer, Recovering
<1>e. Up'
  BY <1>d DEF Up
<1>1. Quiet'
  <2>2. CASE outstanding = 1
    <3>1. \A q \in Procs : pc'[q] = "done" => lh' = <<>>
      BY <1>0, <1>a, <1>b, <2>2, EndOpStep DEF Committer
    <3>2. committing'
      BY <2>2, EndOpStep
    <3>3. QED
      BY <3>1, <3>2 DEF Quiet
  <2>3. CASE outstanding # 1
    <3>1. PICK q \in Counted : q # p
      <4>1. Counted # {p}
        BY ZenonT(60), <2>3, FS_Singleton DEF Counting
      <4>2. QED
        BY <1>0, <4>1
    <3>2. q \in Counted'
      BY <1>b, <3>1 DEF Counted, InOp
    <3>3. \A r \in Procs : pc'[r] # "done"
      BY <1>0, <1>b, <2>3, EndOpStep DEF Committer
    <3>4. QED
      BY <3>2, <3>3 DEF Quiet
  <2>4. QED  BY <2>2, <2>3
<1>2. LoggedOnce'
  BY <1>a DEF LoggedOnce
<1>3. HeaderOnDisk'
  <2>1. hdr = <<>>
    BY <1>0 DEF HeaderOnDisk, Committer
  <2>2. QED
    BY <1>a, <1>d, <2>1 DEF HeaderOnDisk, Recovering
<1>4. CacheClean'
  BY <1>a DEF CacheClean, Locked
<1>5. DirtyLogged'
  BY <1>e, <1>a DEF DirtyLogged, Logged
<1>6. Copied'
  <2>1. \A q \in Procs : q # p => pc'[q] # "write_log"
    BY ZenonT(60), <1>0, <1>b DEF Committer
  <2>2. \A i \in 1..Len(lh') : ~(i < tail'[p])
    BY <1>c
  <2>3. QED
    BY ZenonT(60), <1>d, <2>1, <2>2 DEF Copied
<1>7. Installed'
  BY <1>a, <1>d DEF Installed, Recovering
<1>8. QED  BY ZenonT(60), <1>1, <1>2, <1>3, <1>4, <1>5, <1>6, <1>7

LEMMA DInvWriteLog ==
  ASSUME CInv, DInv, NEW p \in Procs, WriteLog(p)
  PROVE  DInv'
<1> USE LogAssumption DEF CInv, Control, DInv
<1>0. lh[tail[p]] \in Blocks /\ tail[p] \in 1..Len(lh)
  BY SMTT(60) DEF WriteLog, TypeOK, TailInRange, Looping
<1>1. Quiet'
  BY SMTT(60), <1>0 DEF WriteLog, Goto, NextTail, Bread, TypeOK, Quiet, Up, Recovering, Counted, InOp, log
<1>2. LoggedOnce'
  BY SMTT(60), <1>0 DEF WriteLog, Goto, NextTail, Bread, TypeOK, LoggedOnce, log
<1>3. HeaderOnDisk'
  BY SMTT(60), <1>0 DEF WriteLog, Goto, NextTail, Bread, TypeOK, HeaderOnDisk, Up, Recovering, durable, log
<1>4. CacheClean'
  BY SMTT(60), <1>0 DEF WriteLog, Goto, NextTail, Bread, TypeOK, CacheClean, Locked, durable, cache
<1>5. DirtyLogged'
  BY SMTT(60), <1>0 DEF WriteLog, Goto, NextTail, Bread, TypeOK, DirtyLogged, Logged, Up, Recovering, cache, log
<1>6. Copied'
  <2>1. tail[p] \in 1..LOGSIZE
    BY SMTT(60), <1>0, ReservedBound DEF Room, TypeOK
  <2>2. \A c \in Blocks : Bread(c)' = Bread(c)
    BY SMTT(60), <1>0 DEF WriteLog, Bread, TypeOK
  <2>3. \A i \in 1..tail[p] : logd'[i] = Bread(lh[i])
    BY SMTT(60), <1>0, <2>1 DEF WriteLog, Copied, TypeOK
  <2>4. \A i \in 1..tail[p] : logd'[i] = Bread(lh[i])'
    BY SMTT(60), <1>0, <2>2, <2>3 DEF WriteLog, TypeOK, log
  <2>5. \A q \in Procs : q # p => pc'[q] \notin Committer
    BY ZenonT(60), CommitterAlone DEF WriteLog, NextTail, Goto, TypeOK, Committer
  <2>6. lh' = lh /\ IF tail[p] < Len(lh) THEN tail'[p] = tail[p] + 1 /\ pc' = pc
                                       ELSE tail[p] = Len(lh) /\ pc'[p] = "write_head"
    BY <1>0 DEF WriteLog, NextTail, Goto, TypeOK, log
  <2>7. QED
    BY SMTT(60), <1>0, <2>4, <2>5, <2>6 DEF WriteLog, Copied, Committer, TypeOK
<1>7. Installed'
  <2>0. pc[p] = "write_log" /\ pc[p] \in Committer
    BY DEF WriteLog, Committer
  <2>1. \A q \in Procs : q # p => pc'[q] \in {"idle", "begin", "asleep"}
    BY <2>0, CommitterAlone, NextTailStep DEF WriteLog
  <2>2. pc'[p] \in {"write_log", "write_head"}
    BY <2>0, NextTailStep DEF WriteLog
  <2>3. QED
    BY ZenonT(60), <2>1, <2>2 DEF Installed
<1>8. QED  BY ZenonT(60), <1>1, <1>2, <1>3, <1>4, <1>5, <1>6, <1>7

LEMMA DInvWriteHead ==
  ASSUME CInv, DInv, NEW p \in Procs, WriteHead(p)
  PROVE  DInv'
<1> USE LogAssumption DEF CInv, Control, DInv
<1>0. hdr' = lh /\ lh' = lh /\ Up' /\ pc'[p] = "install"
      /\ \A q \in Procs : q # p => pc'[q] \in {"idle", "begin", "asleep"}
  BY CommitterAlone DEF WriteHead, Goto, Up, TypeOK, Committer, Recovering, log
<1>1. Quiet'
  BY DEF WriteHead, Goto, TypeOK, Quiet, Up, Recovering, Counted, InOp, log
<1>2. LoggedOnce'
  BY DEF WriteHead, Goto, TypeOK, LoggedOnce, log
<1>3. HeaderOnDisk'
  BY <1>0 DEF HeaderOnDisk, LoggedOnce
<1>4. CacheClean'
  BY DEF WriteHead, Goto, TypeOK, CacheClean, Locked, durable, cache
<1>5. DirtyLogged'
  BY DEF WriteHead, Goto, TypeOK, DirtyLogged, Logged, Up, Recovering, cache, log
<1>6. Copied'
  BY DEF WriteHead, Goto, TypeOK, Copied, Bread, durable, cache, log
<1>7. Installed'
  <2>1. tail'[p] = 1
    BY DEF WriteHead, TailInRange, Looping
  <2>2. \A i \in 1..Len(lh') : ~(i < tail'[p])
    BY <2>1
  <2>3. QED
    BY <1>0, <2>2 DEF Installed
<1>8. QED  BY ZenonT(60), <1>1, <1>2, <1>3, <1>4, <1>5, <1>6, <1>7

LEMMA DInvInstallTrans ==
  ASSUME CInv, DInv, NEW p \in Procs, InstallTrans(p)
  PROVE  DInv'
<1> USE LogAssumption DEF CInv, Control, DInv
<1>0. lh[tail[p]] \in Blocks /\ tail[p] \in 1..Len(lh)
  BY DEF InstallTrans, TypeOK, TailInRange, Looping
<1> DEFINE b == lh[tail[p]]
           v == logd[tail[p]]
<1>a. v \in Vals
  <2>1. tail[p] \in 1..LOGSIZE
    BY SMTT(60), <1>0, ReservedBound DEF Room, TypeOK
  <2>2. QED
    BY <2>1 DEF TypeOK
<1>b. /\ disk' = [disk EXCEPT ![b] = v] /\ buf' = [buf EXCEPT ![b] = v] /\ dirty' = dirty \ {b}
      /\ UNCHANGED <<logd, hdr, lh, held>>
  BY DEF InstallTrans, log
<1>c. /\ \A q \in Procs : q # p => pc[q] \in {"idle", "begin", "asleep", "off"} /\ pc'[q] = pc[q]
      /\ \A c \in Blocks : ~Locked(c)
  BY CommitterAlone, RecovererAlone
  DEF InstallTrans, NextTail, Goto, TypeOK, Committer, Recovering
<1>d. IF tail[p] < Len(lh) THEN tail'[p] = tail[p] + 1 /\ pc' = pc
      ELSE /\ tail[p] = Len(lh)
           /\ pc'[p] = IF pc[p] = "install" THEN "clear" ELSE "recover_clear"
  BY <1>0 DEF InstallTrans, NextTail, Goto, TypeOK
<1>e. b \in Blocks /\ \A i \in 1..Len(lh) : lh[i] \in Blocks /\ (lh[i] = b => i = tail[p])
  BY <1>0 DEF LoggedOnce, TypeOK
<1> HIDE DEF b, v
<1>1. Quiet'
  BY <1>0 DEF InstallTrans, Goto, NextTail, TypeOK, Quiet, Up, Recovering, Counted, InOp, log
<1>2. LoggedOnce'
  BY <1>0 DEF InstallTrans, Goto, NextTail, TypeOK, LoggedOnce, log
<1>3. HeaderOnDisk'
  BY SMTT(60), <1>0 DEF InstallTrans, Goto, NextTail, TypeOK, HeaderOnDisk, Up, Recovering, durable, log
<1>4. CacheClean'
  <2>1. \A c \in Blocks : ~Locked(c)'
    BY <1>b, <1>c DEF Locked
  <2>2. QED
    BY SMTT(60), <1>a, <1>b, <1>c, <1>e, <2>1 DEF CacheClean, TypeOK
<1>5. DirtyLogged'
  BY <1>0 DEF InstallTrans, Goto, NextTail, TypeOK, DirtyLogged, Logged, Up, Recovering, cache, log
<1>6. Copied'
  <2>1. \A c \in Blocks : Bread(c)' = IF c = b THEN v ELSE Bread(c)
    BY <1>a, <1>b, <1>e DEF Bread, TypeOK
  <2>2. pc[p] = "install" => \A i \in 1..Len(lh) : logd'[i] = Bread(lh[i])'
    BY ZenonT(60), <1>b, <1>e, <2>1 DEF Copied, v
  <2>3. QED
    BY ZenonT(60), <1>b, <1>c, <1>d, <2>2 DEF InstallTrans, Copied, TypeOK
<1>7. Installed'
  <2>1. \A i \in 1..tail[p] : disk'[lh[i]] = logd'[i] /\ lh[i] \notin dirty'
    <3> SUFFICES ASSUME NEW i \in 1..tail[p]
                 PROVE  disk'[lh[i]] = logd'[i] /\ lh[i] \notin dirty'
      BY SMTT(60)
    <3>1. CASE i = tail[p]
      BY SMTT(60), <1>b, <1>e, <3>1 DEF b, v, TypeOK
    <3>2. CASE i # tail[p]
      <4>1. i \in 1..Len(lh) /\ i < tail[p]
        BY SMTT(60), <1>0, <3>2 DEF TypeOK
      <4>2. disk[lh[i]] = logd[i] /\ lh[i] \notin dirty
        BY SMTT(60), <4>1 DEF InstallTrans, Installed
      <4>3. QED
        BY SMTT(60), <1>b, <1>e, <3>2, <4>1, <4>2 DEF TypeOK
    <3>3. QED  BY SMTT(60), <3>1, <3>2
  <2>2. ASSUME NEW i \in 1..Len(lh),
               \/ pc'[p] \in {"install", "recover_install"} /\ i < tail'[p]
               \/ pc'[p] \in {"clear", "recover_clear"}
        PROVE  i \in 1..tail[p]
    BY SMTT(60), <1>0, <1>d, <2>2 DEF InstallTrans, TypeOK
  <2>3. QED
    BY SMTT(60), <1>b, <1>c, <2>1, <2>2 DEF Installed
<1>8. QED  BY ZenonT(60), <1>1, <1>2, <1>3, <1>4, <1>5, <1>6, <1>7

LEMMA DInvEraseHead ==
  ASSUME CInv, DInv, NEW p \in Procs, EraseHead(p)
  PROVE  DInv'
<1> USE LogAssumption DEF CInv, Control, DInv
<1>1. Quiet'
  BY SMTT(60) DEF EraseHead, Goto, TypeOK, Quiet, Up, Recovering, Counted, InOp, log
<1>2. LoggedOnce'
  BY SMTT(60) DEF EraseHead, Goto, TypeOK, LoggedOnce, log
<1>3. HeaderOnDisk'
  BY SMTT(60) DEF EraseHead, Goto, TypeOK, HeaderOnDisk, Up, Recovering, durable, log
<1>4. CacheClean'
  BY DEF EraseHead, Goto, TypeOK, CacheClean, Locked, durable, cache
<1>5. DirtyLogged'
  <2>1. dirty' = {}
    BY SMTT(60) DEF EraseHead, DirtyLogged, Installed, Logged, TypeOK, cache
  <2>2. QED
    BY SMTT(60), <2>1 DEF DirtyLogged
<1>6. Copied'
  BY SMTT(60) DEF EraseHead, Goto, TypeOK, Copied, Bread, durable, cache, log
<1>7. Installed'
  BY SMTT(60) DEF EraseHead, Goto, TypeOK, Installed, durable, cache, log
<1>8. QED  BY ZenonT(60), <1>1, <1>2, <1>3, <1>4, <1>5, <1>6, <1>7

LEMMA DInvCommitDone ==
  ASSUME CInv, DInv, NEW p \in Procs, CommitDone(p)
  PROVE  DInv'
<1> USE LogAssumption DEF CInv, Control, DInv
<1>1. Quiet'
  BY SMTT(60) DEF CommitDone, WakeAnd, TypeOK, Quiet, Up, Recovering, Counted, InOp, log
<1>2. LoggedOnce'
  BY SMTT(60) DEF CommitDone, WakeAnd, TypeOK, LoggedOnce, log
<1>3. HeaderOnDisk'
  <2>1. \A q \in Procs : pc'[q] \in {"idle", "begin"}
    BY SMTT(60), CommitterAlone DEF CommitDone, WakeAnd, Committer
  <2>2. hdr' = hdr /\ hdr = <<>>
    BY SMTT(60), CommitterAlone DEF CommitDone, HeaderOnDisk, Committer, durable
  <2>3. QED
    BY SMTT(60), <2>1, <2>2 DEF HeaderOnDisk
<1>4. CacheClean'
  BY SMTT(60) DEF CommitDone, WakeAnd, TypeOK, CacheClean, Locked, durable, cache
<1>5. DirtyLogged'
  BY SMTT(60) DEF CommitDone, WakeAnd, TypeOK, DirtyLogged, Logged, Up, Recovering, cache, log
<1>6. Copied'
  BY SMTT(60) DEF CommitDone, WakeAnd, TypeOK, Copied, Bread, durable, cache, log
<1>7. Installed'
  BY SMTT(60) DEF CommitDone, WakeAnd, TypeOK, Installed, durable, cache, log
<1>8. QED  BY ZenonT(60), <1>1, <1>2, <1>3, <1>4, <1>5, <1>6, <1>7

LEMMA DInvReadHead ==
  ASSUME CInv, DInv, NEW p \in Procs, ReadHead(p)
  PROVE  DInv'
<1> USE LogAssumption DEF CInv, Control, DInv
<1>0. ~Up' /\ lh' = hdr /\ pc'[p] \in {"recover_install", "recover_clear"}
      /\ (hdr # <<>> <=> pc'[p] = "recover_install")
      /\ \A q \in Procs : q # p => pc'[q] = "off"
  BY SMTT(60), RecovererAlone DEF ReadHead, Goto, Up, TypeOK, Recovering
<1>a. UNCHANGED <<disk, logd, hdr, buf, dirty, tail>> /\ tail[p] = 1 /\ dirty = {}
  BY SMTT(60), RecovererAlone
  DEF ReadHead, DirtyLogged, TailInRange, Looping, Recovering, durable, cache
<1>1. Quiet'
  BY SMTT(60), <1>0 DEF Quiet
<1>2. LoggedOnce'
  BY SMTT(60), <1>0 DEF LoggedOnce, HeaderOnDisk
<1>3. HeaderOnDisk'
  BY SMTT(60) DEF ReadHead, Goto, TypeOK, HeaderOnDisk, Up, Recovering, durable, log
<1>4. CacheClean'
  BY SMTT(60) DEF ReadHead, Goto, TypeOK, CacheClean, Locked, durable, cache
<1>5. DirtyLogged'
  BY ZenonT(60), <1>0, <1>a DEF DirtyLogged
<1>6. Copied'
  BY ZenonT(60), <1>0 DEF Copied
<1>7. Installed'
  <2>1. \A i \in 1..Len(lh') : ~(i < tail'[p])
    BY <1>a
  <2>2. pc'[p] = "recover_clear" => 1..Len(lh') = {}
    BY <1>0
  <2>3. QED
    BY ZenonT(60), <1>0, <2>1, <2>2 DEF Installed
<1>8. QED  BY ZenonT(60), <1>1, <1>2, <1>3, <1>4, <1>5, <1>6, <1>7

LEMMA DInvRecoverClear ==
  ASSUME CInv, DInv, NEW p \in Procs, RecoverClear(p)
  PROVE  DInv'
<1> USE LogAssumption DEF CInv, Control, DInv
<1>1. Quiet'
  BY SMTT(60) DEF RecoverClear, TypeOK, Quiet, Up, Recovering, Counted, InOp, log
<1>2. LoggedOnce'
  BY SMTT(60) DEF RecoverClear, TypeOK, LoggedOnce, log
<1>3. HeaderOnDisk'
  BY SMTT(60) DEF RecoverClear, TypeOK, HeaderOnDisk, Up, Recovering, durable, log
<1>4. CacheClean'
  BY SMTT(60) DEF RecoverClear, TypeOK, CacheClean, Locked, durable, cache
<1>5. DirtyLogged'
  BY SMTT(60), RecovererAlone DEF RecoverClear, DirtyLogged, Recovering, cache
<1>6. Copied'
  BY SMTT(60) DEF RecoverClear, TypeOK, Copied, Bread, durable, cache, log
<1>7. Installed'
  BY DEF RecoverClear, TypeOK, Installed, durable, cache, log
<1>8. QED  BY ZenonT(60), <1>1, <1>2, <1>3, <1>4, <1>5, <1>6, <1>7

LEMMA DInvReadBlock ==
  ASSUME CInv, DInv, NEW b \in Blocks, ReadBlock(b)
  PROVE  DInv'
<1> USE LogAssumption DEF CInv, Control, DInv
<1>1. Quiet'
  BY SMTT(60) DEF ReadBlock, Bread, TypeOK, Quiet, Up, Recovering, Counted, InOp, log
<1>2. LoggedOnce'
  BY SMTT(60) DEF ReadBlock, Bread, TypeOK, LoggedOnce, log
<1>3. HeaderOnDisk'
  BY SMTT(60) DEF ReadBlock, Bread, TypeOK, HeaderOnDisk, Up, Recovering, durable, log
<1>4. CacheClean'
  BY SMTT(60) DEF ReadBlock, Bread, TypeOK, CacheClean, Locked, durable, cache
<1>5. DirtyLogged'
  BY SMTT(60) DEF ReadBlock, Bread, TypeOK, DirtyLogged, Logged, Up, Recovering, cache, log
<1>6. Copied'
  BY SMTT(60) DEF ReadBlock, Bread, TypeOK, Copied, Bread, durable, cache, log
<1>7. Installed'
  BY SMTT(60) DEF ReadBlock, Bread, TypeOK, Installed, durable, cache, log
<1>8. QED  BY ZenonT(60), <1>1, <1>2, <1>3, <1>4, <1>5, <1>6, <1>7

LEMMA DInvRecycle ==
  ASSUME CInv, DInv, NEW b \in Blocks, Recycle(b)
  PROVE  DInv'
<1> USE LogAssumption DEF CInv, Control, DInv
<1>1. Quiet'
  BY SMTT(60) DEF Recycle, Recyclable, TypeOK, Quiet, Up, Recovering, Counted, InOp, log
<1>2. LoggedOnce'
  BY SMTT(60) DEF Recycle, Recyclable, TypeOK, LoggedOnce, log
<1>3. HeaderOnDisk'
  BY SMTT(60) DEF Recycle, Recyclable, TypeOK, HeaderOnDisk, Up, Recovering, durable, log
<1>4. CacheClean'
  BY SMTT(60) DEF Recycle, Recyclable, TypeOK, CacheClean, Locked, durable, cache
<1>5. DirtyLogged'
  BY SMTT(60) DEF Recycle, Recyclable, TypeOK, DirtyLogged, Logged, Up, Recovering, cache, log
<1>6. Copied'
  <2>1. \A c \in Blocks : Bread(c)' = Bread(c)
    BY SMTT(60) DEF Recycle, Recyclable, Bread, CacheClean, TypeOK, durable
  <2>2. \A i \in 1..Len(lh) : lh[i] \in Blocks
    BY SMTT(60) DEF TypeOK
  <2>3. QED
    BY SMTT(60), <2>1, <2>2 DEF Recycle, Copied, durable, log
<1>7. Installed'
  BY SMTT(60) DEF Recycle, Recyclable, TypeOK, Installed, durable, cache, log
<1>8. QED  BY ZenonT(60), <1>1, <1>2, <1>3, <1>4, <1>5, <1>6, <1>7

LEMMA DInvCrash ==
  ASSUME CInv, DInv, Crash
  PROVE  DInv'
<1> USE LogAssumption DEF CInv, Control, DInv
<1>0. lh' = <<>> /\ 1..Len(lh') = {} /\ UNCHANGED <<disk, logd, hdr>>
  BY DEF Crash, durable
<1>a. ~Up' /\ \A q \in Procs : pc'[q] \in {"read_head", "off"}
  BY DEF Crash, Boot, Up, Recovering
<1>b. dirty' = {} /\ \A b \in Blocks : buf'[b] = NoBuf /\ ~Locked(b)'
  BY DEF Crash, Locked
<1>1. Quiet'
  BY ZenonT(60), <1>a DEF Quiet
<1>2. LoggedOnce'
  BY ZenonT(60), <1>0 DEF LoggedOnce
<1>3. HeaderOnDisk'
  <2>1. \A i, j \in 1..Len(hdr') : hdr'[i] = hdr'[j] => i = j
    BY <1>0 DEF HeaderOnDisk
  <2>2. QED
    BY ZenonT(60), <1>a, <2>1 DEF HeaderOnDisk
<1>4. CacheClean'
  BY ZenonT(60), <1>b DEF CacheClean
<1>5. DirtyLogged'
  BY ZenonT(60), <1>b DEF DirtyLogged
<1>6. Copied'
  BY ZenonT(60), <1>0 DEF Copied
<1>7. Installed'
  BY ZenonT(60), <1>0 DEF Installed
<1>8. QED  BY ZenonT(60), <1>1, <1>2, <1>3, <1>4, <1>5, <1>6, <1>7

LEMMA DInvStutter ==
  ASSUME CInv, DInv, UNCHANGED vars
  PROVE  DInv'
<1> USE DEF DInv
<1>0. UNCHANGED <<disk, logd, hdr, buf, dirty, lh, outstanding, committing, pc, held, tail>>
  BY DEF vars, durable, cache, log
<1>1. Quiet' /\ LoggedOnce' /\ HeaderOnDisk'
  BY <1>0 DEF Quiet, LoggedOnce, HeaderOnDisk, Up, Counted
<1>2. CacheClean' /\ DirtyLogged'
  BY <1>0 DEF CacheClean, Locked, DirtyLogged, Logged, Up
<1>3. Copied' /\ Installed'
  BY <1>0 DEF Copied, Bread, Installed
<1>4. QED  BY ZenonT(60), <1>1, <1>2, <1>3

LEMMA DInvStep == CInv /\ DInv /\ [Next]_vars => DInv'
BY DInvBeginOpSleep, DInvBeginOp, DInvLogWriteCheck, DInvLogWrite, DInvEndOp,
   DInvWriteLog, DInvWriteHead, DInvInstallTrans, DInvEraseHead,
   DInvCommitDone, DInvReadHead, DInvRecoverClear, DInvReadBlock,
   DInvRecycle, DInvCrash, DInvStutter DEF Next, Step
=============================================================================
