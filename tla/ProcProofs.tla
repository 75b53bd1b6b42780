----------------------------- MODULE ProcProofs -----------------------------
(***************************************************************************)
(* Proofs about Proc: fork(), exit() and wait() keep the invariant of      *)
(* ProcInv, and what follows from it.                                      *)
(***************************************************************************)
EXTENDS ProcInv

USE Names DEF States, Interruptible, Resumed, Forking, Live

(***************************************************************************)
(* fork().                                                                 *)
(***************************************************************************)
(* What fork() does to its EMBRYO k, or to the UNUSED slot that becomes    *)
(* it, disturbs nobody: no CPU runs k and no other fork() has it.          *)
ForkFrame(c, i, k) ==
  /\ cpc[c] = "run" /\ proc[c] = i /\ UNCHANGED cpu /\ UNCHANGED lock
  /\ state[k] \in {"UNUSED", "EMBRYO"} /\ pc'[k] \in {"forkret", "zombie"}
  /\ \A j \in Slots \ {i} : pc[j] \in Forking => np[j] # k
  /\ \A j \in Slots \ {i, k} : SameSlot(j)
  /\ killed' = killed /\ yielded' = yielded
  /\ state'[i] = state[i] /\ kstack'[i] = kstack[i] /\ parent'[i] = parent[i]
  /\ ~yielded[i] /\ pc'[i] \in Forking \cup {"ret"} /\ np'[k] = np[k]
  /\ pc'[i] \in Forking => np'[i] = k /\ EmbryoOf(i)'
  /\ PlaceOf(k)' /\ state'[k] \notin {"SLEEPING", "ZOMBIE"}
  /\ parent'[k] = parent[k] \/ (parent[k] = None /\ parent'[k] = i)
  /\ state'[k] = "UNUSED" => parent'[k] = None
  /\ state'[k] \notin {"UNUSED", "EMBRYO"} => parent'[k] = i

LEMMA ForkStep ==
  ASSUME IInv, NEW c \in CPUs, NEW i \in Slots, NEW k \in Slots, ForkFrame(c, i, k)
  PROVE  LockHeld' /\ CpuProc' /\ Places' /\ Embryos' /\ Family' /\ WaitNotStuck'
<1> USE DEF ForkFrame
<1>1. /\ state[i] = "RUNNING" /\ k # i
      /\ \A d \in CPUs \ {c} : proc[d] \in (Slots \ {i}) \cup {None}
  BY RunsAlone
<1>2. LockHeld' /\ CpuProc'
  <2>1. ASSUME NEW d \in CPUs \ {c}, proc[d] \in Slots PROVE SameSlot(proc[d])
    <3>1. proc[d] # k /\ proc[d] # i
      BY <1>1, <2>1 DEF IInv, CpuProc
    <3> QED BY <2>1, <3>1
  <2> QED BY <1>1, <2>1, ThreadStep
<1>3. Places'
  <2> SUFFICES ASSUME NEW j \in Slots, j # k PROVE PlaceOf(j)'
    BY DEF Places
  <2>1. PlaceOf(j)
    BY DEF IInv, Places
  <2>2. CASE j = i
    BY <1>1, <2>1, <2>2 DEF PlaceOf
  <2>3. CASE j # i
    BY <2>1, <2>3 DEF PlaceOf, SameSlot
  <2> QED BY <2>2, <2>3
<1>4. Embryos'
  <2>1. ASSUME NEW j \in Slots \ {i}, pc'[j] \in Forking
        PROVE  /\ pc[j] \in Forking /\ np'[j] = np[j] /\ np[j] \in Slots \ {i, k}
               /\ EmbryoOf(j)'
    <3>1. j # k /\ SameSlot(j)
      BY <2>1
    <3>2. EmbryoOf(j) /\ pc[j] \in Forking
      BY <2>1, <3>1 DEF IInv, Embryos, SameSlot
    <3>3. np[j] \in Slots \ {i, k}
      BY <1>1, <3>2 DEF EmbryoOf
    <3>4. SameSlot(np[j])
      BY <3>3
    <3> QED BY <3>1, <3>2, <3>3, <3>4 DEF EmbryoOf, SameSlot
  <2>2. ASSUME NEW j \in Slots, NEW l \in Slots, pc'[j] \in Forking, pc'[l] \in Forking,
               np'[j] = np'[l]
        PROVE  j = l
    <3>1. CASE j = i \/ l = i
      BY <2>1, <2>2, <3>1
    <3>2. CASE j # i /\ l # i
      BY <2>1, <2>2, <3>2 DEF IInv, Embryos
    <3> QED BY <3>1, <3>2
  <2> QED BY <2>1, <2>2 DEF Embryos
<1>5. /\ \A j \in Slots \ {k} : state'[j] = state[j] /\ parent'[j] = parent[j]
      /\ \A j \in Slots \ {i, k} : pc'[j] = pc[j]
  BY DEF SameSlot
<1>6. Family'
  <2>0. TypeOK /\ Family /\ k # initproc
    BY DEF IInv, Family
  <2>1. ASSUME NEW j \in Slots \ {initproc}, state'[j] \notin {"UNUSED", "EMBRYO"}
        PROVE  parent'[j] # None /\ Live(parent[j])'
    <3>1. CASE j = k
      BY <1>1, <1>5, <2>1, <3>1
    <3>2. CASE j # k
      <4>1. parent[j] \in Slots /\ Live(parent[j]) /\ parent'[j] = parent[j]
        <5>1. parent[j] \in Slots \cup {None} /\ HasParent
          BY <2>0 DEF TypeOK, Family
        <5> QED BY <1>5, <2>1, <3>2, <5>1 DEF HasParent
      <4> QED BY <1>5, <4>1
    <3> QED BY <3>1, <3>2
  <2>2. HasParent'
    BY <2>1 DEF HasParent
  <2>3. ASSUME NEW j \in Slots
        PROVE  (state'[j] = "UNUSED" => parent'[j] = None) /\ parent'[j] # j
    BY <1>1, <1>5, <2>0 DEF Family
  <2>4. parent'[initproc] = None /\ Live(initproc)'
    BY <1>5, <2>0 DEF Family
  <2> QED BY <2>2, <2>3, <2>4 DEF Family
<1>7. WaitNotStuck'
  <2> SUFFICES ASSUME NEW j \in Slots, state'[j] = "SLEEPING", pc'[j] = "wait_woken"
               PROVE  Zombies(j)' = {} /\ Children(j)' # {} /\ ~killed'[j]
    BY DEF WaitNotStuck
  <2>1. j # i /\ j # k /\ state[j] = "SLEEPING" /\ pc[j] = "wait_woken"
    BY <1>1, <1>5
  <2>2. Zombies(j) = {} /\ Children(j) # {} /\ ~killed[j]
    BY <2>1 DEF IInv, WaitNotStuck
  <2>3. Zombies(j)' \subseteq Zombies(j) /\ Children(j) \subseteq Children(j)'
    BY <1>5, <2>1 DEF Zombies, Children
  <2> QED BY <2>2, <2>3
<1> QED BY <1>2, <1>3, <1>4, <1>6, <1>7

(* The EMBRYO of a fork() in progress. *)
LEMMA ItsEmbryo ==
  ASSUME IInv, NEW i \in Slots, pc[i] \in Forking, state[i] = "RUNNING"
  PROVE  /\ EmbryoOf(i) /\ np[i] # i /\ pc[np[i]] \in {"forkret", "zombie"} /\ ~yielded[np[i]]
         /\ \A j \in Slots \ {i} : pc[j] \in Forking => np[j] # np[i]
<1>1. EmbryoOf(i) /\ \A j \in Slots \ {i} : pc[j] \in Forking => np[j] # np[i]
  BY DEF IInv, Embryos
<1>2. PlaceOf(np[i]) /\ yielded[np[i]] \in BOOLEAN
  BY <1>1 DEF EmbryoOf, IInv, Places, TypeOK
<1> QED BY <1>1, <1>2 DEF EmbryoOf, PlaceOf

LEMMA ForkAllocKeeps ==
  ASSUME IInv, NEW c \in CPUs, NEW i \in Slots, ForkAlloc(c, i)
  PROVE  IInv'
<1> DEFINE unused == {j \in Slots : state[j] = "UNUSED"}
<1>1. cpc[c] = "run" /\ proc[c] = i /\ pc[i] = "fork" /\ ~yielded[i] /\ lock = NoCpu
  BY DEF ForkAlloc, At
<1>2. CASE unused = {}
  <2>1. Goto(i, "ret") /\ UNCHANGED <<table, np, lock, cpu, yielded>>
    BY <1>2 DEF ForkAlloc
  <2> QED BY <1>1, <2>1, MoveKeeps
<1>3. CASE unused # {}
  <2>1. PICK k \in First(unused) :
          /\ np' = [np EXCEPT ![i] = k]
          /\ state' = [state EXCEPT ![k] = "EMBRYO"]
          /\ pid' = [pid EXCEPT ![k] = nextpid]
    BY <1>3 DEF ForkAlloc
  <2>2. k \in Slots /\ state[k] = "UNUSED"
    BY DEF First
  <2>3. /\ nextpid' = nextpid + 1
        /\ pc' = [pc EXCEPT ![i] = "kstack"]
        /\ UNCHANGED <<parent, killed, chan, kstack, lock, yielded>> /\ UNCHANGED cpu
    BY <1>3 DEF ForkAlloc, Goto
  <2>4. state[i] = "RUNNING"
    BY <1>1, RunsAlone
  <2>5. TypeOK'
    <3>1. np' \in [Slots -> Slots \cup {None}] /\ state' \in [Slots -> States]
      BY <2>1, <2>2 DEF IInv, TypeOK
    <3>2. pid' \in [Slots -> Nat] /\ nextpid' \in Nat
      BY <2>1, <2>2, <2>3 DEF IInv, TypeOK
    <3> QED BY <2>3, <3>1, <3>2 DEF IInv, TypeOK, cpu
  <2>6. /\ \A j \in Slots \ {i, k} : SameSlot(j)
        /\ k # i /\ state'[i] = state[i] /\ np'[i] = k /\ pc'[i] = "kstack"
        /\ state'[k] = "EMBRYO" /\ pc'[k] = pc[k] /\ np'[k] = np[k]
    BY <2>1, <2>2, <2>3, <2>4 DEF IInv, TypeOK, SameSlot
  <2>7. parent[k] = None /\ PlaceOf(k) /\ \A j \in Slots : pc[j] \in Forking => np[j] # k
    BY <2>2 DEF IInv, Family, Places, Embryos, EmbryoOf
  <2>8. EmbryoOf(i)' /\ PlaceOf(k)' /\ pc[k] \in {"forkret", "zombie"}
    BY <2>2, <2>3, <2>6, <2>7 DEF EmbryoOf, PlaceOf
  <2>9. LockHeld' /\ CpuProc' /\ Places' /\ Embryos' /\ Family' /\ WaitNotStuck'
    <3>1. k \in Slots /\ ForkFrame(c, i, k)
      BY <1>1, <2>2, <2>3, <2>6, <2>7, <2>8 DEF ForkFrame
    <3> QED BY <3>1, ForkStep
  <2> QED BY <2>5, <2>9 DEF IInv
<1> QED BY <1>2, <1>3

LEMMA ForkStackKeeps ==
  ASSUME IInv, NEW c \in CPUs, NEW i \in Slots, ForkStack(c, i)
  PROVE  IInv'
<1>1. cpc[c] = "run" /\ proc[c] = i /\ pc[i] = "kstack" /\ ~yielded[i]
  BY DEF ForkStack, At
<1>2. PICK k : k = np[i]
  OBVIOUS
<1>3. state[i] = "RUNNING"
  BY <1>1, RunsAlone
<1>4. /\ EmbryoOf(i) /\ k # i /\ pc[k] \in {"forkret", "zombie"} /\ ~yielded[k]
      /\ \A j \in Slots \ {i} : pc[j] \in Forking => np[j] # k
  BY <1>1, <1>2, <1>3, ItsEmbryo
<1>5. k \in Slots /\ state[k] = "EMBRYO" /\ parent[k] = None
  BY <1>1, <1>2, <1>4 DEF EmbryoOf
<1>6. PICK ok \in BOOLEAN :
        /\ kstack' = [kstack EXCEPT ![k] = ok]
        /\ state' = [state EXCEPT ![k] = IF ok THEN @ ELSE "UNUSED"]
        /\ pc' = [pc EXCEPT ![i] = IF ok THEN "copy" ELSE "ret",
                            ![k] = IF ok THEN "forkret" ELSE @]
  BY <1>2 DEF ForkStack
<1>7. UNCHANGED <<pid, parent, killed, chan, nextpid, lock, np, yielded>> /\ UNCHANGED cpu
  BY DEF ForkStack
<1>8. CASE ~ok
  <2>0. /\ kstack' = [kstack EXCEPT ![k] = FALSE] /\ state' = [state EXCEPT ![k] = "UNUSED"]
        /\ pc' = [pc EXCEPT ![i] = "ret"]
    BY <1>4, <1>5, <1>6, <1>8 DEF IInv, TypeOK
  <2>1. TypeOK'
    BY <1>5, <1>7, <2>0 DEF IInv, TypeOK, cpu
  <2>2. \A j \in Slots \ {k} : state'[j] = state[j] /\ kstack'[j] = kstack[j]
    BY <1>5, <2>0 DEF IInv, TypeOK
  <2>3. /\ \A j \in Slots \ {i} : pc'[j] = pc[j]
        /\ state'[k] = "UNUSED" /\ pc'[i] = "ret" /\ parent' = parent
    BY <1>5, <1>7, <2>0 DEF IInv, TypeOK
  <2>4. \A j \in Slots \ {i, k} : SameSlot(j)
    BY <1>7, <2>2, <2>3 DEF SameSlot
  <2>5. PlaceOf(k)'
    BY <1>4, <1>5, <1>7, <2>3 DEF PlaceOf
  <2>6. LockHeld' /\ CpuProc' /\ Places' /\ Embryos' /\ Family' /\ WaitNotStuck'
    <3>1. k \in Slots /\ ForkFrame(c, i, k)
      BY <1>1, <1>4, <1>5, <1>7, <2>2, <2>3, <2>4, <2>5 DEF ForkFrame
    <3> QED BY <3>1, ForkStep
  <2> QED BY <2>1, <2>6 DEF IInv
<1>9. CASE ok
  <2>0. /\ kstack' = [kstack EXCEPT ![k] = TRUE] /\ state' = state
        /\ pc' = [pc EXCEPT ![i] = "copy", ![k] = "forkret"]
    BY <1>5, <1>6, <1>9 DEF IInv, TypeOK
  <2>1. TypeOK'
    BY <1>5, <1>7, <2>0 DEF IInv, TypeOK, cpu
  <2>2. kstack'[k] /\ \A j \in Slots \ {k} : kstack'[j] = kstack[j]
    BY <1>5, <2>0 DEF IInv, TypeOK
  <2>3. /\ \A j \in Slots \ {i, k} : pc'[j] = pc[j]
        /\ pc'[i] = "copy" /\ pc'[k] = "forkret" /\ state' = state
    BY <1>4, <1>5, <2>0 DEF IInv, TypeOK
  <2>4. \A j \in Slots \ {i, k} : SameSlot(j)
    BY <1>7, <2>2, <2>3 DEF SameSlot
  <2>5. EmbryoOf(i)' /\ PlaceOf(k)'
    BY <1>2, <1>4, <1>5, <1>7, <2>2, <2>3 DEF EmbryoOf, PlaceOf
  <2>6. LockHeld' /\ CpuProc' /\ Places' /\ Embryos' /\ Family' /\ WaitNotStuck'
    <3>1. k \in Slots /\ ForkFrame(c, i, k)
      BY <1>1, <1>2, <1>4, <1>5, <1>7, <2>2, <2>3, <2>4, <2>5 DEF ForkFrame
    <3> QED BY <3>1, ForkStep
  <2> QED BY <2>1, <2>6 DEF IInv
<1> QED BY <1>8, <1>9

LEMMA ForkCopyKeeps ==
  ASSUME IInv, NEW c \in CPUs, NEW i \in Slots, ForkCopy(c, i)
  PROVE  IInv'
<1>1. cpc[c] = "run" /\ proc[c] = i /\ pc[i] = "copy" /\ ~yielded[i]
  BY DEF ForkCopy, At
<1>2. PICK k : k = np[i]
  OBVIOUS
<1>3. state[i] = "RUNNING"
  BY <1>1, RunsAlone
<1>4. /\ EmbryoOf(i) /\ k # i /\ ~yielded[k]
      /\ \A j \in Slots \ {i} : pc[j] \in Forking => np[j] # k
  BY <1>1, <1>2, <1>3, ItsEmbryo
<1>5. k \in Slots /\ state[k] = "EMBRYO" /\ parent[k] = None /\ pc[k] = "forkret" /\ kstack[k]
  BY <1>1, <1>2, <1>4 DEF EmbryoOf
<1>6. PICK ok \in BOOLEAN :
        /\ kstack' = [kstack EXCEPT ![k] = ok]
        /\ state' = [state EXCEPT ![k] = IF ok THEN @ ELSE "UNUSED"]
        /\ parent' = [parent EXCEPT ![k] = IF ok THEN i ELSE @]
        /\ pc' = [pc EXCEPT ![i] = IF ok THEN "publish" ELSE "ret"]
  BY <1>2 DEF ForkCopy, Goto
<1>7. UNCHANGED <<pid, killed, chan, nextpid, lock, np, yielded>> /\ UNCHANGED cpu
  BY DEF ForkCopy
<1>8. CASE ~ok
  <2>0. /\ kstack' = [kstack EXCEPT ![k] = FALSE] /\ state' = [state EXCEPT ![k] = "UNUSED"]
        /\ pc' = [pc EXCEPT ![i] = "ret"] /\ parent' = parent
    BY <1>5, <1>6, <1>8 DEF IInv, TypeOK
  <2>1. TypeOK'
    BY <1>5, <1>7, <2>0 DEF IInv, TypeOK, cpu
  <2>2. \A j \in Slots \ {k} : state'[j] = state[j] /\ kstack'[j] = kstack[j]
    BY <1>5, <2>0 DEF IInv, TypeOK
  <2>3. /\ \A j \in Slots \ {i} : pc'[j] = pc[j]
        /\ state'[k] = "UNUSED" /\ pc'[i] = "ret" /\ parent' = parent
    BY <1>5, <1>7, <2>0 DEF IInv, TypeOK
  <2>4. \A j \in Slots \ {i, k} : SameSlot(j)
    BY <1>7, <2>2, <2>3 DEF SameSlot
  <2>5. PlaceOf(k)'
    BY <1>4, <1>5, <1>7, <2>3 DEF PlaceOf
  <2>6. LockHeld' /\ CpuProc' /\ Places' /\ Embryos' /\ Family' /\ WaitNotStuck'
    <3>1. k \in Slots /\ ForkFrame(c, i, k)
      BY <1>1, <1>4, <1>5, <1>7, <2>2, <2>3, <2>4, <2>5 DEF ForkFrame
    <3> QED BY <3>1, ForkStep
  <2> QED BY <2>1, <2>6 DEF IInv
<1>9. CASE ok
  <2>0. /\ kstack' = kstack /\ state' = state /\ parent' = [parent EXCEPT ![k] = i]
        /\ pc' = [pc EXCEPT ![i] = "publish"]
    BY <1>5, <1>6, <1>9 DEF IInv, TypeOK
  <2>1. TypeOK'
    BY <1>5, <1>7, <2>0 DEF IInv, TypeOK, cpu
  <2>2. /\ \A j \in Slots \ {i, k} : SameSlot(j)
        /\ state' = state /\ kstack' = kstack /\ parent'[i] = parent[i] /\ pc'[i] = "publish"
        /\ pc'[k] = pc[k] /\ parent'[k] = i
    BY <1>4, <1>5, <1>7, <2>0 DEF IInv, TypeOK, SameSlot
  <2>3. EmbryoOf(i)' /\ PlaceOf(k)'
    BY <1>2, <1>4, <1>5, <1>7, <2>2 DEF EmbryoOf, PlaceOf
  <2>4. LockHeld' /\ CpuProc' /\ Places' /\ Embryos' /\ Family' /\ WaitNotStuck'
    <3>1. k \in Slots /\ ForkFrame(c, i, k)
      BY <1>1, <1>2, <1>4, <1>5, <1>7, <2>2, <2>3 DEF ForkFrame
    <3> QED BY <3>1, ForkStep
  <2> QED BY <2>1, <2>4 DEF IInv
<1> QED BY <1>8, <1>9

LEMMA ForkPublishKeeps ==
  ASSUME IInv, NEW c \in CPUs, NEW i \in Slots, ForkPublish(c, i)
  PROVE  IInv'
<1>1. cpc[c] = "run" /\ proc[c] = i /\ pc[i] = "publish" /\ ~yielded[i]
  BY DEF ForkPublish, At
<1>2. PICK k : k = np[i]
  OBVIOUS
<1>3. state[i] = "RUNNING"
  BY <1>1, RunsAlone
<1>4. /\ EmbryoOf(i) /\ k # i /\ ~yielded[k]
      /\ \A j \in Slots \ {i} : pc[j] \in Forking => np[j] # k
  BY <1>1, <1>2, <1>3, ItsEmbryo
<1>5. k \in Slots /\ state[k] = "EMBRYO" /\ parent[k] = i /\ pc[k] = "forkret" /\ kstack[k]
  BY <1>1, <1>2, <1>4 DEF EmbryoOf
<1>6. /\ state' = [state EXCEPT ![k] = "RUNNABLE"]
      /\ np' = [np EXCEPT ![i] = None]
      /\ pc' = [pc EXCEPT ![i] = "ret"]
      /\ UNCHANGED <<pid, parent, killed, chan, kstack, nextpid, lock, yielded>> /\ UNCHANGED cpu
  BY <1>2 DEF ForkPublish, Goto
<1>7. TypeOK'
  BY <1>5, <1>6 DEF IInv, TypeOK, cpu
<1>8. /\ \A j \in Slots \ {i, k} : SameSlot(j)
      /\ state'[i] = state[i] /\ np'[k] = np[k] /\ pc'[i] = "ret"
      /\ state'[k] = "RUNNABLE" /\ pc'[k] = pc[k]
  BY <1>4, <1>5, <1>6 DEF IInv, TypeOK, SameSlot
<1>9. PlaceOf(k)'
  BY <1>4, <1>5, <1>6, <1>8 DEF PlaceOf
<1>10. LockHeld' /\ CpuProc' /\ Places' /\ Embryos' /\ Family' /\ WaitNotStuck'
  <2>1. k \in Slots /\ ForkFrame(c, i, k)
    BY <1>1, <1>4, <1>5, <1>6, <1>8, <1>9 DEF ForkFrame
  <2> QED BY <2>1, ForkStep
<1> QED BY <1>7, <1>10 DEF IInv

(***************************************************************************)
(* exit() and wait().                                                      *)
(***************************************************************************)
LEMMA ExitKeeps ==
  ASSUME IInv, NEW c \in CPUs, NEW i \in Slots, Exit(c, i)
  PROVE  IInv'
<1>1. /\ cpc[c] = "run" /\ proc[c] = i /\ pc[i] = "exit" /\ ~yielded[i] /\ lock = NoCpu
      /\ i # initproc /\ Sched(c)
      /\ UNCHANGED <<pid, killed, chan, kstack, nextpid, np, yielded>>
  BY DEF Exit, At
<1>2. state[i] = "RUNNING" /\ TypeOK /\ Family
  BY <1>1, RunsAlone DEF IInv
<1>3. /\ \A j \in Slots \ {i} : pc'[j] = pc[j]
      /\ \A j \in Slots : parent'[j] = IF parent[j] = i THEN initproc ELSE parent[j]
      /\ \A j \in Slots \ {i} : \/ state'[j] = state[j] /\ ~(state[j] = "SLEEPING" /\ chan[j] \in ExitWakes(i))
                                \/ state[j] = "SLEEPING" /\ state'[j] = "RUNNABLE"
      /\ pc'[i] = "zombie" /\ state'[i] = "ZOMBIE"
  BY <1>2 DEF Exit, TypeOK, Goto, Reparented
<1>4. TypeOK'
  <2>1. /\ state' \in [Slots -> States] /\ parent' \in [Slots -> Slots \cup {None}]
        /\ pc' = [pc EXCEPT ![i] = "zombie"]
    BY <1>2 DEF Exit, TypeOK, Goto, Reparented
  <2> QED BY <1>1, <1>2, <2>1 DEF TypeOK, Sched, HandOver
<1>5. LockHeld' /\ CpuProc'
  <2>1. /\ state'[i] \in {"SLEEPING", "RUNNABLE", "ZOMBIE"}
        /\ \A j \in Slots : state[j] = "RUNNING" /\ j # i => state'[j] = "RUNNING"
        /\ \A j \in Slots \ {i} : pc'[j] = pc[j] /\ yielded'[j] = yielded[j]
    BY <1>1, <1>3
  <2> QED BY <1>1, <2>1, SchedKeeps
<1>6. Places'
  <2> SUFFICES ASSUME NEW j \in Slots PROVE PlaceOf(j)'
    BY DEF Places
  <2>1. PlaceOf(j)
    BY DEF IInv, Places
  <2>2. CASE j = i
    BY <1>1, <1>2, <1>3, <2>1, <2>2 DEF PlaceOf
  <2>3. CASE j # i
    BY <1>1, <1>3, <2>1, <2>3 DEF PlaceOf
  <2> QED BY <2>2, <2>3
(* An EMBRYO of i would be its own fork()'s, and i is in exit(). *)
<1>7. Embryos'
  <2> SUFFICES ASSUME NEW j \in Slots, pc'[j] \in Forking
               PROVE  pc'[j] = pc[j] /\ np'[j] = np[j] /\ SameSlot(np[j])
    BY EmbryosStep DEF IInv
  <2>1. j # i /\ pc'[j] = pc[j] /\ np'[j] = np[j]
    BY <1>1, <1>3
  <2>2. EmbryoOf(j)
    BY <2>1 DEF IInv, Embryos
  <2>3. np[j] \in Slots \ {i} /\ state[np[j]] = "EMBRYO" /\ parent[np[j]] # i
    BY <1>2, <2>1, <2>2 DEF EmbryoOf
  <2>4. pc'[np[j]] = pc[np[j]] /\ state'[np[j]] = state[np[j]] /\ parent'[np[j]] = parent[np[j]]
    BY <1>3, <2>3
  <2> QED BY <1>1, <2>1, <2>4 DEF SameSlot
<1>8. Family'
  <2>1. \A j \in Slots \ {i} : /\ Live(j) => Live(j)'
                               /\ state'[j] \in {"UNUSED", "EMBRYO"} => state'[j] = state[j]
    BY <1>3
  <2>2. parent'[initproc] = None /\ Live(initproc)'
    BY <1>1, <1>2, <1>3, <2>1 DEF Family
  <2>3. \A j \in Slots : parent'[j] # j /\ (state'[j] = "UNUSED" => parent'[j] = None)
    BY <1>1, <1>2, <1>3, <2>1 DEF Family
  <2>4. HasParent'
    <3> SUFFICES ASSUME NEW j \in Slots \ {initproc}, state'[j] \notin {"UNUSED", "EMBRYO"}
                 PROVE  parent'[j] # None /\ Live(parent[j])'
      BY DEF HasParent
    <3>1. state[j] \notin {"UNUSED", "EMBRYO"}
      BY <1>2, <1>3
    <3>2. parent[j] \in Slots /\ Live(parent[j])
      <4>1. parent[j] \in Slots \cup {None} /\ HasParent
        BY <1>2 DEF TypeOK, Family
      <4> QED BY <3>1, <4>1 DEF HasParent
    <3> QED BY <1>3, <2>1, <2>2, <3>2
  <2> QED BY <2>2, <2>3, <2>4 DEF Family
(* Whoever sleeps in wait() and has i, or a zombie of i, for a child after *)
(* this step, was on a channel that exit() wakes.                          *)
<1>9. WaitNotStuck'
  <2> SUFFICES ASSUME NEW j \in Slots, state'[j] = "SLEEPING", pc'[j] = "wait_woken"
               PROVE  Zombies(j)' = {} /\ Children(j)' # {} /\ ~killed'[j]
    BY DEF WaitNotStuck
  <2>1. j # i /\ state[j] = "SLEEPING" /\ pc[j] = "wait_woken" /\ j \notin ExitWakes(i)
    <3>1. j # i /\ state[j] = "SLEEPING" /\ pc[j] = "wait_woken" /\ chan[j] \notin ExitWakes(i)
      BY <1>3
    <3>2. chan[j] = j
      BY <3>1 DEF IInv, Places, PlaceOf
    <3> QED BY <3>1, <3>2
  <2>2. Zombies(j) = {} /\ Children(j) # {} /\ ~killed[j]
    BY <2>1 DEF IInv, WaitNotStuck
  <2>3. parent[i] # j /\ (j = initproc => Zombies(i) = {})
    BY <2>1 DEF ExitWakes
  <2>4. ASSUME NEW z \in Slots, parent'[z] = j, state'[z] = "ZOMBIE" PROVE FALSE
    <3>1. z # i
      BY <1>2, <1>3, <2>3, <2>4 DEF Family
    <3>2. state[z] = "ZOMBIE"
      BY <1>3, <2>4, <3>1
    <3>3. CASE parent[z] = i
      BY <1>3, <2>3, <2>4, <3>2, <3>3 DEF Zombies, Children
    <3>4. CASE parent[z] # i
      BY <1>3, <2>2, <2>4, <3>2, <3>4 DEF Zombies, Children
    <3> QED BY <3>3, <3>4
  <2>5. Children(j) \subseteq Children(j)'
    BY <1>3, <2>1 DEF Children
  <2>6. Zombies(j)' = {}
    BY <2>4 DEF Zombies, Children
  <2> QED BY <1>1, <2>2, <2>5, <2>6
<1> QED BY <1>4, <1>5, <1>6, <1>7, <1>8, <1>9 DEF IInv

(* wait() finds the lock free or has it: the scheduler gave it back. *)
LEMMA WaitKeeps ==
  ASSUME IInv, NEW c \in CPUs, NEW i \in Slots, Wait(c, i)
  PROVE  IInv'
<1>1. /\ cpc[c] = "run" /\ proc[c] = i /\ pc[i] \in {"wait", "wait_woken"} /\ ~yielded[i]
      /\ UNCHANGED <<nextpid, np, yielded>>
  BY DEF Wait, At
<1>2. /\ lock \in {c, NoCpu} /\ state[i] = "RUNNING" /\ TypeOK
      /\ \A d \in CPUs \ {c} : proc[d] \in (Slots \ {i}) \cup {None}
  <2>1. lock \in {c, NoCpu}
    BY <1>1 DEF Wait, At, IInv, LockHeld, InsideLock
  <2> QED BY <1>1, <2>1, RunsAlone DEF IInv
(* The zombie is on no CPU: one that is leaving it would have the lock. *)
<1>3. CASE Zombies(i) # {}
  <2>1. PICK z \in First(Zombies(i)) :
          /\ kstack' = [kstack EXCEPT ![z] = FALSE]
          /\ pid' = [pid EXCEPT ![z] = 0]
          /\ parent' = [parent EXCEPT ![z] = None]
          /\ killed' = [killed EXCEPT ![z] = FALSE]
          /\ state' = [state EXCEPT ![z] = "UNUSED"]
    BY <1>3 DEF Wait
  <2>2. z \in Slots /\ state[z] = "ZOMBIE" /\ parent[z] = i /\ z # i
    BY <1>2 DEF First, Zombies, Children
  <2>3. /\ chan' = [chan EXCEPT ![i] = None] /\ pc' = [pc EXCEPT ![i] = "ret"]
        /\ lock' = NoCpu /\ UNCHANGED cpu
    BY <1>3 DEF Wait, Goto
  <2>4. TypeOK'
    BY <1>1, <1>2, <2>1, <2>2, <2>3 DEF TypeOK, cpu
  <2>5. \A j \in Slots \ {z} : kstack'[j] = kstack[j] /\ killed'[j] = killed[j]
    BY <1>2, <2>1, <2>2 DEF TypeOK
  <2>6. /\ \A j \in Slots \ {z} : parent'[j] = parent[j] /\ state'[j] = state[j]
        /\ \A j \in Slots \ {i} : chan'[j] = chan[j] /\ pc'[j] = pc[j]
        /\ parent'[z] = None /\ state'[z] = "UNUSED" /\ pc'[i] = "ret"
    BY <1>2, <2>1, <2>2, <2>3 DEF TypeOK
  <2>7. \A j \in Slots \ {i, z} : SameSlot(j)
    BY <1>1, <2>5, <2>6 DEF SameSlot
  <2>8. LockHeld' /\ CpuProc'
    <3>1. ASSUME NEW d \in CPUs \ {c}, proc[d] \in Slots PROVE SameSlot(proc[d])
      <4>1. cpc[d] # "back"
        BY <1>2, <3>1 DEF IInv, LockHeld, InsideLock
      <4>2. proc[d] # z
        BY <2>2, <3>1, <4>1 DEF IInv, CpuProc
      <4> QED BY <1>2, <2>7, <3>1, <4>2
    <3>2. lock' = lock \/ (lock = c /\ lock' = NoCpu)
      BY <1>2, <2>3
    <3>3. state'[i] = "RUNNING" /\ ~yielded'[i] /\ pc'[i] \notin Resumed
      BY <1>1, <1>2, <2>2, <2>6
    <3> QED BY <1>1, <2>3, <3>1, <3>2, <3>3, ThreadStep
  <2>9. Places'
    <3> SUFFICES ASSUME NEW j \in Slots PROVE PlaceOf(j)'
      BY DEF Places
    <3>1. PlaceOf(j)
      BY DEF IInv, Places
    <3>2. CASE j = i
      BY <1>1, <1>2, <2>2, <2>5, <2>6, <3>1, <3>2 DEF PlaceOf
    <3>3. CASE j = z
      BY <1>1, <2>2, <2>6, <3>1, <3>3 DEF PlaceOf
    <3>4. CASE j # i /\ j # z
      BY <2>7, <3>1, <3>4 DEF PlaceOf, SameSlot
    <3> QED BY <3>2, <3>3, <3>4
  <2>10. Embryos'
    <3> SUFFICES ASSUME NEW j \in Slots, pc'[j] \in Forking
                 PROVE  pc'[j] = pc[j] /\ np'[j] = np[j] /\ SameSlot(np[j])
      BY EmbryosStep DEF IInv
    <3>1. pc'[j] = pc[j] /\ np'[j] = np[j]
      BY <1>1, <2>6
    <3>2. EmbryoOf(j)
      BY <3>1 DEF IInv, Embryos
    <3>3. np[j] \in Slots \ {i, z}
      BY <1>2, <2>2, <3>2 DEF EmbryoOf
    <3> QED BY <2>7, <3>1, <3>3
  (* A zombie is nobody's parent. *)
  <2>11. Family'
    <3>1. Family /\ z # initproc
      BY <2>2 DEF IInv, Family
    <3>2. ASSUME NEW j \in Slots \ {initproc}, state'[j] \notin {"UNUSED", "EMBRYO"}
          PROVE  parent'[j] # None /\ Live(parent[j])'
      <4>1. j # z /\ state[j] \notin {"UNUSED", "EMBRYO"} /\ parent'[j] = parent[j]
        BY <2>6, <3>2
      <4>2. parent[j] \in Slots /\ Live(parent[j])
        <5>1. parent[j] \in Slots \cup {None} /\ HasParent
          BY <1>2, <3>1 DEF TypeOK, Family
        <5> QED BY <3>2, <4>1, <5>1 DEF HasParent
      <4> QED BY <2>2, <2>6, <4>1, <4>2
    <3>3. HasParent'
      BY <3>2 DEF HasParent
    <3>4. ASSUME NEW j \in Slots
          PROVE  (state'[j] = "UNUSED" => parent'[j] = None) /\ parent'[j] # j
      BY <2>6, <3>1 DEF Family
    <3> QED BY <2>6, <3>1, <3>3, <3>4 DEF Family
  <2>12. WaitNotStuck'
    <3> SUFFICES ASSUME NEW j \in Slots, state'[j] = "SLEEPING", pc'[j] = "wait_woken"
                 PROVE  Zombies(j)' = {} /\ Children(j)' # {} /\ ~killed'[j]
      BY DEF WaitNotStuck
    <3>1. j \in Slots \ {i, z} /\ state[j] = "SLEEPING" /\ pc[j] = "wait_woken"
      BY <2>6
    <3>2. Zombies(j) = {} /\ Children(j) # {} /\ ~killed[j]
      BY <3>1 DEF IInv, WaitNotStuck
    <3>3. Zombies(j)' \subseteq Zombies(j) /\ Children(j) \subseteq Children(j)'
      BY <2>2, <2>6, <3>1 DEF Zombies, Children
    <3> QED BY <2>5, <3>1, <3>2, <3>3
  <2> QED BY <2>4, <2>8, <2>9, <2>10, <2>11, <2>12 DEF IInv
<1>4. CASE Zombies(i) = {} /\ (Children(i) = {} \/ killed[i])
  <2>1. /\ chan' = [chan EXCEPT ![i] = None] /\ pc' = [pc EXCEPT ![i] = "ret"]
        /\ lock' = NoCpu /\ UNCHANGED cpu
        /\ UNCHANGED <<state, pid, parent, killed, kstack>>
    BY <1>4 DEF Wait, Goto
  <2>2. TypeOK'
    BY <1>1, <1>2, <2>1 DEF TypeOK, cpu
  <2>3. /\ \A j \in Slots \ {i} : SameSlot(j)
        /\ pc'[i] = "ret" /\ UNCHANGED <<state, parent, killed, kstack, np, yielded>>
    BY <1>1, <1>2, <2>1 DEF TypeOK, SameSlot
  <2>4. LockHeld' /\ CpuProc'
    <3>1. (lock' = lock \/ (lock = c /\ lock' = NoCpu)) /\ UNCHANGED cpu
      BY <1>2, <2>1
    <3> QED BY <1>1, <1>2, <2>3, <3>1, ThreadStep
  <2>5. PlaceOf(i)'
    BY <1>1, <1>2, <2>3 DEF IInv, Places, PlaceOf
  <2>6. Places' /\ Embryos' /\ Family' /\ WaitNotStuck'
    BY <1>2, <2>3, <2>5, OneSlot
  <2> QED BY <2>2, <2>4, <2>6 DEF IInv
<1>5. CASE Zombies(i) = {} /\ Children(i) # {} /\ ~killed[i]
  <2>1. /\ chan' = [chan EXCEPT ![i] = i]
        /\ state' = [state EXCEPT ![i] = "SLEEPING"]
        /\ pc' = [pc EXCEPT ![i] = "wait_woken"] /\ Sched(c)
        /\ UNCHANGED <<pid, parent, killed, kstack>>
    BY <1>5 DEF Wait, Goto
  <2>2. TypeOK'
    BY <1>1, <1>2, <2>1 DEF TypeOK, Sched, HandOver
  <2>3. /\ \A j \in Slots \ {i} : SameSlot(j)
        /\ state'[i] = "SLEEPING" /\ pc'[i] = "wait_woken" /\ chan'[i] = i
        /\ UNCHANGED <<parent, killed, kstack, np, yielded>> /\ Sched(c)
    BY <1>1, <1>2, <2>1 DEF TypeOK, SameSlot
  <2>4. LockHeld' /\ CpuProc'
    <3>1. /\ state'[i] \in {"SLEEPING", "RUNNABLE", "ZOMBIE"}
          /\ \A j \in Slots : state[j] = "RUNNING" /\ j # i => state'[j] = "RUNNING"
          /\ \A j \in Slots \ {i} : pc'[j] = pc[j] /\ yielded'[j] = yielded[j]
      BY <2>3 DEF SameSlot
    <3> QED BY <1>1, <1>2, <2>3, <3>1, SchedKeeps
  <2>5. PlaceOf(i)'
    BY <1>1, <1>2, <2>3 DEF IInv, Places, PlaceOf
  <2>6. Places' /\ Embryos' /\ Family' /\ WaitNotStuck'
    BY <1>2, <1>5, <2>3, <2>5, OneSlot
  <2> QED BY <2>2, <2>4, <2>6 DEF IInv
<1> QED BY <1>3, <1>4, <1>5

(***************************************************************************)
(* The theorems.                                                           *)
(***************************************************************************)
LEMMA IInvStutter ==
  ASSUME IInv, UNCHANGED vars
  PROVE  IInv'
<1> USE DEF vars, table, cpu, thread, IInv
<1>1. TypeOK'
  BY DEF TypeOK
<1>2. LockHeld' /\ CpuProc'
  BY DEF LockHeld, InsideLock, CpuProc
<1> QED BY <1>1, <1>2, TableKept

LEMMA IInvNext == IInv /\ [Next]_vars => IInv'
<1> SUFFICES ASSUME IInv, [Next]_vars PROVE IInv'
  OBVIOUS
<1>1. ASSUME NEW c \in CPUs, Scheduler(c) PROVE IInv'
  BY <1>1, AcquireKeeps, SwitchToKeeps, ScanDoneKeeps, SwitchBackKeeps DEF Scheduler
<1>2. ASSUME NEW c \in CPUs, NEW i \in Slots, Thread(c, i) \/ Timer(c, i) \/ Fault(c, i)
      PROVE  IInv'
  <2>1. CASE \/ YieldReturn(c, i) \/ Forkret(c, i) \/ Syscall(c, i) \/ ReturnToUser(c, i)
             \/ Timer(c, i) \/ Fault(c, i)
    BY <2>1, YieldReturnKeeps, ForkretKeeps, SyscallKeeps, ReturnToUserKeeps, TimerKeeps,
       FaultKeeps
  <2>2. CASE ForkAlloc(c, i) \/ ForkStack(c, i) \/ ForkCopy(c, i) \/ ForkPublish(c, i)
    BY <2>2, ForkAllocKeeps, ForkStackKeeps, ForkCopyKeeps, ForkPublishKeeps
  <2>3. CASE Exit(c, i) \/ Wait(c, i) \/ Kill(c, i)
    BY <2>3, ExitKeeps, WaitKeeps, KillKeeps
  <2>4. CASE IoTest(c, i) \/ IoSleep(c, i) \/ IoWoken(c, i)
    BY <2>4, IoTestKeeps, IoSleepKeeps, IoWokenKeeps
  <2> QED BY <1>2, <2>1, <2>2, <2>3, <2>4 DEF Thread
<1>3. CASE Wakeup
  BY <1>3, WakeupKeeps
<1>4. CASE UNCHANGED vars
  BY <1>4, IInvStutter
<1> QED BY <1>1, <1>2, <1>3, <1>4 DEF Next

LEMMA IInvAlways == Spec => []IInv
BY IInvInit, IInvNext, PTL DEF Spec

(* No CPU executes on a freed kernel stack: wait() frees the stack of a    *)
(* zombie under ptable.lock, and a zombie that is still on its stack has   *)
(* that lock until the scheduler is back on its own.                       *)
THEOREM StackAliveTheorem == Spec => []StackAlive
<1>1. IInv => StackAlive
  BY DEF IInv, CpuProc, Places, PlaceOf, StackAlive
<1> QED BY <1>1, IInvAlways, PTL

(* exit() and kill() lose no wakeup: who sleeps in wait() has a child, no  *)
(* zombie among its children, and has not been killed.                     *)
THEOREM WaitNotStuckTheorem == Spec => []WaitNotStuck
<1>1. IInv => WaitNotStuck
  BY DEF IInv
<1> QED BY <1>1, IInvAlways, PTL

(* Neither panic of sched() about ptable.lock and RUNNING can happen, and  *)
(* no two CPUs run the same process.                                       *)
THEOREM SchedSafeTheorem ==
  Spec => [](SchedSafe /\ \A c, d \in CPUs : proc[c] = proc[d] /\ proc[c] # None => c = d)
<1>1. IInv => SchedSafe /\ \A c, d \in CPUs : proc[c] = proc[d] /\ proc[c] # None => c = d
  BY DEF IInv, LockHeld, InsideLock, CpuProc, SchedSafe
<1> QED BY <1>1, IInvAlways, PTL

(* Every process but initproc has a parent that is alive to wait() for it. *)
THEOREM HasParentTheorem == Spec => []HasParent
<1>1. IInv => HasParent
  BY DEF IInv, Family
<1> QED BY <1>1, IInvAlways, PTL
=============================================================================
