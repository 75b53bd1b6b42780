------------------------------ MODULE ProcInv -------------------------------
(***************************************************************************)
(* Proofs about Proc: what ptable.lock protects across swtch(), and the    *)
(* two properties of the process table that rest on it.                    *)
(***************************************************************************)
EXTENDS Proc, TLAPS

(***************************************************************************)
(* The inductive invariant.                                                *)
(***************************************************************************)
(* CPU c is in a stretch of code that runs with ptable.lock held: the      *)
(* scheduler's loop, or a thread that has not yet returned from sched().   *)
InsideLock(c) ==
  \/ cpc[c] \in {"scan", "back"}
  \/ cpc[c] = "run" /\ (yielded[proc[c]] \/ pc[proc[c]] \in Resumed)

LockHeld == \A c \in CPUs : InsideLock(c) => lock = c

(* c->proc is set while c runs a thread or is leaving one, for one CPU at  *)
(* a time; the thread is RUNNING until sched() is entered.                 *)
CpuProc ==
  /\ \A c \in CPUs : IF cpc[c] \in {"run", "back"} THEN proc[c] \in Slots ELSE proc[c] = None
  /\ \A c, d \in CPUs : proc[c] = proc[d] /\ proc[c] # None => c = d
  /\ \A c \in CPUs : cpc[c] = "run" => state[proc[c]] = "RUNNING"
  /\ \A c \in CPUs : cpc[c] = "back" => state[proc[c]] \in {"SLEEPING", "RUNNABLE", "ZOMBIE"}

(* The places of a fork() that has an EMBRYO slot. *)
Forking == {"kstack", "copy", "publish"}

(* A slot that is not a process is at no place of a system call, a zombie  *)
(* is at the end of exit(), and a process has a kernel stack; who sleeps   *)
(* in wait() sleeps on itself.                                             *)
PlaceOf(i) ==
  /\ state[i] \in {"UNUSED", "EMBRYO"} => pc[i] \in {"forkret", "zombie"}
  /\ state[i] = "ZOMBIE" => pc[i] = "zombie"
  /\ pc[i] = "zombie" => state[i] \in {"UNUSED", "EMBRYO", "ZOMBIE"}
  /\ state[i] \notin {"UNUSED", "EMBRYO"} => kstack[i]
  /\ state[i] = "SLEEPING" => pc[i] \in {"wait_woken", "io_woken"}
  /\ state[i] = "SLEEPING" /\ pc[i] = "wait_woken" => chan[i] = i
  /\ yielded[i] => pc[i] \in Interruptible

Places == \A i \in Slots : PlaceOf(i)

(* Each fork() works on an EMBRYO of its own, whose parent is None until   *)
(* copyuvm() has succeeded.                                                *)
EmbryoOf(i) ==
  /\ np[i] \in Slots /\ state[np[i]] = "EMBRYO"
  /\ pc[i] # "kstack" => pc[np[i]] = "forkret" /\ kstack[np[i]]
  /\ parent[np[i]] = IF pc[i] = "publish" THEN i ELSE None

Embryos ==
  /\ \A i \in Slots : pc[i] \in Forking => EmbryoOf(i)
  /\ \A i, j \in Slots : pc[i] \in Forking /\ pc[j] \in Forking /\ np[i] = np[j] => i = j

(* The family: initproc lives for ever and is nobody's child, a free slot  *)
(* has no parent, and every other process has one that is alive.           *)
Family ==
  /\ parent[initproc] = None /\ Live(initproc)
  /\ \A i \in Slots : /\ state[i] = "UNUSED" => parent[i] = None
                      /\ parent[i] # i
  /\ HasParent

IInv ==
  TypeOK /\ LockHeld /\ CpuProc /\ Places /\ Embryos /\ Family /\ WaitNotStuck

(* The step leaves slot j, its pid and p->killed aside. *)
SameSlot(j) ==
  /\ state'[j] = state[j] /\ pc'[j] = pc[j] /\ kstack'[j] = kstack[j] /\ chan'[j] = chan[j]
  /\ parent'[j] = parent[j] /\ np'[j] = np[j] /\ yielded'[j] = yielded[j]

(* The names and the constants, as the proofs use them. *)
LEMMA Names ==
  /\ initproc \in Slots /\ None \notin Slots /\ Io \notin Slots /\ Io # None
  /\ NoCpu \notin CPUs
BY ProcAssumption DEF Slots, initproc, None, Io

USE Names DEF States, Interruptible, Resumed, Forking, Live

LEMMA IInvInit == Init => IInv
<1> SUFFICES ASSUME Init PROVE IInv
  OBVIOUS
<1> USE DEF Init
<1>1. TypeOK
  BY ProcAssumption DEF TypeOK, initproc
<1>2. LockHeld /\ CpuProc
  BY DEF LockHeld, InsideLock, CpuProc
<1>3. Places /\ Embryos
  <2>1. Places
    BY DEF Places, PlaceOf
  <2>2. Embryos
    BY DEF Embryos
  <2> QED BY <2>1, <2>2
<1>4. Family
  BY DEF Family, HasParent
<1>5. WaitNotStuck
  BY DEF WaitNotStuck
<1> QED BY <1>1, <1>2, <1>3, <1>4, <1>5 DEF IInv

(***************************************************************************)
(* Steps that share their effect.                                          *)
(***************************************************************************)
(* What does not touch the process table. *)
LEMMA TableKept ==
  ASSUME IInv, UNCHANGED <<table, pc, np>>,
         \A i \in Slots : yielded'[i] => yielded[i]
  PROVE  Places' /\ Embryos' /\ Family' /\ WaitNotStuck'
<1> USE DEF table, IInv
<1>1. Places'
  BY DEF Places, PlaceOf
<1>2. Embryos'
  BY DEF Embryos, EmbryoOf
<1>3. Family' /\ WaitNotStuck'
  BY DEF Family, HasParent, WaitNotStuck, Zombies, Children
<1> QED BY <1>1, <1>2, <1>3

(* A fork() in progress goes on if the step leaves it and its EMBRYO. *)
LEMMA EmbryosStep ==
  ASSUME Embryos,
         \A j \in Slots : pc'[j] \in Forking =>
           pc'[j] = pc[j] /\ np'[j] = np[j] /\ SameSlot(np[j])
  PROVE  Embryos'
<1>1. ASSUME NEW j \in Slots, pc'[j] \in Forking
      PROVE  EmbryoOf(j)'
  <2>1. EmbryoOf(j) /\ pc'[j] = pc[j] /\ np'[j] = np[j] /\ SameSlot(np[j])
    BY <1>1 DEF Embryos
  <2> QED BY <2>1 DEF EmbryoOf, SameSlot
<1>2. \A j, k \in Slots : pc'[j] \in Forking /\ pc'[k] \in Forking /\ np'[j] = np'[k] => j = k
  BY DEF Embryos
<1> QED BY <1>1, <1>2 DEF Embryos

(* The family stays if no parent changes, nobody dies and nobody is born. *)
LEMMA FamilyStep ==
  ASSUME TypeOK, Family, UNCHANGED parent,
         \A j \in Slots : /\ state'[j] = "UNUSED" => parent[j] = None
                          /\ Live(j) => Live(j)'
                          /\ state'[j] \notin {"UNUSED", "EMBRYO"}
                               => state[j] \notin {"UNUSED", "EMBRYO"}
  PROVE  Family'
<1>1. ASSUME NEW j \in Slots \ {initproc}, state'[j] \notin {"UNUSED", "EMBRYO"}
      PROVE  parent'[j] # None /\ Live(parent[j])'
  <2>1. parent[j] \in Slots /\ Live(parent[j])
    BY <1>1 DEF TypeOK, Family, HasParent
  <2> QED BY <2>1
<1>2. HasParent'
  BY <1>1 DEF HasParent
<1> QED BY <1>2 DEF Family

(* Who sleeps in wait() may go on sleeping if its children stay and none   *)
(* of them becomes a zombie.                                               *)
LEMMA WaitStep ==
  ASSUME UNCHANGED parent,
         \A k \in Slots : state'[k] = "ZOMBIE" => state[k] = "ZOMBIE",
         NEW j \in Slots, Zombies(j) = {} /\ Children(j) # {}
  PROVE  Zombies(j)' = {} /\ Children(j)' # {}
BY DEF Zombies, Children

(* A step of one process that is alive before and after it. *)
LEMMA OneSlot ==
  ASSUME IInv, NEW i \in Slots, \A j \in Slots \ {i} : SameSlot(j),
         Live(i), Live(i)', parent' = parent, np' = np,
         \A j \in Slots : state'[j] = "SLEEPING" => killed'[j] = killed[j],
         pc'[i] = pc[i] \/ pc'[i] \notin Forking, PlaceOf(i)',
         state'[i] = "SLEEPING" /\ pc'[i] = "wait_woken"
           => Zombies(i) = {} /\ Children(i) # {} /\ ~killed[i]
  PROVE  Places' /\ Embryos' /\ Family' /\ WaitNotStuck'
<1>1. Places'
  <2> SUFFICES ASSUME NEW j \in Slots, j # i PROVE PlaceOf(j)'
    BY DEF Places
  <2>1. PlaceOf(j) /\ SameSlot(j)
    BY DEF IInv, Places
  <2> QED BY <2>1 DEF PlaceOf, SameSlot
<1>2. Embryos'
  <2> SUFFICES ASSUME NEW j \in Slots, pc'[j] \in Forking
               PROVE  pc'[j] = pc[j] /\ np'[j] = np[j] /\ SameSlot(np[j])
    BY EmbryosStep DEF IInv
  <2>1. pc'[j] = pc[j]
    BY DEF SameSlot
  <2>2. np[j] \in Slots /\ state[np[j]] = "EMBRYO"
    BY <2>1 DEF IInv, Embryos, EmbryoOf
  <2> QED BY <2>1, <2>2
<1>3. \A j \in Slots : /\ state'[j] = state[j] \/ (j = i /\ Live(i) /\ Live(i)')
  BY DEF SameSlot
<1>4. Family'
  <2>1. TypeOK /\ Family /\ UNCHANGED parent
    BY DEF IInv
  <2>2. \A j \in Slots : /\ state'[j] = "UNUSED" => parent[j] = None
                         /\ Live(j) => Live(j)'
                         /\ state'[j] \notin {"UNUSED", "EMBRYO"}
                              => state[j] \notin {"UNUSED", "EMBRYO"}
    BY <1>3, <2>1 DEF Family
  <2> QED BY <2>1, <2>2, FamilyStep
<1>5. WaitNotStuck'
  <2> SUFFICES ASSUME NEW j \in Slots, state'[j] = "SLEEPING", pc'[j] = "wait_woken"
               PROVE  Zombies(j)' = {} /\ Children(j)' # {} /\ ~killed'[j]
    BY DEF WaitNotStuck
  <2>1. \A k \in Slots : state'[k] = "ZOMBIE" => state[k] = "ZOMBIE"
    BY <1>3
  <2>2. CASE j = i
    BY <2>1, <2>2, WaitStep
  <2>3. CASE j # i
    <3>1. state[j] = "SLEEPING" /\ pc[j] = "wait_woken"
      BY <2>3 DEF SameSlot
    <3>2. Zombies(j) = {} /\ Children(j) # {} /\ ~killed[j]
      BY <3>1 DEF IInv, WaitNotStuck
    <3> QED BY <2>1, <3>1, <3>2, WaitStep
  <2> QED BY <2>2, <2>3
<1> QED BY <1>1, <1>2, <1>4, <1>5

(* What is RUNNING on a CPU is on no other. *)
LEMMA RunsAlone ==
  ASSUME IInv, NEW c \in CPUs, cpc[c] = "run"
  PROVE  /\ proc[c] \in Slots /\ state[proc[c]] = "RUNNING"
         /\ \A d \in CPUs \ {c} : proc[d] \in (Slots \ {proc[c]}) \cup {None}
BY DEF IInv, TypeOK, CpuProc

(* A step of a thread that stays on its CPU, and may release ptable.lock. *)
LEMMA ThreadStep ==
  ASSUME IInv, NEW c \in CPUs, cpc[c] = "run", UNCHANGED cpu,
         UNCHANGED lock \/ (lock = c /\ lock' = NoCpu),
         \A d \in CPUs \ {c} : proc[d] \in Slots => SameSlot(proc[d]),
         state'[proc[c]] = "RUNNING", ~yielded'[proc[c]], pc'[proc[c]] \notin Resumed
  PROVE  LockHeld' /\ CpuProc'
<1> USE DEF IInv, cpu
<1>1. ASSUME NEW d \in CPUs \ {c}
      PROVE  /\ InsideLock(d)' = InsideLock(d)
             /\ proc[d] \in Slots => state'[proc[d]] = state[proc[d]]
  BY DEF InsideLock, SameSlot, CpuProc
<1>2. ~InsideLock(c)'
  BY DEF InsideLock
<1>3. LockHeld'
  BY <1>1, <1>2 DEF LockHeld
<1>4. CpuProc'
  BY <1>1 DEF CpuProc
<1> QED BY <1>3, <1>4

(* A thread that goes on to l, having released ptable.lock if it held it. *)
LEMMA MoveKeeps ==
  ASSUME IInv, NEW c \in CPUs, NEW i \in Slots,
         cpc[c] = "run", proc[c] = i, ~yielded[i], pc[i] \notin Forking,
         NEW l \in (Interruptible \cup {"io_sleep"}) \ Forking, Goto(i, l),
         UNCHANGED lock \/ (lock = c /\ lock' = NoCpu),
         UNCHANGED <<table, cpu, np, yielded>>
  PROVE  IInv'
<1>1. TypeOK'
  BY DEF IInv, TypeOK, Goto, table, cpu
<1>2. /\ \A j \in Slots \ {i} : SameSlot(j)
      /\ pc'[i] = l /\ state' = state /\ parent' = parent /\ np' = np /\ killed' = killed
      /\ kstack' = kstack /\ yielded' = yielded /\ UNCHANGED cpu
  BY DEF IInv, TypeOK, Goto, table, SameSlot
<1>3. state[i] = "RUNNING" /\ \A d \in CPUs \ {c} : proc[d] \in (Slots \ {i}) \cup {None}
  BY RunsAlone
<1>4. LockHeld' /\ CpuProc'
  BY <1>2, <1>3, ThreadStep
<1>5. PlaceOf(i)'
  BY <1>2, <1>3 DEF IInv, Places, PlaceOf
<1>6. Places' /\ Embryos' /\ Family' /\ WaitNotStuck'
  BY <1>2, <1>3, <1>5, OneSlot
<1> QED BY <1>1, <1>4, <1>6 DEF IInv

(***************************************************************************)
(* The scheduler.                                                          *)
(***************************************************************************)
LEMMA AcquireKeeps ==
  ASSUME IInv, NEW c \in CPUs, Acquire(c)
  PROVE  IInv'
<1> USE DEF Acquire, IInv
<1>0. 1 \in 1..NPROC + 1
  BY ProcAssumption
<1>1. TypeOK'
  BY <1>0 DEF table, thread, TypeOK
<1>2. LockHeld'
  BY DEF table, thread, TypeOK, LockHeld, InsideLock, CpuProc
<1>3. CpuProc'
  BY DEF table, thread, TypeOK, CpuProc
<1> QED BY <1>1, <1>2, <1>3, TableKept DEF thread

LEMMA ScanDoneKeeps ==
  ASSUME IInv, NEW c \in CPUs, ScanDone(c)
  PROVE  IInv'
<1> USE DEF ScanDone, IInv
<1>1. TypeOK'
  BY DEF table, thread, TypeOK
<1>2. LockHeld'
  BY DEF table, thread, TypeOK, LockHeld, InsideLock, CpuProc
<1>3. CpuProc'
  BY DEF table, thread, TypeOK, CpuProc
<1> QED BY <1>1, <1>2, <1>3, TableKept DEF thread

LEMMA SwitchBackKeeps ==
  ASSUME IInv, NEW c \in CPUs, SwitchBack(c)
  PROVE  IInv'
<1> USE DEF SwitchBack, IInv
<1>1. TypeOK'
  BY DEF table, thread, TypeOK
<1>2. LockHeld'
  BY DEF table, thread, TypeOK, LockHeld, InsideLock, CpuProc
<1>3. CpuProc'
  BY DEF table, thread, TypeOK, CpuProc
<1> QED BY <1>1, <1>2, <1>3, TableKept DEF thread

(* The thread that is switched to is RUNNABLE, so no CPU runs it, and none *)
(* is on its way out of it, since that CPU would have the lock.            *)
LEMMA SwitchToKeeps ==
  ASSUME IInv, NEW c \in CPUs, SwitchTo(c)
  PROVE  IInv'
<1> USE DEF IInv
<1>0. PICK i \in Ahead(c) :
        /\ proc' = [proc EXCEPT ![c] = i]
        /\ state' = [state EXCEPT ![i] = "RUNNING"]
        /\ scan' = [scan EXCEPT ![c] = i + 1]
  BY DEF SwitchTo, First, Dispatched, ScanFrom
<1>1. i \in Slots /\ state[i] = "RUNNABLE" /\ i + 1 \in 1..NPROC + 1
  BY ProcAssumption DEF Ahead, TypeOK, Slots
<1>2. /\ cpc[c] = "scan" /\ lock = c
      /\ proc' = [proc EXCEPT ![c] = i]
      /\ state' = [state EXCEPT ![i] = "RUNNING"]
      /\ scan' = [scan EXCEPT ![c] = i + 1]
      /\ cpc' = [cpc EXCEPT ![c] = "run"]
      /\ UNCHANGED <<pid, parent, killed, chan, kstack, nextpid, lock, pc, np, yielded>>
  BY <1>0 DEF SwitchTo, thread, LockHeld, InsideLock
<1>3. ASSUME NEW d \in CPUs PROVE proc[d] # i
  <2>1. cpc[d] # "back"
    BY <1>2 DEF LockHeld, InsideLock
  <2>2. CASE cpc[d] = "run"
    BY <1>1, <2>2 DEF CpuProc
  <2>3. CASE cpc[d] # "run"
    BY <1>1, <2>1, <2>3 DEF CpuProc
  <2> QED BY <2>2, <2>3
<1>4. TypeOK'
  BY <1>1, <1>2 DEF TypeOK
<1>5. LockHeld'
  BY <1>1, <1>2, <1>3 DEF TypeOK, LockHeld, InsideLock
<1>6. CpuProc'
  BY <1>1, <1>2, <1>3 DEF TypeOK, CpuProc
<1>7. /\ \A j \in Slots \ {i} : SameSlot(j)
      /\ parent' = parent /\ np' = np /\ killed' = killed /\ kstack' = kstack /\ pc' = pc
      /\ yielded' = yielded /\ state'[i] = "RUNNING"
  BY <1>1, <1>2 DEF TypeOK, SameSlot
<1>8. PlaceOf(i)'
  BY <1>1, <1>7 DEF Places, PlaceOf
<1>9. Places' /\ Embryos' /\ Family' /\ WaitNotStuck'
  <2> HIDE DEF IInv
  <2> QED BY <1>1, <1>7, <1>8, OneSlot
<1> QED BY <1>4, <1>5, <1>6, <1>9

(***************************************************************************)
(* yield(), trap() and forkret().                                          *)
(***************************************************************************)
LEMMA YieldReturnKeeps ==
  ASSUME IInv, NEW c \in CPUs, NEW i \in Slots, YieldReturn(c, i)
  PROVE  IInv'
<1> USE DEF YieldReturn, IInv
<1>1. TypeOK'
  BY DEF table, cpu, TypeOK
<1>2. lock = c
  BY DEF LockHeld, InsideLock
<1>3. \A d \in CPUs \ {c} : ~InsideLock(d)
  BY <1>2 DEF LockHeld
<1>4. ~InsideLock(c)'
  <2>1. pc[i] \notin Resumed
    BY DEF Places, PlaceOf
  <2> QED BY <2>1 DEF cpu, TypeOK, InsideLock
<1>5. LockHeld'
  <2>1. ASSUME NEW d \in CPUs \ {c} PROVE ~InsideLock(d)'
    BY <1>3 DEF cpu, TypeOK, InsideLock
  <2> QED BY <1>4, <2>1 DEF LockHeld
<1>6. CpuProc'
  BY DEF table, cpu, CpuProc
<1>7. \A j \in Slots : yielded'[j] => yielded[j]
  BY DEF TypeOK
<1> QED BY <1>1, <1>5, <1>6, <1>7, TableKept

LEMMA ForkretKeeps ==
  ASSUME IInv, NEW c \in CPUs, NEW i \in Slots, Forkret(c, i)
  PROVE  IInv'
<1>1. lock = c
  BY DEF Forkret, At, IInv, LockHeld, InsideLock
<1> QED BY <1>1, MoveKeeps DEF Forkret, At

LEMMA SyscallKeeps ==
  ASSUME IInv, NEW c \in CPUs, NEW i \in Slots, Syscall(c, i)
  PROVE  IInv'
<1>1. PICK l \in {"exit"} \cup Calls : Goto(i, l)
  BY DEF Syscall
<1>2. l \in (Interruptible \cup {"io_sleep"}) \ Forking
  BY ProcAssumption
<1>3. /\ cpc[c] = "run" /\ proc[c] = i /\ ~yielded[i] /\ pc[i] \notin Forking
      /\ UNCHANGED lock /\ UNCHANGED <<table, cpu, np, yielded>>
  BY DEF Syscall, At
<1> QED BY <1>1, <1>2, <1>3, MoveKeeps

LEMMA ReturnToUserKeeps ==
  ASSUME IInv, NEW c \in CPUs, NEW i \in Slots, ReturnToUser(c, i)
  PROVE  IInv'
<1>1. PICK l \in {"exit", "user"} : Goto(i, l)
  BY DEF ReturnToUser
<1>2. /\ cpc[c] = "run" /\ proc[c] = i /\ ~yielded[i] /\ pc[i] \notin Forking
      /\ UNCHANGED lock /\ UNCHANGED <<table, cpu, np, yielded>>
  BY DEF ReturnToUser, At
<1> QED BY <1>1, <1>2, MoveKeeps

LEMMA IoTestKeeps ==
  ASSUME IInv, NEW c \in CPUs, NEW i \in Slots, IoTest(c, i)
  PROVE  IInv'
<1>1. PICK l \in {"ret", "io_sleep"} : Goto(i, l)
  BY DEF IoTest
<1>2. /\ cpc[c] = "run" /\ proc[c] = i /\ ~yielded[i] /\ pc[i] \notin Forking
      /\ UNCHANGED lock /\ UNCHANGED <<table, cpu, np, yielded>>
  BY DEF IoTest, At
<1> QED BY <1>1, <1>2, MoveKeeps

(* On the way into sched() a thread that has ptable.lock, or takes it now, *)
(* leaves RUNNING; the other CPUs' threads stay RUNNING.                   *)
LEMMA SchedKeeps ==
  ASSUME IInv, NEW c \in CPUs, NEW i \in Slots, cpc[c] = "run", proc[c] = i,
         lock \in {c, NoCpu}, Sched(c),
         state'[i] \in {"SLEEPING", "RUNNABLE", "ZOMBIE"},
         \A j \in Slots : state[j] = "RUNNING" /\ j # i => state'[j] = "RUNNING",
         \A j \in Slots \ {i} : pc'[j] = pc[j] /\ yielded'[j] = yielded[j]
  PROVE  LockHeld' /\ CpuProc'
<1> USE DEF IInv, Sched, HandOver
<1>1. ASSUME NEW d \in CPUs \ {c}
      PROVE  ~InsideLock(d) /\ proc[d] # i
  BY DEF LockHeld, CpuProc
<1>2. ASSUME NEW d \in CPUs \ {c}
      PROVE  ~InsideLock(d)' /\ cpc[d] # "back" /\ cpc'[d] = cpc[d]
  BY <1>1 DEF TypeOK, InsideLock, CpuProc
<1>3. LockHeld'
  BY <1>2 DEF LockHeld
<1>4. cpc'[c] = "back"
  BY DEF TypeOK
<1>5. CpuProc'
  BY <1>1, <1>2, <1>4 DEF CpuProc
<1> QED BY <1>3, <1>5

(* The timer: a killed thread in user mode exits, the others yield. *)
LEMMA TimerKeeps ==
  ASSUME IInv, NEW c \in CPUs, NEW i \in Slots, Timer(c, i)
  PROVE  IInv'
<1> USE DEF IInv
<1>1. cpc[c] = "run" /\ proc[c] = i /\ pc[i] \in Interruptible /\ ~yielded[i] /\ lock = NoCpu
  BY DEF Timer, At
<1>2. CASE MustExit(i)
  <2>1. Goto(i, "exit") /\ pc[i] = "user" /\ UNCHANGED <<table, lock, cpu, yielded, np>>
    BY <1>2 DEF Timer, MustExit
  <2> QED BY <1>1, <2>1, MoveKeeps
<1>3. CASE ~MustExit(i)
  <2>1. /\ state' = [state EXCEPT ![i] = "RUNNABLE"]
        /\ yielded' = [yielded EXCEPT ![i] = TRUE]
        /\ pc' = [pc EXCEPT ![i] = IF pc[i] = "user" THEN "ret" ELSE pc[i]]
        /\ Sched(c)
        /\ UNCHANGED <<pid, parent, killed, chan, kstack, nextpid, np>>
    BY <1>3 DEF Timer, YieldTo, Goto
  <2>2. state[i] = "RUNNING"
    BY <1>1 DEF CpuProc
  <2>3. TypeOK'
    BY <1>1, <2>1 DEF TypeOK, Sched, HandOver
  <2>4. LockHeld' /\ CpuProc'
    <3>1. /\ cpc[c] = "run" /\ proc[c] = i /\ lock \in {c, NoCpu} /\ Sched(c)
          /\ state'[i] \in {"SLEEPING", "RUNNABLE", "ZOMBIE"}
          /\ \A j \in Slots : state[j] = "RUNNING" /\ j # i => state'[j] = "RUNNING"
          /\ \A j \in Slots \ {i} : pc'[j] = pc[j] /\ yielded'[j] = yielded[j]
      BY <1>1, <2>1 DEF TypeOK
    <3> HIDE DEF IInv
    <3> QED BY <3>1, SchedKeeps
  <2>5. /\ \A j \in Slots \ {i} : SameSlot(j)
        /\ parent' = parent /\ np' = np /\ killed' = killed /\ kstack' = kstack
        /\ state'[i] = "RUNNABLE" /\ pc'[i] \in Interruptible
        /\ pc'[i] = pc[i] \/ pc'[i] \notin Forking
    BY <1>1, <2>1 DEF TypeOK, SameSlot
  <2>6. PlaceOf(i)'
    BY <2>2, <2>5 DEF Places, PlaceOf
  <2>7. Places' /\ Embryos' /\ Family' /\ WaitNotStuck'
    <3> HIDE DEF IInv
    <3> QED BY <2>2, <2>5, <2>6, OneSlot
  <2> QED BY <2>3, <2>4, <2>7
<1> QED BY <1>2, <1>3

LEMMA FaultKeeps ==
  ASSUME IInv, NEW c \in CPUs, NEW i \in Slots, Fault(c, i)
  PROVE  IInv'
<1>1. TypeOK'
  BY DEF Fault, Goto, IInv, TypeOK, cpu
<1>2. /\ \A j \in Slots \ {i} : SameSlot(j)
      /\ pc'[i] = "exit" /\ state' = state /\ parent' = parent /\ np' = np
      /\ kstack' = kstack /\ yielded' = yielded /\ UNCHANGED cpu /\ UNCHANGED lock
      /\ cpc[c] = "run" /\ proc[c] = i /\ ~yielded[i]
      /\ \A j \in Slots \ {i} : killed'[j] = killed[j]
  BY DEF Fault, At, Goto, IInv, TypeOK, SameSlot
<1>3. state[i] = "RUNNING" /\ \A d \in CPUs \ {c} : proc[d] \in (Slots \ {i}) \cup {None}
  BY <1>2, RunsAlone
<1>4. LockHeld' /\ CpuProc'
  BY <1>2, <1>3, ThreadStep
<1>5. PlaceOf(i)'
  BY <1>2, <1>3 DEF IInv, Places, PlaceOf
<1>6. Places' /\ Embryos' /\ Family' /\ WaitNotStuck'
  BY <1>2, <1>3, <1>5, OneSlot
<1> QED BY <1>1, <1>4, <1>6 DEF IInv

(***************************************************************************)
(* kill(), sleep() and wakeup().                                           *)
(***************************************************************************)
(* Sleepers made RUNNABLE: it matters to nobody else whether a process is  *)
(* the one or the other.                                                   *)
LEMMA WakeKeeps ==
  ASSUME IInv, state' \in [Slots -> States],
         \A j \in Slots : \/ state'[j] = state[j]
                          \/ state[j] = "SLEEPING" /\ state'[j] = "RUNNABLE",
         UNCHANGED <<parent, chan, kstack, cpc, proc, pc, np, yielded>>
  PROVE  CpuProc' /\ Places' /\ Embryos' /\ Family'
<1> USE DEF IInv
<1>1. CpuProc'
  BY DEF CpuProc
<1>2. Places'
  <2> SUFFICES ASSUME NEW j \in Slots PROVE PlaceOf(j)'
    BY DEF Places
  <2>1. PlaceOf(j)
    BY DEF Places
  <2> QED BY <2>1 DEF PlaceOf
<1>3. Embryos'
  BY DEF Embryos, EmbryoOf
<1>4. Family'
  BY DEF TypeOK, Family, HasParent
<1> QED BY <1>1, <1>2, <1>3, <1>4

LEMMA WakeupKeeps ==
  ASSUME IInv, Wakeup
  PROVE  IInv'
<1> USE DEF IInv, Wakeup, thread, cpu
<1>1. state' \in [Slots -> States] /\ TypeOK'
  BY DEF TypeOK
<1>2. LockHeld'
  BY DEF LockHeld, InsideLock
<1>3. WaitNotStuck'
  BY <1>1 DEF TypeOK, WaitNotStuck, Zombies, Children
<1> QED BY <1>1, <1>2, <1>3, WakeKeeps

LEMMA KillKeeps ==
  ASSUME IInv, NEW c \in CPUs, NEW i \in Slots, Kill(c, i)
  PROVE  IInv'
<1> USE DEF IInv
<1>1. /\ cpc[c] = "run" /\ proc[c] = i /\ pc[i] = "kill" /\ ~yielded[i] /\ lock = NoCpu
      /\ Goto(i, "ret")
      /\ UNCHANGED <<pid, parent, chan, kstack, nextpid, lock, cpu, np, yielded>>
  BY DEF Kill, At
<1>2. PICK n \in KillPids :
        LET named == {j \in Slots : pid[j] = n}
        IN  IF named = {} THEN UNCHANGED <<state, killed>>
            ELSE \E j \in First(named) :
                   /\ killed' = [killed EXCEPT ![j] = TRUE]
                   /\ state' = [state EXCEPT ![j] = WokenByKill(j)]
  BY DEF Kill
<1> DEFINE named == {j \in Slots : pid[j] = n}
<1>3. CASE named = {}
  <2>1. UNCHANGED table
    BY <1>1, <1>2, <1>3 DEF table
  <2> QED BY <1>1, <2>1, MoveKeeps
<1>4. CASE named # {}
  <2>2. PICK k \in First(named) :
          /\ killed' = [killed EXCEPT ![k] = TRUE]
          /\ state' = [state EXCEPT ![k] = IF state[k] = "SLEEPING" THEN "RUNNABLE" ELSE state[k]]
    BY <1>2, <1>4 DEF WokenByKill
  <2>1. k \in Slots
    BY DEF First
  <2>3. state[i] = "RUNNING"
    BY <1>1 DEF CpuProc
  <2>4. /\ \A j \in Slots : /\ j # i => pc'[j] = pc[j]
                            /\ state[j] # "SLEEPING" => state'[j] = state[j]
                            /\ state[j] = "SLEEPING" => state'[j] \in {"SLEEPING", "RUNNABLE"}
                            /\ state'[j] = "SLEEPING" => killed'[j] = killed[j]
        /\ pc'[i] = "ret"
        /\ UNCHANGED <<parent, chan, kstack, np, yielded, lock>> /\ UNCHANGED cpu
    BY <1>1, <2>1, <2>2 DEF TypeOK, Goto
  <2>5. TypeOK'
    <3>1. state' \in [Slots -> States] /\ killed' \in [Slots -> BOOLEAN]
      BY <2>1, <2>2 DEF TypeOK
    <3> QED BY <1>1, <3>1 DEF TypeOK, Goto, cpu
  <2>6. LockHeld' /\ CpuProc'
    <3>1. ASSUME NEW d \in CPUs \ {c}, proc[d] \in Slots PROVE SameSlot(proc[d])
      <4>1. cpc[d] = "run" /\ state[proc[d]] = "RUNNING" /\ proc[d] # i
        BY <1>1, <3>1 DEF LockHeld, InsideLock, CpuProc
      <4> QED BY <2>4, <3>1, <4>1 DEF SameSlot
    <3> HIDE DEF IInv
    <3> QED BY <1>1, <2>3, <2>4, <3>1, ThreadStep
  <2>7. Places'
    <3> SUFFICES ASSUME NEW j \in Slots PROVE PlaceOf(j)'
      BY DEF Places
    <3>1. PlaceOf(j)
      BY DEF Places
    <3>2. CASE j = i
      BY <2>3, <2>4, <3>1, <3>2 DEF PlaceOf
    <3>3. CASE j # i
      BY <2>4, <3>1, <3>3 DEF PlaceOf
    <3> QED BY <3>2, <3>3
  <2>8. Embryos'
    <3> SUFFICES ASSUME NEW j \in Slots, pc'[j] \in Forking
                 PROVE  pc'[j] = pc[j] /\ np'[j] = np[j] /\ SameSlot(np[j])
      BY EmbryosStep
    <3>1. pc'[j] = pc[j] /\ np'[j] = np[j]
      BY <2>4
    <3>2. np[j] \in Slots /\ state[np[j]] = "EMBRYO"
      BY <3>1 DEF Embryos, EmbryoOf
    <3> QED BY <2>3, <2>4, <3>1, <3>2 DEF SameSlot
  <2>9. Family'
    <3>1. \A j \in Slots : state[j] = "UNUSED" => parent[j] = None
      BY DEF Family
    <3> QED BY <2>4, <3>1, FamilyStep
  <2>10. WaitNotStuck'
    <3> SUFFICES ASSUME NEW j \in Slots, state'[j] = "SLEEPING", pc'[j] = "wait_woken"
                 PROVE  Zombies(j)' = {} /\ Children(j)' # {} /\ ~killed'[j]
      BY DEF WaitNotStuck
    <3>1. Zombies(j) = {} /\ Children(j) # {} /\ ~killed[j]
      BY <2>3, <2>4 DEF WaitNotStuck
    <3> QED BY <2>4, <3>1, WaitStep
  <2> QED BY <2>5, <2>6, <2>7, <2>8, <2>9, <2>10
<1> QED BY <1>3, <1>4

(* sleep() of the other system calls, and the return from it. *)
LEMMA IoSleepKeeps ==
  ASSUME IInv, NEW c \in CPUs, NEW i \in Slots, IoSleep(c, i)
  PROVE  IInv'
<1> USE DEF IInv
<1>1. /\ cpc[c] = "run" /\ proc[c] = i /\ pc[i] = "io_sleep" /\ ~yielded[i] /\ lock = NoCpu
      /\ Sched(c)
      /\ chan' = [chan EXCEPT ![i] = Io]
      /\ state' = [state EXCEPT ![i] = "SLEEPING"]
      /\ pc' = [pc EXCEPT ![i] = "io_woken"]
      /\ UNCHANGED <<pid, parent, killed, kstack, nextpid, np, yielded>>
  BY DEF IoSleep, At, Goto
<1>2. state[i] = "RUNNING"
  BY <1>1 DEF CpuProc
<1>3. /\ \A j \in Slots \ {i} : SameSlot(j)
      /\ state'[i] = "SLEEPING" /\ pc'[i] = "io_woken"
      /\ UNCHANGED <<parent, killed, kstack, np, yielded>>
  BY <1>1 DEF TypeOK, SameSlot
<1>4. TypeOK'
  BY <1>1 DEF TypeOK, Sched, HandOver
<1>5. LockHeld' /\ CpuProc'
  <2>1. /\ cpc[c] = "run" /\ proc[c] = i /\ lock \in {c, NoCpu} /\ Sched(c)
        /\ state'[i] \in {"SLEEPING", "RUNNABLE", "ZOMBIE"}
        /\ \A j \in Slots : state[j] = "RUNNING" /\ j # i => state'[j] = "RUNNING"
        /\ \A j \in Slots \ {i} : pc'[j] = pc[j] /\ yielded'[j] = yielded[j]
    BY <1>1, <1>3 DEF SameSlot
  <2> HIDE DEF IInv
  <2> QED BY <2>1, SchedKeeps
<1>6. PlaceOf(i)'
  BY <1>1, <1>2, <1>3 DEF Places, PlaceOf
<1>7. Places' /\ Embryos' /\ Family' /\ WaitNotStuck'
  <2> HIDE DEF IInv
  <2> QED BY <1>2, <1>3, <1>6, OneSlot
<1> QED BY <1>4, <1>5, <1>7

LEMMA IoWokenKeeps ==
  ASSUME IInv, NEW c \in CPUs, NEW i \in Slots, IoWoken(c, i)
  PROVE  IInv'
<1> USE DEF IInv
<1>1. /\ cpc[c] = "run" /\ proc[c] = i /\ pc[i] = "io_woken" /\ ~yielded[i]
      /\ chan' = [chan EXCEPT ![i] = None]
      /\ lock' = NoCpu
      /\ pc' = [pc EXCEPT ![i] = "io"]
      /\ UNCHANGED <<state, pid, parent, killed, kstack, nextpid, cpc, proc, scan, np, yielded>>
  BY DEF IoWoken, At, Goto, cpu
<1>2. state[i] = "RUNNING" /\ lock = c
  BY <1>1 DEF CpuProc, LockHeld, InsideLock
<1>3. /\ \A j \in Slots \ {i} : SameSlot(j)
      /\ pc'[i] = "io"
      /\ UNCHANGED <<state, parent, killed, kstack, np, yielded>> /\ UNCHANGED cpu
  BY <1>1 DEF TypeOK, SameSlot, cpu
<1>4. TypeOK'
  BY <1>1 DEF TypeOK
<1>5. \A d \in CPUs \ {c} : proc[d] \in (Slots \ {i}) \cup {None}
  BY <1>1, RunsAlone
<1>6. PlaceOf(i)'
  BY <1>1, <1>2, <1>3 DEF Places, PlaceOf
<1> HIDE DEF IInv
<1>7. LockHeld' /\ CpuProc'
  BY <1>1, <1>2, <1>3, <1>5, ThreadStep
<1>8. Places' /\ Embryos' /\ Family' /\ WaitNotStuck'
  BY <1>2, <1>3, <1>6, OneSlot
<1> QED BY <1>4, <1>7, <1>8 DEF IInv
=============================================================================
