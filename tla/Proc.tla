------------------------------- MODULE Proc -------------------------------
(***************************************************************************)
(* proc.c: the process table, the scheduler of each CPU, and fork(),       *)
(* exit(), wait(), kill(), sleep() and wakeup() as processes call them     *)
(* through trap().  ptable.lock is explicit, because it is handed over     *)
(* across swtch(): sched() is entered with the lock held and the other     *)
(* side releases it.  A critical section that does not switch is one step; *)
(* what a process does without the lock is a step of its own.              *)
(***************************************************************************)
EXTENDS Integers, FiniteSets

CONSTANTS
  CPUs, NoCpu,     \* processors, and the holder of a free lock
  NPROC,           \* slots of ptable.proc; slot 1 is initproc
  Calls,           \* system calls made: subset of {"fork", "wait", "exit", "kill", "io"}
  KillPids,        \* arguments given to kill()
  MaxPid           \* bound: no fork() once nextpid exceeds it

ASSUME ProcAssumption ==
  /\ NPROC \in Nat \ {0} /\ NoCpu \notin CPUs /\ KillPids \subseteq Nat /\ MaxPid \in Nat
  /\ Calls \subseteq {"fork", "wait", "exit", "kill", "io"}

VARIABLES
  state, pid, parent, killed, chan, kstack,  \* struct proc, per slot
  nextpid,
  lock,                                      \* CPU holding ptable.lock
  cpc, proc, scan,                           \* per CPU: scheduler's place, c->proc, loop index
  pc, np, yielded                            \* per kernel thread: its place, fork()'s np,
                                             \* whether it is inside yield()

table == <<state, pid, parent, killed, chan, kstack, nextpid>>
cpu == <<cpc, proc, scan>>
thread == <<pc, np, yielded>>
vars == <<table, lock, cpu, thread>>

Slots == 1..NPROC
initproc == 1
None == 0
States == {"UNUSED", "EMBRYO", "SLEEPING", "RUNNABLE", "RUNNING", "ZOMBIE"}
Io == -1      \* a channel other than a process: a pipe, the console, a buffer...

(* Places where a thread runs with interrupts enabled; "exit" stands for   *)
(* closing files, up to acquire().                                         *)
Interruptible == {"user", "ret", "exit", "fork", "kstack", "copy", "publish", "wait",
                  "kill", "io"}
(* Places a thread resumes at, with ptable.lock held by the scheduler.     *)
Resumed == {"forkret", "wait_woken", "io_woken"}

(* The slot of S that a loop over ptable.proc stops at: the first. *)
First(S) == {x \in S : \A y \in S : x <= y}

(***************************************************************************)
(* scheduler(), sched(), yield(), forkret().                               *)
(***************************************************************************)
Acquire(c) == cpc[c] = "idle" /\ lock = NoCpu
           /\ lock' = c
           /\ cpc' = [cpc EXCEPT ![c] = "scan"]
           /\ scan' = [scan EXCEPT ![c] = 1]
           /\ UNCHANGED <<table, proc, thread>>

Ahead(c) == {i \in scan[c]..NPROC : state[i] = "RUNNABLE"}

NotMarked(i) == "RUNNABLE"                                \* a mutant

Dispatched(i) == "RUNNING"

StartOver(i) == 1                                         \* a mutant

(* p++: the loop goes on behind the process that just ran. *)
ScanFrom(i) == i + 1

(* The loop body for the next RUNNABLE process: the swtch() into it. *)
SwitchTo(c) ==
  /\ cpc[c] = "scan" /\ Ahead(c) # {}
  /\ \E i \in First(Ahead(c)) :
       /\ proc' = [proc EXCEPT ![c] = i]
       /\ state' = [state EXCEPT ![i] = Dispatched(i)]
       /\ scan' = [scan EXCEPT ![c] = ScanFrom(i)]
  /\ cpc' = [cpc EXCEPT ![c] = "run"]
  /\ UNCHANGED <<pid, parent, killed, chan, kstack, nextpid, lock, thread>>

ScanDone(c) ==
  /\ cpc[c] = "scan" /\ Ahead(c) = {}
  /\ lock' = NoCpu
  /\ cpc' = [cpc EXCEPT ![c] = "idle"]
  /\ UNCHANGED <<table, proc, scan, thread>>

(* Who holds ptable.lock while CPU c goes from sched() to the scheduler. *)
HandOver(c) == c

(* sched(): the swtch() to the scheduler is a step of its own. *)
Sched(c) ==
  /\ lock' = HandOver(c)
  /\ cpc' = [cpc EXCEPT ![c] = "back"]
  /\ UNCHANGED <<proc, scan>>

(* The scheduler after swtch(): switchkvm(), c->proc = 0. *)
SwitchBack(c) ==
  /\ cpc[c] = "back"
  /\ cpc' = [cpc EXCEPT ![c] = "scan"]
  /\ proc' = [proc EXCEPT ![c] = None]
  /\ UNCHANGED <<table, lock, scan, thread>>

(* Thread i executes on c, at place l, not returning from sched(). *)
At(c, i, l) == cpc[c] = "run" /\ proc[c] = i /\ pc[i] = l /\ ~yielded[i]
Goto(i, l) == pc' = [pc EXCEPT ![i] = l]

YieldTo(i) == "RUNNABLE"

(* trap() lets a killed process exit only on its way to user space. *)
MustExit(i) == killed[i] /\ pc[i] = "user"

(* A timer interrupt: trap() calls yield().  From user mode the thread     *)
(* looks at p->killed when it goes on (label "ret"), before and after.     *)
Timer(c, i) ==
  /\ \E l \in Interruptible : At(c, i, l)
  /\ lock = NoCpu
  /\ IF MustExit(i)
     THEN Goto(i, "exit") /\ UNCHANGED <<table, lock, cpu, yielded>>
     ELSE /\ state' = [state EXCEPT ![i] = YieldTo(i)]
          /\ yielded' = [yielded EXCEPT ![i] = TRUE]
          /\ Goto(i, IF pc[i] = "user" THEN "ret" ELSE pc[i])
          /\ Sched(c)
          /\ UNCHANGED <<pid, parent, killed, chan, kstack, nextpid>>
  /\ UNCHANGED np

(* The release() after sched() in yield(). *)
YieldReturn(c, i) ==
  /\ cpc[c] = "run" /\ proc[c] = i /\ yielded[i]
  /\ lock' = NoCpu
  /\ yielded' = [yielded EXCEPT ![i] = FALSE]
  /\ UNCHANGED <<table, cpu, pc, np>>

Forkret(c, i) ==
  /\ At(c, i, "forkret")
  /\ lock' = NoCpu
  /\ Goto(i, "user")
  /\ UNCHANGED <<table, cpu, np, yielded>>

(***************************************************************************)
(* trap(): entering and leaving the kernel.                                *)
(***************************************************************************)
Syscall(c, i) ==
  /\ At(c, i, "user")
  /\ IF killed[i] THEN Goto(i, "exit")
     ELSE \E l \in Calls : /\ l = "exit" => i # initproc
                           /\ l = "fork" => nextpid <= MaxPid
                           /\ Goto(i, l)
  /\ UNCHANGED <<table, lock, cpu, np, yielded>>

(* A fault in user mode: killed = 1, and exit() in the same trap(). *)
Fault(c, i) ==
  /\ At(c, i, "user") /\ i # initproc
  /\ killed' = [killed EXCEPT ![i] = TRUE]
  /\ Goto(i, "exit")
  /\ UNCHANGED <<state, pid, parent, chan, kstack, nextpid, lock, cpu, np, yielded>>

ReturnToUser(c, i) ==
  /\ At(c, i, "ret")
  /\ Goto(i, IF killed[i] THEN "exit" ELSE "user")
  /\ UNCHANGED <<table, lock, cpu, np, yielded>>

(***************************************************************************)
(* fork().                                                                 *)
(***************************************************************************)
(* allocproc() up to release(). *)
ForkAlloc(c, i) ==
  /\ At(c, i, "fork") /\ lock = NoCpu
  /\ LET unused == {j \in Slots : state[j] = "UNUSED"}
     IN  IF unused = {}
         THEN Goto(i, "ret") /\ UNCHANGED <<table, np>>
         ELSE /\ \E k \in First(unused) :
                   /\ np' = [np EXCEPT ![i] = k]
                   /\ state' = [state EXCEPT ![k] = "EMBRYO"]
                   /\ pid' = [pid EXCEPT ![k] = nextpid]
              /\ nextpid' = nextpid + 1
              /\ Goto(i, "kstack")
              /\ UNCHANGED <<parent, killed, chan, kstack>>
  /\ UNCHANGED <<lock, cpu, yielded>>

(* kalloc() of the kernel stack, or its failure: the slot is given back    *)
(* without the lock.                                                       *)
ForkStack(c, i) ==
  /\ At(c, i, "kstack")
  /\ \E ok \in BOOLEAN :
       /\ kstack' = [kstack EXCEPT ![np[i]] = ok]
       /\ state' = [state EXCEPT ![np[i]] = IF ok THEN @ ELSE "UNUSED"]
       /\ pc' = [pc EXCEPT ![i] = IF ok THEN "copy" ELSE "ret",
                           ![np[i]] = IF ok THEN "forkret" ELSE @]
  /\ UNCHANGED <<pid, parent, killed, chan, nextpid, lock, cpu, np, yielded>>

(* copyuvm() and the rest of the child, or the failure of copyuvm(). *)
ForkCopy(c, i) ==
  /\ At(c, i, "copy")
  /\ \E ok \in BOOLEAN :
       /\ kstack' = [kstack EXCEPT ![np[i]] = ok]
       /\ state' = [state EXCEPT ![np[i]] = IF ok THEN @ ELSE "UNUSED"]
       /\ parent' = [parent EXCEPT ![np[i]] = IF ok THEN i ELSE @]
       /\ Goto(i, IF ok THEN "publish" ELSE "ret")
  /\ UNCHANGED <<pid, killed, chan, nextpid, lock, cpu, np, yielded>>

ForkPublish(c, i) ==
  /\ At(c, i, "publish") /\ lock = NoCpu
  /\ state' = [state EXCEPT ![np[i]] = "RUNNABLE"]
  /\ np' = [np EXCEPT ![i] = None]
  /\ Goto(i, "ret")
  /\ UNCHANGED <<pid, parent, killed, chan, kstack, nextpid, lock, cpu, yielded>>

(***************************************************************************)
(* exit() and wait().                                                      *)
(***************************************************************************)
Children(i) == {j \in Slots : parent[j] = i}
AnyChild(i) == Children(i)                                \* a mutant

Zombies(i) == {j \in Children(i) : state[j] = "ZOMBIE"}

WakesNobody(i) == {}                                      \* a mutant

(* The channels exit() wakes: its parent, and initproc for a zombie that   *)
(* it passes on.                                                           *)
ExitWakes(i) == {parent[i]} \cup (IF Zombies(i) # {} THEN {initproc} ELSE {})

KeepsChildren(i) == parent                                \* a mutant

Reparented(i) == [j \in Slots |-> IF parent[j] = i THEN initproc ELSE parent[j]]

Exit(c, i) ==
  /\ At(c, i, "exit") /\ lock = NoCpu
  /\ i # initproc                                         \* panic("init exiting")
  /\ state' = [j \in Slots |->
                 IF j = i THEN "ZOMBIE"
                 ELSE IF state[j] = "SLEEPING" /\ chan[j] \in ExitWakes(i)
                      THEN "RUNNABLE" ELSE state[j]]
  /\ parent' = Reparented(i)
  /\ Goto(i, "zombie")
  /\ Sched(c)
  /\ UNCHANGED <<pid, killed, chan, kstack, nextpid, np, yielded>>

(* One turn of wait()'s loop, from acquire() or from the return of         *)
(* sleep(): it reaps a zombie, gives up, or goes to sleep.                 *)
Wait(c, i) ==
  /\ \/ At(c, i, "wait") /\ lock = NoCpu
     \/ At(c, i, "wait_woken")
  /\ IF Zombies(i) # {}
     THEN /\ \E z \in First(Zombies(i)) :
               /\ kstack' = [kstack EXCEPT ![z] = FALSE]
               /\ pid' = [pid EXCEPT ![z] = 0]
               /\ parent' = [parent EXCEPT ![z] = None]
               /\ killed' = [killed EXCEPT ![z] = FALSE]
               /\ state' = [state EXCEPT ![z] = "UNUSED"]
          /\ chan' = [chan EXCEPT ![i] = None]
          /\ lock' = NoCpu /\ Goto(i, "ret") /\ UNCHANGED cpu
     ELSE IF Children(i) = {} \/ killed[i]
     THEN /\ chan' = [chan EXCEPT ![i] = None]
          /\ lock' = NoCpu /\ Goto(i, "ret")
          /\ UNCHANGED <<state, pid, parent, killed, kstack, cpu>>
     ELSE /\ chan' = [chan EXCEPT ![i] = i]
          /\ state' = [state EXCEPT ![i] = "SLEEPING"]
          /\ Goto(i, "wait_woken") /\ Sched(c)
          /\ UNCHANGED <<pid, parent, killed, kstack>>
  /\ UNCHANGED <<nextpid, np, yielded>>

(***************************************************************************)
(* kill(), and the sleep() of the other system calls.                      *)
(***************************************************************************)
LeftAsleep(j) == state[j]                                 \* a mutant

WokenByKill(j) == IF state[j] = "SLEEPING" THEN "RUNNABLE" ELSE state[j]

Kill(c, i) ==
  /\ At(c, i, "kill") /\ lock = NoCpu
  /\ \E n \in KillPids :
       LET named == {j \in Slots : pid[j] = n}
       IN  IF named = {} THEN UNCHANGED <<state, killed>>
           ELSE \E j \in First(named) :
                  /\ killed' = [killed EXCEPT ![j] = TRUE]
                  /\ state' = [state EXCEPT ![j] = WokenByKill(j)]
  /\ Goto(i, "ret")
  /\ UNCHANGED <<pid, parent, chan, kstack, nextpid, lock, cpu, np, yielded>>

(* The loops of piperead(), pipewrite(), consoleread() and sys_sleep():    *)
(* with their own lock held they return, or find p->killed set and return  *)
(* -1, or go on to sleep().                                                *)
IoTest(c, i) ==
  /\ At(c, i, "io")
  /\ \/ Goto(i, "ret")
     \/ ~killed[i] /\ Goto(i, "io_sleep")
  /\ UNCHANGED <<table, lock, cpu, np, yielded>>

(* sleep(chan, lk) with another lock than ptable.lock. *)
IoSleep(c, i) ==
  /\ At(c, i, "io_sleep") /\ lock = NoCpu
  /\ chan' = [chan EXCEPT ![i] = Io]
  /\ state' = [state EXCEPT ![i] = "SLEEPING"]
  /\ Goto(i, "io_woken") /\ Sched(c)
  /\ UNCHANGED <<pid, parent, killed, kstack, nextpid, np, yielded>>

IoWoken(c, i) ==
  /\ At(c, i, "io_woken")
  /\ chan' = [chan EXCEPT ![i] = None]
  /\ lock' = NoCpu /\ Goto(i, "io")
  /\ UNCHANGED <<state, pid, parent, killed, kstack, nextpid, cpu, np, yielded>>

(* wakeup(chan), from an interrupt or another process's call. *)
Wakeup ==
  /\ lock = NoCpu
  /\ \E j \in Slots : state[j] = "SLEEPING" /\ chan[j] = Io
  /\ state' = [j \in Slots |-> IF state[j] = "SLEEPING" /\ chan[j] = Io
                               THEN "RUNNABLE" ELSE state[j]]
  /\ UNCHANGED <<pid, parent, killed, chan, kstack, nextpid, lock, cpu, thread>>

(***************************************************************************)
(* The specification.  Init is the state userinit() leaves.                *)
(***************************************************************************)
Init ==
  /\ state = [i \in Slots |-> IF i = initproc THEN "RUNNABLE" ELSE "UNUSED"]
  /\ pid = [i \in Slots |-> IF i = initproc THEN 1 ELSE 0]
  /\ parent = [i \in Slots |-> None]
  /\ killed = [i \in Slots |-> FALSE]
  /\ chan = [i \in Slots |-> None]
  /\ kstack = [i \in Slots |-> i = initproc]
  /\ nextpid = 2
  /\ lock = NoCpu
  /\ cpc = [c \in CPUs |-> "idle"]
  /\ proc = [c \in CPUs |-> None] /\ scan = [c \in CPUs |-> 1]
  /\ pc = [i \in Slots |-> "forkret"]
  /\ np = [i \in Slots |-> None]
  /\ yielded = [i \in Slots |-> FALSE]

Scheduler(c) == Acquire(c) \/ SwitchTo(c) \/ ScanDone(c) \/ SwitchBack(c)

Thread(c, i) ==
  \/ YieldReturn(c, i) \/ Forkret(c, i) \/ Syscall(c, i) \/ ReturnToUser(c, i)
  \/ ForkAlloc(c, i) \/ ForkStack(c, i) \/ ForkCopy(c, i) \/ ForkPublish(c, i)
  \/ Exit(c, i) \/ Wait(c, i) \/ Kill(c, i)
  \/ IoTest(c, i) \/ IoSleep(c, i) \/ IoWoken(c, i)

Next ==
  \/ \E c \in CPUs : \/ Scheduler(c)
                     \/ \E i \in Slots : Thread(c, i) \/ Timer(c, i) \/ Fault(c, i)
  \/ Wakeup

Spec == Init /\ [][Next]_vars

(***************************************************************************)
(* Properties.                                                             *)
(***************************************************************************)
TypeOK ==
  /\ state \in [Slots -> States] /\ pid \in [Slots -> Nat] /\ nextpid \in Nat
  /\ parent \in [Slots -> Slots \cup {None}] /\ killed \in [Slots -> BOOLEAN]
  /\ chan \in [Slots -> Slots \cup {None, Io}] /\ kstack \in [Slots -> BOOLEAN]
  /\ lock \in CPUs \cup {NoCpu}
  /\ cpc \in [CPUs -> {"idle", "scan", "run", "back"}]
  /\ proc \in [CPUs -> Slots \cup {None}] /\ scan \in [CPUs -> 1..NPROC + 1]
  /\ pc \in [Slots -> Interruptible \cup Resumed \cup {"io_sleep", "zombie"}]
  /\ np \in [Slots -> Slots \cup {None}] /\ yielded \in [Slots -> BOOLEAN]

(* The panics of sched() cannot happen: whoever switches to the scheduler  *)
(* holds ptable.lock and has left RUNNING.                                 *)
SchedSafe == \A c \in CPUs : cpc[c] = "back" => lock = c /\ state[proc[c]] # "RUNNING"

(* A CPU never executes on the kernel stack, or with the page table, of a  *)
(* process that wait() has freed, although a zombie is still on its stack  *)
(* when exit() makes it one.                                               *)
StackAlive ==
  \A c \in CPUs : proc[c] # None =>
    kstack[proc[c]] /\ state[proc[c]] \notin {"UNUSED", "EMBRYO"}

(* Every CPU's c->proc is that CPU's alone, and the RUNNING processes are  *)
(* the ones some CPU runs.                                                 *)
OneCpuEach ==
  /\ \A c, d \in CPUs : proc[c] = proc[d] /\ proc[c] # None => c = d
  /\ \A i \in Slots : state[i] = "RUNNING" <=> \E c \in CPUs : cpc[c] = "run" /\ proc[c] = i

(* Everyone but initproc has a parent that can still wait() for it.        *)
Live(i) == state[i] \in {"SLEEPING", "RUNNABLE", "RUNNING"}
HasParent ==
  \A i \in Slots \ {initproc} :
    state[i] \notin {"UNUSED", "EMBRYO"} => parent[i] # None /\ Live(parent[i])

(* Nobody sleeps in wait() who has an exited child to collect, has no      *)
(* child left, or has been killed: exit() and kill() lose no wakeup.       *)
WaitNotStuck ==
  \A i \in Slots :
    state[i] = "SLEEPING" /\ pc[i] = "wait_woken"
      => Zombies(i) = {} /\ Children(i) # {} /\ ~killed[i]

(* A slot left EMBRYO has exactly one fork() still working on it.          *)
EmbryoOwned ==
  \A j \in Slots : state[j] = "EMBRYO" =>
    Cardinality({i \in Slots : np[i] = j /\ Live(i)
                               /\ pc[i] \in {"kstack", "copy", "publish"}}) = 1

(* kill() marks the process that has the pid, so a process starts its life *)
(* unmarked.                                                               *)
BornUnkilled ==
  [][\A i \in Slots : state[i] = "UNUSED" /\ state'[i] = "EMBRYO" => ~killed[i]]_vars

(* kill() wakes its victim: a killed process does not sleep on.            *)
KilledAwake == \A i \in Slots : killed[i] => state[i] # "SLEEPING"

(***************************************************************************)
(* Liveness.  The scheduler loops for ever and the timer keeps ticking (a  *)
(* CPU alone with the lock only needs weak fairness); a thread that gets   *)
(* the CPU again and again advances through its kernel code; init.c calls  *)
(* wait() again and again.  A user program need not make a system call.    *)
(***************************************************************************)
InKernel(i) == pc[i] # "user" /\ \E c \in CPUs : ~yielded[i] /\ Thread(c, i)
InitWaits == \E c \in CPUs : Syscall(c, initproc) /\ pc'[initproc] = "wait"

FairSpec ==
  /\ Spec
  /\ \A c \in CPUs : /\ WF_vars(Scheduler(c))
                     /\ WF_vars(\E i \in Slots : YieldReturn(c, i))
                     /\ WF_vars(\E i \in Slots : Timer(c, i))
  /\ \A i \in Slots : SF_vars(InKernel(i))
  /\ SF_vars(InitWaits)

(* The scheduler starves no process. *)
RunnableRuns == \A i \in Slots : state[i] = "RUNNABLE" ~> state[i] = "RUNNING"

(* A killed process exits, also from user mode and from wait().  (The run  *)
(* has no other sleeps: KilledAwake is about those.)                       *)
KilledDies ==
  \A i \in Slots : killed[i] /\ Live(i) ~> state[i] \in {"ZOMBIE", "UNUSED"}

(* init reaps the zombies left to it. *)
OrphansReaped ==
  \A i \in Slots : state[i] = "ZOMBIE" /\ parent[i] = initproc ~> state[i] = "UNUSED"
=============================================================================
