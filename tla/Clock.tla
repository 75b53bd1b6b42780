------------------------------- MODULE Clock -------------------------------
(***************************************************************************)
(* spinlock.c under the clock: acquire() and release() with pushcli() and  *)
(* popcli(), the timer interrupt of trap(), sleep(), yield() and sched(),  *)
(* and the system calls sleep, uptime and kill.                            *)
(*                                                                         *)
(* A CPU executes a thread: a process, or its own scheduler.  The code of  *)
(* a thread is the sequence of instructions it has still to execute; an    *)
(* interrupt puts those of its handler in front.  A CPU that spins has a   *)
(* next instruction that is not enabled, and interrupts off.  A process    *)
(* whose code is empty is in user mode.                                    *)
(***************************************************************************)
EXTENDS Integers, Sequences, FiniteSets

CONSTANTS
  Procs,
  CPUs, Cpu0, NoCpu,  \* Cpu0 is the one that counts the ticks
  W,                  \* ticks is an unsigned integer below W, 2^32 in C
  Calls(_)            \* bound: the system calls a process makes

ASSUME ClockAssumption ==
  /\ Cpu0 \in CPUs /\ NoCpu \notin CPUs /\ CPUs \cap Procs = {}
  /\ W \in Nat \ {0}
  /\ \A p \in Procs : \A x \in Calls(p) :
       \/ x[1] = "sleep" /\ x[2] \in -W..W
       \/ x[1] = "uptime"
       \/ x[1] = "kill" /\ x[2] \in Procs

VARIABLES
  iflag, ncli, intena,  \* per CPU: FL_IF of eflags, and struct cpu
  cur,                  \* per CPU: the thread it executes
  holder,               \* per lock: the CPU that has it
  state, killed,        \* per process
  code, saved,          \* per thread: its code; intena in sched()
  ticks,
  ticks0, n,            \* per process: the variables of sys_sleep()
  panic

cpu == <<iflag, ncli, intena>>
local == <<ticks0, n>>
vars == <<cpu, cur, holder, state, killed, code, saved, ticks, local, panic>>

Locks == {"tickslock", "ptable.lock"}
Unsigned(x) == x % W

(***************************************************************************)
(* The instructions.                                                       *)
(***************************************************************************)
Op(t) == IF code[t] = <<>> THEN "none" ELSE Head(code[t])[1]
Arg(t) == Head(code[t])[2]
Rest(t) == Tail(code[t])
Goto(t, c) == code' = [code EXCEPT ![t] = c]
Die(why) ==
  panic' = why /\ UNCHANGED <<cpu, cur, holder, state, killed, code, saved, ticks, local>>

(* The CPU that executes instruction op. *)
At(c, op) == panic = "none" /\ Op(cur[c]) = op

Acquire(l) == << <<"acquire", l>> >>
Release(l) == << <<"release", l>> >>

UnlockFirst(l) ==                                                  \* a mutant
  Release(l) \o Acquire("ptable.lock")

(* What sleep(chan, lk) does before it goes to sleep. *)
LockSwap(l) == Acquire("ptable.lock") \o Release(l)

(* sleep(&ticks, lk). *)
Sleep(l) ==
  LockSwap(l) \o << <<"sched", "SLEEPING">>, <<"resume">> >>
  \o Release("ptable.lock") \o Acquire(l)

Wakeup == Acquire("ptable.lock") \o << <<"wakeup1">> >> \o Release("ptable.lock")

Yield ==
  Acquire("ptable.lock") \o << <<"sched", "RUNNABLE">>, <<"resume">> >> \o Release("ptable.lock")

(* exit(), from its acquire() on. *)
Exit == Acquire("ptable.lock") \o << <<"sched", "ZOMBIE">> >>

Forkret == Release("ptable.lock") \o << <<"trapret">> >>

(***************************************************************************)
(* pushcli(), popcli(), acquire(), release().                              *)
(***************************************************************************)
Holding(c, l) == holder[l] = c

InterruptsStayOn(c) ==                                             \* a mutant
  /\ intena' = IF ncli[c] = 0 THEN [intena EXCEPT ![c] = iflag[c]] ELSE intena
  /\ ncli' = [ncli EXCEPT ![c] = @ + 1]
  /\ UNCHANGED iflag

Pushcli(c) ==
  /\ iflag' = [iflag EXCEPT ![c] = FALSE]
  /\ intena' = IF ncli[c] = 0 THEN [intena EXCEPT ![c] = iflag[c]] ELSE intena
  /\ ncli' = [ncli EXCEPT ![c] = @ + 1]

Popcli(c) ==
  /\ ncli' = [ncli EXCEPT ![c] = @ - 1]
  /\ iflag' = IF ncli[c] = 1 /\ intena[c] THEN [iflag EXCEPT ![c] = TRUE] ELSE iflag
  /\ UNCHANGED intena

(* acquire(), up to its loop. *)
DoAcquire(c) ==
  /\ At(c, "acquire")
  /\ LET l == Arg(cur[c])
     IN  IF Holding(c, l) THEN Die("acquire")
         ELSE /\ Pushcli(c)
              /\ Goto(cur[c], << <<"xchg", l>> >> \o Rest(cur[c]))
              /\ UNCHANGED <<cur, holder, state, killed, saved, ticks, local, panic>>

(* The xchg() that finds the lock free; a CPU spins until then. *)
DoXchg(c) ==
  /\ At(c, "xchg")
  /\ holder[Arg(cur[c])] = NoCpu
  /\ holder' = [holder EXCEPT ![Arg(cur[c])] = c]
  /\ Goto(cur[c], Rest(cur[c]))
  /\ UNCHANGED <<cpu, cur, state, killed, saved, ticks, local, panic>>

DoRelease(c) ==
  /\ At(c, "release")
  /\ IF ~Holding(c, Arg(cur[c])) THEN Die("release")
     ELSE IF iflag[c] THEN Die("popcli - interruptible")
     ELSE IF ncli[c] < 1 THEN Die("popcli")
     ELSE /\ holder' = [holder EXCEPT ![Arg(cur[c])] = NoCpu]
          /\ Popcli(c)
          /\ Goto(cur[c], Rest(cur[c]))
          /\ UNCHANGED <<cur, state, killed, saved, ticks, local, panic>>

(***************************************************************************)
(* sched() and scheduler().                                                *)
(***************************************************************************)

(* sched() up to swtch(), after p->state was set. *)
DoSched(c) ==
  /\ At(c, "sched")
  /\ IF ~Holding(c, "ptable.lock") THEN Die("sched ptable.lock")
     ELSE IF ncli[c] # 1 THEN Die("sched locks")
     ELSE IF iflag[c] THEN Die("sched interruptible")
     ELSE /\ state' = [state EXCEPT ![cur[c]] = Arg(cur[c])]
          /\ saved' = [saved EXCEPT ![cur[c]] = intena[c]]
          /\ Goto(cur[c], Rest(cur[c]))
          /\ cur' = [cur EXCEPT ![c] = c]
          /\ UNCHANGED <<cpu, holder, killed, ticks, local, panic>>

IntenaOfCpu(c, t) == intena                                        \* a mutant

(* mycpu()->intena = intena. *)
Restored(c, t) == [intena EXCEPT ![c] = saved[t]]

(* scheduler(): sti(), acquire(); at the end of the table, release(). *)
Loop(c) ==
  /\ panic = "none" /\ cur[c] = c /\ code[c] = <<>>
  /\ iflag' = [iflag EXCEPT ![c] = TRUE]
  /\ Goto(c, Acquire("ptable.lock") \o Release("ptable.lock"))
  /\ UNCHANGED <<ncli, intena, cur, holder, state, killed, saved, ticks, local, panic>>

(* Before the end of the table, a RUNNABLE process.  Its swtch() in        *)
(* sched() returns, perhaps on another CPU than before, or it starts in    *)
(* forkret(); when swtch() returns here the loop goes on.                  *)
SwitchTo(c, p) ==
  /\ panic = "none" /\ cur[c] = c /\ code[c] = Release("ptable.lock") /\ state[p] = "RUNNABLE"
  /\ state' = [state EXCEPT ![p] = "RUNNING"]
  /\ cur' = [cur EXCEPT ![c] = p]
  /\ IF Op(p) = "resume"
     THEN /\ intena' = Restored(c, p)
          /\ saved' = [saved EXCEPT ![p] = FALSE]                  \* dead
          /\ Goto(p, Rest(p))
     ELSE UNCHANGED <<intena, saved, code>>
  /\ UNCHANGED <<iflag, ncli, holder, killed, ticks, local, panic>>

(***************************************************************************)
(* trap(): the timer interrupt.                                            *)
(***************************************************************************)
(* What only the first CPU does. *)
CountTick(c) ==
  IF c = Cpu0
  THEN Acquire("tickslock") \o << <<"tick">> >> \o Wakeup \o Release("tickslock")
  ELSE <<>>

(* The gate of an interrupt clears FL_IF. *)
Timer(c) ==
  /\ panic = "none" /\ iflag[c]
  /\ iflag' = [iflag EXCEPT ![c] = FALSE]
  /\ Goto(cur[c], CountTick(c) \o << <<"eoi", code[cur[c]] = <<>> >> >> \o code[cur[c]])
  /\ UNCHANGED <<ncli, intena, cur, holder, state, killed, saved, ticks, local, panic>>

DoTick(c) ==
  /\ At(c, "tick")
  /\ ticks' = Unsigned(ticks + 1)
  /\ Goto(cur[c], Rest(cur[c]))
  /\ UNCHANGED <<cpu, cur, holder, state, killed, saved, local, panic>>

(* wakeup1(&ticks). *)
DoWakeup1(c) ==
  /\ At(c, "wakeup1")
  /\ state' = [p \in Procs |-> IF state[p] = "SLEEPING" THEN "RUNNABLE" ELSE state[p]]
  /\ Goto(cur[c], Rest(cur[c]))
  /\ UNCHANGED <<cpu, cur, holder, killed, saved, ticks, local, panic>>

(* From user mode, and killed. *)
MustExit(t, user) == user /\ t \in Procs /\ killed[t]

(* trap() after the switch. *)
DoEoi(c) ==
  /\ At(c, "eoi")
  /\ LET t == cur[c]
     IN  Goto(t, IF MustExit(t, Arg(t)) THEN Exit
                 ELSE IF t \in Procs /\ state[t] = "RUNNING"
                 THEN Yield \o << <<"iret", Arg(t)>> >> \o Rest(t)
                 ELSE << <<"iret", Arg(t)>> >> \o Rest(t))
  /\ UNCHANGED <<cpu, cur, holder, state, killed, saved, ticks, local, panic>>

(* The last test of trap(), and iret. *)
DoIret(c) ==
  /\ At(c, "iret")
  /\ IF MustExit(cur[c], Arg(cur[c])) THEN Goto(cur[c], Exit) /\ UNCHANGED iflag
     ELSE /\ iflag' = [iflag EXCEPT ![c] = TRUE]
          /\ Goto(cur[c], Rest(cur[c]))
  /\ UNCHANGED <<ncli, intena, cur, holder, state, killed, saved, ticks, local, panic>>

(* The return of forkret() to user mode. *)
DoTrapret(c) ==
  /\ At(c, "trapret")
  /\ iflag' = [iflag EXCEPT ![c] = TRUE]
  /\ Goto(cur[c], Rest(cur[c]))
  /\ UNCHANGED <<ncli, intena, cur, holder, state, killed, saved, ticks, local, panic>>

(***************************************************************************)
(* The system calls; their gate leaves FL_IF alone.                        *)
(***************************************************************************)
SysSleep == Acquire("tickslock") \o << <<"ticks0">> >>
SysUptime == Acquire("tickslock") \o Release("tickslock")
SysKill(q) == Acquire("ptable.lock") \o << <<"kill", q>> >> \o Release("ptable.lock")

Body(x) ==
  CASE x[1] = "sleep" -> SysSleep
    [] x[1] = "uptime" -> SysUptime
    [] x[1] = "kill" -> SysKill(x[2])

(* The trap of process p for call x. *)
Syscall(c, p, x) ==
  /\ panic = "none" /\ cur[c] = p /\ code[p] = <<>>
  /\ Goto(p, IF killed[p] THEN Exit ELSE Body(x) \o << <<"sysret">> >>)
  /\ n' = [n EXCEPT ![p] = IF x[1] = "sleep" THEN x[2] ELSE 0]
  /\ UNCHANGED <<cpu, cur, holder, state, killed, saved, ticks, ticks0, panic>>

DoSysret(c) ==
  /\ At(c, "sysret")
  /\ Goto(cur[c], IF killed[cur[c]] THEN Exit ELSE <<>>)
  /\ ticks0' = [ticks0 EXCEPT ![cur[c]] = 0] /\ n' = [n EXCEPT ![cur[c]] = 0]
  /\ UNCHANGED <<cpu, cur, holder, state, killed, saved, ticks, panic>>

(* ticks - ticks0 < n, where n becomes unsigned. *)
TooEarly(t0, k) == Unsigned(ticks - t0) < Unsigned(k)

(* The loop of sys_sleep() tests, with t0 for ticks0. *)
Test(c, t0) ==
  /\ LET p == cur[c]
     IN  Goto(p, (IF TooEarly(t0, n[p]) /\ ~killed[p] THEN Sleep("tickslock") \o << <<"test">> >>
                  ELSE Release("tickslock"))
                 \o Rest(p))
  /\ ticks0' = [ticks0 EXCEPT ![cur[c]] = t0]
  /\ UNCHANGED <<cpu, cur, holder, state, killed, saved, ticks, n, panic>>

DoTicks0(c) == At(c, "ticks0") /\ Test(c, ticks)
DoTest(c) == At(c, "test") /\ Test(c, ticks0[cur[c]])

DoKill(c) ==
  /\ At(c, "kill")
  /\ LET q == Arg(cur[c])
     IN  /\ killed' = [killed EXCEPT ![q] = TRUE]
         /\ state' = [state EXCEPT ![q] = IF @ = "SLEEPING" THEN "RUNNABLE" ELSE @]
  /\ Goto(cur[c], Rest(cur[c]))
  /\ UNCHANGED <<cpu, cur, holder, saved, ticks, local, panic>>

(***************************************************************************)
(* Every process is about to run for the first time, and mpmain() has      *)
(* entered the scheduler of every CPU.                                     *)
(***************************************************************************)
Init ==
  /\ iflag = [c \in CPUs |-> FALSE] /\ ncli = [c \in CPUs |-> 0] /\ intena = [c \in CPUs |-> FALSE]
  /\ cur = [c \in CPUs |-> c]
  /\ holder = [l \in Locks |-> NoCpu]
  /\ state = [p \in Procs |-> "RUNNABLE"] /\ killed = [p \in Procs |-> FALSE]
  /\ code = [t \in Procs \cup CPUs |-> IF t \in Procs THEN Forkret ELSE <<>>]
  /\ saved = [p \in Procs |-> FALSE]
  /\ ticks = 0
  /\ ticks0 = [p \in Procs |-> 0] /\ n = [p \in Procs |-> 0]
  /\ panic = "none"

Step(c) ==
  \/ DoAcquire(c) \/ DoXchg(c) \/ DoRelease(c)
  \/ DoSched(c) \/ Loop(c) \/ \E p \in Procs : SwitchTo(c, p)
  \/ DoTick(c) \/ DoWakeup1(c) \/ DoEoi(c) \/ DoIret(c) \/ DoTrapret(c)
  \/ \E p \in Procs : \E x \in Calls(p) : Syscall(c, p, x)
  \/ DoSysret(c) \/ DoTicks0(c) \/ DoTest(c) \/ DoKill(c)

Next == \E c \in CPUs : Step(c) \/ Timer(c)

Spec == Init /\ [][Next]_vars

(***************************************************************************)
(* Properties.                                                             *)
(***************************************************************************)
(* Every variable holds a value of its type. *)
TypeOK ==
  /\ iflag \in [CPUs -> BOOLEAN] /\ ncli \in [CPUs -> 0..2] /\ intena \in [CPUs -> BOOLEAN]
  /\ \A c \in CPUs : cur[c] \in Procs \cup {c}
  /\ holder \in [Locks -> CPUs \cup {NoCpu}]
  /\ state \in [Procs -> {"RUNNABLE", "RUNNING", "SLEEPING", "ZOMBIE"}]
  /\ killed \in [Procs -> BOOLEAN] /\ saved \in [Procs -> BOOLEAN]
  /\ {ticks} \cup {ticks0[p] : p \in Procs} \subseteq 0..W - 1 /\ n \in [Procs -> -W..W]

(* The panics of acquire(), release(), popcli() and sched() are not        *)
(* reached: no interrupt handler asks for a lock its own CPU has, locks    *)
(* are released by the CPU that took them although a thread may have       *)
(* changed CPU since, and nobody sleeps with a second lock.                *)
NoPanic == panic = "none"

Has(t, ops) == \E i \in DOMAIN code[t] : code[t][i][1] \in ops

(* "intena is a property of this kernel thread, not this CPU" (proc.c:360) *)
(* A thread outside pushcli() has interrupts off in a handler, on in the   *)
(* rest of a system call and in user mode, on whichever CPU it goes on and *)
(* whoever ran there before it.                                            *)
InterruptsRestored ==
  \A c \in CPUs :
    LET t == cur[c]
    IN  panic = "none" /\ ncli[c] = 0 =>
          /\ Has(t, {"eoi", "iret"}) => ~iflag[c]
          /\ t \in Procs /\ (code[t] = <<>> \/ Has(t, {"sysret"})) /\ ~Has(t, {"eoi", "iret"})
               => iflag[c]

(* sys_sleep(): outside the critical sections of tickslock nobody sleeps   *)
(* on whose time has come: fewer than n ticks have been counted since      *)
(* ticks0.  No tick is lost between the test and the sleep, and none when  *)
(* ticks wraps around.                                                     *)
SleeperNotLate ==
  \A p \in Procs : state[p] = "SLEEPING" /\ holder["tickslock"] = NoCpu =>
    \E k \in 0..Unsigned(n[p]) - 1 : ticks = Unsigned(ticks0[p] + k)
=============================================================================
