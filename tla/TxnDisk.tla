------------------------------ MODULE TxnDisk ------------------------------
(***************************************************************************)
(* What the logging layer promises the file system: a disk whose updates,  *)
(* grouped by begin_op()/end_op(), survive a crash all together or not at  *)
(* all.  `mem' is what reads return, `stable' what a crash leaves behind,  *)
(* `active' the system calls between begin_op() and end_op().              *)
(***************************************************************************)
CONSTANTS Procs, Blocks, Vals, InitVal

VARIABLES mem, stable, active

vars == <<mem, stable, active>>

Init ==
  /\ mem = [b \in Blocks |-> InitVal]
  /\ stable = [b \in Blocks |-> InitVal]
  /\ active = {}

Begin(p) ==
  /\ p \notin active
  /\ active' = active \cup {p}
  /\ UNCHANGED <<mem, stable>>

Write(p, b, v) ==
  /\ p \in active
  /\ mem' = [mem EXCEPT ![b] = v]
  /\ UNCHANGED <<stable, active>>

End(p) ==
  /\ p \in active
  /\ active' = active \ {p}
  /\ UNCHANGED <<mem, stable>>

(* Everything written since the last commit becomes durable in one step,   *)
(* and only while no system call is half done.                             *)
Commit ==
  /\ active = {}
  /\ stable' = mem
  /\ UNCHANGED <<mem, active>>

Crash ==
  /\ mem' = stable
  /\ active' = {}
  /\ UNCHANGED stable

Next ==
  \/ \E p \in Procs : Begin(p) \/ End(p)
  \/ \E p \in Procs, b \in Blocks, v \in Vals : Write(p, b, v)
  \/ Commit
  \/ Crash

Spec == Init /\ [][Next]_vars
=============================================================================
