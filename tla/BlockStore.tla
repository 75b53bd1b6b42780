---------------------------- MODULE BlockStore ----------------------------
(***************************************************************************)
(* What bio.c promises its callers: every block has one current content,   *)
(* and bread()..brelse() is exclusive access to it.  Abstract.             *)
(***************************************************************************)
CONSTANTS Procs, Blocks, Vals, InitVal, NoProc

VARIABLES content, holder
vars == <<content, holder>>

Init == content = [k \in Blocks |-> InitVal] /\ holder = [k \in Blocks |-> NoProc]

Bread(p, k) ==
  /\ holder[k] = NoProc
  /\ holder' = [holder EXCEPT ![k] = p]
  /\ UNCHANGED content

(* The holder changes the block. *)
Update(p, k, v) ==
  /\ holder[k] = p
  /\ content' = [content EXCEPT ![k] = v]
  /\ UNCHANGED holder

Brelse(p, k) ==
  /\ holder[k] = p
  /\ holder' = [holder EXCEPT ![k] = NoProc]
  /\ UNCHANGED content

Next == \E p \in Procs, k \in Blocks :
          Bread(p, k) \/ Brelse(p, k) \/ \E v \in Vals : Update(p, k, v)

Spec == Init /\ [][Next]_vars
=============================================================================
