------------------------------- MODULE Fifo -------------------------------
(***************************************************************************)
(* What a pipe, and the line buffer of the console, promise: a bounded     *)
(* queue of bytes.  Abstract.                                              *)
(***************************************************************************)
EXTENDS Naturals, Sequences

CONSTANTS Bytes, Capacity

VARIABLE q

Init == q = <<>>

(* A writer appends a piece of its buffer, as much as fits; the console a  *)
(* line.                                                                   *)
Send == \E k \in 1..Capacity - Len(q) :
          \E s \in [1..k -> Bytes] : q' = q \o s

(* A reader takes the oldest bytes. *)
Receive == \E k \in 1..Len(q) : q' = SubSeq(q, k + 1, Len(q))

Next == Send \/ Receive

Spec == Init /\ [][Next]_q
=============================================================================
