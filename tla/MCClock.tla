------------------------------ MODULE MCClock ------------------------------
(* Instances of Clock for TLC. *)
EXTENDS Clock, TLC

CONSTANTS p1, p2

(* One process sleeps, for a tick and, with a negative argument, for as    *)
(* long as an unsigned integer allows; the other one does not.             *)
SomeCalls(p) ==
  IF p = p1 THEN {<<"sleep", 1>>, <<"sleep", -1>>} ELSE {<<"uptime">>, <<"kill", p1>>}

(* intena is dead outside pushcli(). *)
View == <<iflag, ncli, [c \in CPUs |-> ncli[c] > 0 /\ intena[c]],
          cur, holder, state, killed, code, saved, ticks, local, panic>>
=============================================================================
