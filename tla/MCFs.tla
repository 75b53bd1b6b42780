-------------------------------- MODULE MCFs --------------------------------
(* Instances of Fs for TLC. *)
EXTENDS Fs, TLC

ProcSymmetry == Permutations(Procs)

(* The state without what no step reads again: the fields of an unused     *)
(* entry, which iget() sets, and those that ilock() will load.             *)
LiveState ==
  <<[s \in Slots |-> IF icache[s].ref = 0 THEN <<>>
                     ELSE IF ~icache[s].valid THEN <<icache[s].inum, icache[s].ref, icache[s].owner>>
                     ELSE <<icache[s]>>],
    dinode, proc, panic, load>>

Open(path) == [call |-> "open", path |-> path, writing |-> TRUE]
OpenRead(path) == [call |-> "open", path |-> path, writing |-> FALSE]
Creat(path) == [call |-> "creat", path |-> path]
Mkdir(path) == [call |-> "mkdir", path |-> path]
Link(old, new) == [call |-> "link", path |-> old, new |-> new]
Unlink(path) == [call |-> "unlink", path |-> path]
ChdirTo(path) == [call |-> "chdir", path |-> path]
CloseFd(d) == [call |-> "close", fd |-> d]

(* The calls of the linkunlink test of usertests.c, and more of them; with *)
(* the last one a process waits for itself.                                *)
FileCalls == {Open(<<"b">>), Creat(<<"b">>), Link(<<"a">>, <<"b">>), Unlink(<<"a">>), Unlink(<<"b">>),
              CloseFd(1), Link(<<"a">>, <<".">>)}

A == <<"/", "a">>
AB == <<"/", "a", "b">>
B == <<"/", "b">>

(* A tree; nothing is made in a directory that was removed, and no process *)
(* goes two levels down.                                                   *)
TreeCalls == {Mkdir(A), Mkdir(AB), Creat(AB), Unlink(A), Unlink(AB), Unlink(<<"/">>), Unlink(<<".">>),
              ChdirTo(A), ChdirTo(<<"..">>), OpenRead(<<".">>), Open(<<".">>), CloseFd(1),
              Link(AB, B), Unlink(B)}

(* The scenarios that show a disagreement. *)
RaceCalls == {Open(<<"a">>), Unlink(<<"a">>), CloseFd(1)}
CreateUnlinkCalls == {Creat(<<"b">>), Unlink(<<"b">>)}
LinkDotCalls == {Link(<<"a">>, <<".">>)}
DotDotCalls == {Mkdir(A), Mkdir(AB), ChdirTo(AB), Unlink(AB), Unlink(A), OpenRead(<<"..">>)}
RemovedCalls == {Mkdir(A), ChdirTo(A), Unlink(A), Creat(<<"b">>)}

Load(programs, workers, calls) == [programs |-> programs, workers |-> workers, calls |-> calls]

(* All processes at the same files, or one of them in a tree. *)
FilesOrTree ==
  {Load(<<"a", "c">>, Procs, FileCalls)} \cup {Load(<<>>, {p}, TreeCalls) : p \in Procs}

RaceLoad == {Load(<<"a">>, Procs, RaceCalls)}
CreateUnlinkLoad == {Load(<<>>, Procs, CreateUnlinkCalls)}
LinkDotLoad == {Load(<<"a">>, {p}, LinkDotCalls) : p \in Procs}
DotDotLoad == {Load(<<>>, {p}, DotDotCalls) : p \in Procs}
RemovedLoad == {Load(<<>>, {p}, RemovedCalls) : p \in Procs}
=============================================================================
