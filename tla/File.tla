------------------------------- MODULE File -------------------------------
(***************************************************************************)
(* file.c under sysfile.c, pipealloc(), fork() and exit(): the table of    *)
(* open files and the descriptors of the processes.  A step is one         *)
(* critical section of ftable.lock, with what the process does to its own  *)
(* descriptors next to it; an inode is a count of references, a pipe the   *)
(* two flags that keep its page allocated.                                 *)
(***************************************************************************)
EXTENDS Naturals, Sequences, FiniteSets, SequencesExt

CONSTANTS
  Procs, First,  \* processes; First is there from the start
  NFILE, NOFILE, \* entries of the file table, descriptors of a process
  Pages          \* pages kalloc() can still give to pipes

ASSUME FileAssumption ==
  First \in Procs /\ NFILE \in Nat /\ NOFILE \in Nat \ {0} /\ 0 \notin Pages

VARIABLES
  file,          \* ftable.file
  ofile,         \* per process: its descriptors
  pipe,          \* per page: readopen, writeopen
  iref,          \* references to inodes, all files together
  call,          \* per process: the system call it is in
  panic

vars == <<file, ofile, pipe, iref, call, panic>>

Files == 1..NFILE
Fds == 0..NOFILE - 1
None == 0
NoPipe == [readopen |-> FALSE, writeopen |-> FALSE]

(* at: the place in the call.  files: those the call holds, or still has   *)
(* to close.  then: where it goes on after closing.  ff: the copy          *)
(* fileclose() made of an entry it freed.                                  *)
NoFile == [ref |-> 0, type |-> "none", page |-> None, writable |-> FALSE]
Call(at, files, then) == [at |-> at, files |-> files, then |-> then, ff |-> NoFile]
At(p, at) == call[p].at = at /\ panic = "none"
Goto(p, c) == call' = [call EXCEPT ![p] = c]
Idle == Call("idle", <<>>, "idle")

(***************************************************************************)
(* filealloc(), filedup(), fdalloc().                                      *)
(***************************************************************************)
Unused == {f \in Files : file[f].ref = 0}
Filealloc == CHOOSE f \in Unused : \A g \in Unused : f <= g

NotCounted(f) == UNCHANGED file                                    \* a mutant

(* f->ref++. *)
Ref(f) == file' = [file EXCEPT ![f].ref = @ + 1]

Filedup(f) ==
  IF file[f].ref < 1 THEN panic' = "filedup" /\ UNCHANGED file
  ELSE Ref(f) /\ UNCHANGED panic

OpenFds(p) == {fd \in Fds : ofile[p][fd] # None}
FreeFds(o) == {fd \in Fds : o[fd] = None}
CanFdalloc(o) == FreeFds(o) # {}
Fdalloc(o, f) == [o EXCEPT ![CHOOSE fd \in FreeFds(o) : \A e \in FreeFds(o) : fd <= e] = f]

(***************************************************************************)
(* fileclose() of the files a call has to close, in order.                 *)
(***************************************************************************)

(* The entry fileclose() leaves: f->ref = 0, f->type = FD_NONE; nothing    *)
(* else of it is read before it is filled in again.                        *)
Emptied(f) == NoFile

Closed(c) == IF Len(c.files) > 1 THEN [c EXCEPT !.files = Tail(@)]
             ELSE IF c.then = "idle" THEN Idle ELSE Call(c.then, <<>>, "idle")

(* exit() clears each descriptor after it closed the file. *)
Cleared(p, f) ==
  IF call[p].then # "dead" THEN ofile[p]
  ELSE LET fd == CHOOSE fd \in OpenFds(p) : \A e \in OpenFds(p) : fd <= e
       IN  [ofile[p] EXCEPT ![fd] = None]

Fileclose(p) ==
  /\ At(p, "close")
  /\ LET c == call[p]
         f == Head(c.files)
     IN  /\ ofile' = [ofile EXCEPT ![p] = Cleared(p, f)]
         /\ IF file[f].ref < 1
            THEN panic' = "fileclose" /\ UNCHANGED <<file, call>>
            ELSE /\ UNCHANGED panic
                 /\ IF file[f].ref > 1
                    THEN file' = [file EXCEPT ![f].ref = @ - 1] /\ Goto(p, Closed(c))
                    ELSE /\ file' = [file EXCEPT ![f] = Emptied(f)]
                         /\ Goto(p, IF file[f].type = "none" THEN Closed(c)
                                    ELSE [c EXCEPT !.at = "release", !.ff = file[f]])
  /\ UNCHANGED <<pipe, iref>>

LiveWritable(c, f) == file[f].writable                             \* a mutant

(* The end that was closed, from the copy made under ftable.lock. *)
Writable(c, f) == c.ff.writable

(* pipeclose(ff.pipe, ff.writable) or iput(ff.ip). *)
Release(p) ==
  /\ At(p, "release")
  /\ LET c == call[p]
     IN  /\ IF c.ff.type = "inode" THEN iref' = iref - 1 /\ UNCHANGED pipe
            ELSE /\ pipe' = [pipe EXCEPT ![c.ff.page] =
                               IF Writable(c, Head(c.files)) THEN [@ EXCEPT !.writeopen = FALSE]
                               ELSE [@ EXCEPT !.readopen = FALSE]]
                 /\ UNCHANGED iref
         /\ Goto(p, Closed([c EXCEPT !.at = "close", !.ff = NoFile]))
  /\ UNCHANGED <<file, ofile, panic>>

(***************************************************************************)
(* sys_open(): the path has been looked up, or the file created.           *)
(***************************************************************************)
OpenPath(p) ==
  /\ At(p, "idle")
  /\ iref' = iref + 1
  /\ Goto(p, Call("open", <<>>, "idle"))
  /\ UNCHANGED <<file, ofile, pipe, panic>>

(* filealloc() and fdalloc(); without an entry or a descriptor the file is *)
(* closed again, and the inode put.                                        *)
OpenAlloc(p) ==
  /\ At(p, "open")
  /\ IF Unused = {} THEN Goto(p, Call("open_bad", <<>>, "idle")) /\ UNCHANGED <<file, ofile>>
     ELSE /\ file' = [file EXCEPT ![Filealloc].ref = 1]
          /\ IF CanFdalloc(ofile[p])
             THEN /\ ofile' = [ofile EXCEPT ![p] = Fdalloc(@, Filealloc)]
                  /\ Goto(p, Call("open_fill", <<Filealloc>>, "idle"))
             ELSE Goto(p, Call("close", <<Filealloc>>, "open_bad")) /\ UNCHANGED ofile
  /\ UNCHANGED <<pipe, iref, panic>>

OpenBad(p) ==
  /\ At(p, "open_bad")
  /\ iref' = iref - 1
  /\ Goto(p, Idle)
  /\ UNCHANGED <<file, ofile, pipe, panic>>

(* The entry is filled in after iunlock() and end_op(), without a lock. *)
OpenFill(p) ==
  /\ At(p, "open_fill")
  /\ file' = [file EXCEPT ![Head(call[p].files)] =
                [@ EXCEPT !.type = "inode"]]
  /\ Goto(p, Idle)
  /\ UNCHANGED <<ofile, pipe, iref, panic>>

(***************************************************************************)
(* sys_pipe() and pipealloc().                                             *)
(***************************************************************************)
PipeFile1(p) ==
  /\ At(p, "idle")
  /\ Unused # {}                                 \* else the call just fails
  /\ file' = [file EXCEPT ![Filealloc].ref = 1]
  /\ Goto(p, Call("pipe", <<Filealloc>>, "idle"))
  /\ UNCHANGED <<ofile, pipe, iref, panic>>

PipeFile2(p) ==
  /\ At(p, "pipe")
  /\ LET c == call[p]
     IN  IF Unused = {} THEN Goto(p, Call("close", c.files, "idle")) /\ UNCHANGED file
         ELSE /\ file' = [file EXCEPT ![Filealloc].ref = 1]
              /\ Goto(p, Call("pipe_page", Append(c.files, Filealloc), "idle"))
  /\ UNCHANGED <<ofile, pipe, iref, panic>>

End(f, page, w) ==
  [file[f] EXCEPT !.type = "pipe", !.page = page, !.writable = w]

(* sys_pipe() without two descriptors closes both files. *)
BothEnds(files) == files

(* kalloc() of the pipe, then the two descriptors. *)
PipePage(p) ==
  /\ At(p, "pipe_page")
  /\ LET fs == call[p].files
         free == {page \in Pages : pipe[page] = NoPipe}
         page == CHOOSE x \in free : TRUE
         one == Fdalloc(ofile[p], fs[1])
     IN  IF free = {}
         THEN Goto(p, Call("close", fs, "idle")) /\ UNCHANGED <<file, ofile, pipe>>
         ELSE /\ pipe' = [pipe EXCEPT ![page] = [readopen |-> TRUE, writeopen |-> TRUE]]
              /\ file' = [file EXCEPT ![fs[1]] = End(fs[1], page, FALSE),
                                      ![fs[2]] = End(fs[2], page, TRUE)]
              /\ IF CanFdalloc(ofile[p]) /\ CanFdalloc(one)
                 THEN ofile' = [ofile EXCEPT ![p] = Fdalloc(one, fs[2])] /\ Goto(p, Idle)
                 ELSE Goto(p, Call("close", BothEnds(fs), "idle")) /\ UNCHANGED ofile
  /\ UNCHANGED <<iref, panic>>

(***************************************************************************)
(* sys_dup(), sys_close(), fork(), exit().                                 *)
(***************************************************************************)
DupFd(p, fd) ==
  /\ At(p, "idle") /\ fd \in OpenFds(p)
  /\ CanFdalloc(ofile[p])                        \* else the call just fails
  /\ ofile' = [ofile EXCEPT ![p] = Fdalloc(@, ofile[p][fd])]
  /\ Goto(p, Call("dup", <<ofile[p][fd]>>, "idle"))
  /\ UNCHANGED <<file, pipe, iref, panic>>

DupRef(p) ==
  /\ At(p, "dup")
  /\ Filedup(Head(call[p].files))
  /\ Goto(p, Idle)
  /\ UNCHANGED <<ofile, pipe, iref>>

Close(p, fd) ==
  /\ At(p, "idle") /\ fd \in OpenFds(p)
  /\ ofile' = [ofile EXCEPT ![p][fd] = None]
  /\ Goto(p, Call("close", <<ofile[p][fd]>>, "idle"))
  /\ UNCHANGED <<file, pipe, iref, panic>>

InOrder(F) == SelectSeq([i \in 1..NOFILE |-> i - 1], LAMBDA fd : fd \in F)

(* fork() has the child's slot; it copies the descriptors one by one. *)
Fork(p, q) ==
  /\ At(p, "idle") /\ At(q, "dead")
  /\ call' = IF OpenFds(p) = {} THEN [call EXCEPT ![q] = Idle]
             ELSE [call EXCEPT ![p] = Call("fork", InOrder(OpenFds(p)), q),
                               ![q] = Call("embryo", <<>>, "idle")]
  /\ UNCHANGED <<file, ofile, pipe, iref, panic>>

ForkDup(p) ==
  /\ At(p, "fork")
  /\ LET c == call[p]
         fd == Head(c.files)
     IN  /\ Filedup(ofile[p][fd])
         /\ ofile' = [ofile EXCEPT ![c.then][fd] = ofile[p][fd]]
         /\ call' = IF Len(c.files) > 1 THEN [call EXCEPT ![p].files = Tail(@)]
                    ELSE [call EXCEPT ![p] = Idle, ![c.then] = Idle]
  /\ UNCHANGED <<pipe, iref>>

Exit(p) ==
  /\ At(p, "idle") /\ p # First
  /\ LET fds == InOrder(OpenFds(p))
     IN  Goto(p, IF fds = <<>> THEN Call("dead", <<>>, "idle")
                 ELSE Call("close", [i \in DOMAIN fds |-> ofile[p][fds[i]]], "dead"))
  /\ UNCHANGED <<file, ofile, pipe, iref, panic>>

Init ==
  /\ file = [f \in Files |-> NoFile]
  /\ ofile = [p \in Procs |-> [fd \in Fds |-> None]]
  /\ pipe = [page \in Pages |-> NoPipe]
  /\ iref = 0
  /\ call = [p \in Procs |-> IF p = First THEN Idle ELSE Call("dead", <<>>, "idle")]
  /\ panic = "none"

Step(p) ==
  \/ Fileclose(p) \/ Release(p)
  \/ OpenPath(p) \/ OpenAlloc(p) \/ OpenBad(p) \/ OpenFill(p)
  \/ PipeFile1(p) \/ PipeFile2(p) \/ PipePage(p)
  \/ \E fd \in Fds : DupFd(p, fd) \/ Close(p, fd)
  \/ DupRef(p) \/ ForkDup(p) \/ Exit(p)
  \/ \E q \in Procs : Fork(p, q)

Next == \E p \in Procs : Step(p)

Spec == Init /\ [][Next]_vars

(***************************************************************************)
(* Properties.                                                             *)
(***************************************************************************)
Places == {"idle", "dead", "embryo", "open", "open_fill", "open_bad", "pipe", "pipe_page",
           "close", "release", "dup", "fork"}

(* Every variable holds a value of its type. *)
TypeOK ==
  /\ file \in [Files -> [ref : Nat, type : {"none", "inode", "pipe"},
                         page : Pages \cup {None}, writable : BOOLEAN]]
  /\ ofile \in [Procs -> [Fds -> Files \cup {None}]]
  /\ pipe \in [Pages -> [readopen : BOOLEAN, writeopen : BOOLEAN]]
  /\ iref \in Nat /\ \A p \in Procs : call[p].at \in Places
  /\ panic \in {"none", "filedup", "fileclose"}

(* Neither filedup() nor fileclose() meets a file nobody has open. *)
NoPanic == panic = "none"

(* The descriptors that name f. *)
Named(f) == {d \in Procs \X Fds : ofile[d[1]][d[2]] = f}

(* The references to f that calls in progress have beside the descriptors. *)
InCall(f, p) ==
  LET c == call[p]
  IN  CASE c.at \in {"pipe", "pipe_page"} -> Cardinality({i \in DOMAIN c.files : c.files[i] = f})
        [] c.at = "close" /\ c.then # "dead" -> Cardinality({i \in DOMAIN c.files : c.files[i] = f})
        [] c.at = "release" /\ c.then # "dead"
             -> Cardinality({i \in 2..Len(c.files) : c.files[i] = f})
        [] OTHER -> 0

(* f->ref is the number of descriptors that name f and of calls about to   *)
(* install or to close it; sys_dup() installs the second descriptor before *)
(* it counts it.                                                           *)
RefExact ==
  \A f \in Files :
    file[f].ref + Cardinality({p \in Procs : call[p].at = "dup" /\ Head(call[p].files) = f})
      = Cardinality(Named(f)) + MapThenSumSet(LAMBDA p : InCall(f, p), Procs)

(* An entry that is not in use has no type: the calls that give back an    *)
(* entry they have not filled in rely on it, since fileclose() would put   *)
(* the inode or close the pipe of its last user once more.                 *)
FreeIsNone == \A f \in Files : file[f].ref = 0 => file[f].type = "none"

(* A process between two calls finds every descriptor filled in, which     *)
(* fileread() and filewrite() panic about.                                 *)
DescriptorsReady ==
  \A p \in Procs : call[p].at = "idle" =>
    \A fd \in OpenFds(p) : file[ofile[p][fd]].ref > 0 /\ file[ofile[p][fd]].type # "none"

(* Inode references and the ends of pipes: each belongs to an open file or *)
(* to the call that is about to store or to drop it.  None is lost when a  *)
(* call fails half-way, and no pipe stays without a user.                  *)
Holding(type) == {f \in Files : file[f].ref > 0 /\ file[f].type = type}
Dropping(type) == {p \in Procs : call[p].at = "release" /\ call[p].ff.type = type}

ObjectsOwned ==
  /\ iref = Cardinality(Holding("inode")) + Cardinality(Dropping("inode"))
             + Cardinality({p \in Procs :
                              \/ call[p].at \in {"open", "open_fill", "open_bad"}
                              \/ call[p].at \in {"close", "release"} /\ call[p].then = "open_bad"})
  /\ \A page \in Pages, w \in BOOLEAN :
       (IF w THEN pipe[page].writeopen ELSE pipe[page].readopen) <=>
         \/ \E f \in Holding("pipe") : file[f].page = page /\ file[f].writable = w
         \/ \E p \in Dropping("pipe") : call[p].ff.page = page /\ call[p].ff.writable = w
=============================================================================
