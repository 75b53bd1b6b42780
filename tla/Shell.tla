------------------------------- MODULE Shell -------------------------------
(***************************************************************************)
(* init.c and sh.c over the file table: init starts a shell, the shell      *)
(* forks a process for every line and waits for it, and that process sets   *)
(* up pipes and redirections and runs programs.  The system calls are those *)
(* of File; a process is what is left of its program, a sequence of         *)
(* operations, with its parent.  fork() and wait() are those of proc.c seen *)
(* from outside; the programs are echo, cat and one that fills its table.   *)
(***************************************************************************)
EXTENDS File, ShParse

CONSTANTS
  Sessions,     \* what the user may type: sequences of lines
  PIPESIZE,     \* bytes a pipe holds
  Output        \* bytes an echo writes

VARIABLES
  script,       \* per process: the operations it has still to do
  parent,       \* per process: its parent; None for a slot that is not in use
  mem,          \* per process: its variables p[2] and fd
  data,         \* per page: bytes in the pipe
  input         \* the lines still to be typed

allvars == <<vars, script, parent, mem, data, input>>

Failed == NOFILE                     \* a call's -1
NoMem == [p |-> <<Failed, Failed>>, fd |-> Failed]

Op(name, arg) == <<name, arg>>
Do(name) == Op(name, 0)
Exits == <<Do("exit")>>

(***************************************************************************)
(* runcmd(): what a process does for a command.                             *)
(***************************************************************************)

KeepsRead(i, cmd) ==                                               \* a mutant
  <<Op("close", i), Op("dup p", i), Op("close p", 1), Op("run", cmd)>>

\* The child on one side of a pipe: descriptor i becomes p[i].
Side(i, cmd) ==
  <<Op("close", i), Op("dup p", i), Op("close p", 0), Op("close p", 1), Op("run", cmd)>>

KeepsEnds(cmd) ==                                                  \* a mutant
  <<Do("pipe"), Do("piped"), Op("fork1", Side(1, cmd.left)), Op("fork1", Side(0, cmd.right)),
    Do("wait"), Do("wait")>> \o Exits

RunPipe(cmd) ==
  <<Do("pipe"), Do("piped"), Op("fork1", Side(1, cmd.left)), Op("fork1", Side(0, cmd.right)),
    Op("close p", 0), Op("close p", 1), Do("wait"), Do("wait")>> \o Exits

RunRedir(cmd) ==
  <<Op("close", cmd.fd), Op("open", "file"), Do("opened"), Op("run", cmd.cmd)>>

RunList(cmd) ==
  <<Op("fork1", <<Op("run", cmd.left)>>), Do("wait"), Op("run", cmd.right)>>

RunBack(cmd) == <<Op("fork1", <<Op("run", cmd.cmd)>>)>> \o Exits

Runcmd(cmd) ==
  CASE cmd.type = "EXEC" -> IF cmd.argv = <<>> THEN Exits ELSE <<Op("exec", cmd.argv)>>
    [] cmd.type = "REDIR" -> RunRedir(cmd)
    [] cmd.type = "LIST" -> RunList(cmd)
    [] cmd.type = "PIPE" -> RunPipe(cmd)
    [] cmd.type = "BACK" -> RunBack(cmd)

\* The programs; for another name exec() fails, and so does the command.
Echo == [i \in 1..Output |-> Op("write", "echo")] \o Exits
Cat == <<Do("read")>>

\* A program of the user's that uses up its descriptors: open() finds none in the end, and
\* pipe() only one.
Filler ==
  [i \in 1..NOFILE - 2 |-> Op("open", "file")] \o <<Op("close", NOFILE - 1), Do("pipe")>> \o Exits

Program(argv) ==
  CASE argv[1] = <<"e">> -> Echo
    [] argv[1] = <<"c">> -> Cat
    [] argv[1] = <<"u">> -> Filler
    [] OTHER -> Exits

\* The main functions of init and of the shell, up to their loops.
InitMain == <<Op("open", "console"), Op("dup", 0), Op("dup", 0), Do("start sh")>>
ShMain == <<Op("open", "console"), Do("console")>>
Prompt == <<Do("prompt")>>

\* A line: panic() in the parser ends the child that parses.
Started(r) == IF r.ok THEN <<Op("run", r.cmd)>> ELSE Exits

(***************************************************************************)
(* Processes.                                                               *)
(***************************************************************************)
Ready(p, name) == At(p, "idle") /\ script[p] # <<>> /\ Head(script[p])[1] = name
Arg(p) == Head(script[p])[2]
Continue(p, s) == script' = [script EXCEPT ![p] = s]
Advance(p) == Continue(p, Tail(script[p]))

\* allocproc() takes the first slot that is not in use.
Slots == {q \in Procs \ {First} : call[q].at = "dead" /\ parent[q] = None}
Slot == CHOOSE q \in Slots : \A r \in Slots : q <= r
Children(p) == {q \in Procs : parent[q] = p}
Zombies(p) == {q \in Children(p) : call[q].at = "dead"}
Zombie(p) == CHOOSE q \in Zombies(p) : \A r \in Zombies(p) : q <= r

Forked(p, child, rest) ==
  /\ Fork(p, Slot)
  /\ script' = [script EXCEPT ![p] = rest, ![Slot] = child]
  /\ parent' = [parent EXCEPT ![Slot] = p]
  /\ mem' = [mem EXCEPT ![Slot] = mem[p]]
  /\ UNCHANGED data

\* fork1(): panic() without a slot.
Fork1(p, child, rest) ==
  IF Slots = {} THEN Continue(p, Exits) /\ UNCHANGED <<vars, parent, mem, data>>
  ELSE Forked(p, child, rest)

DoFork1(p) == Ready(p, "fork1") /\ Fork1(p, Arg(p), Tail(script[p])) /\ UNCHANGED input

Eof == <<>>

\* One line: the shell forks, the child parses and runs it, the shell waits.
DoPrompt(p) ==
  /\ Ready(p, "prompt")
  /\ input # <<>> /\ Head(input) # Eof
  /\ input' = Tail(input)
  /\ Fork1(p, Started(Parsecmd(Head(input))), <<Do("wait")>> \o Prompt)

\* End of file at the prompt: the shell exits, and init starts another.
DoEof(p) ==
  /\ Ready(p, "prompt")
  /\ input # <<>> /\ Head(input) = Eof
  /\ input' = Tail(input)
  /\ Continue(p, Exits)
  /\ UNCHANGED <<vars, parent, mem, data>>

\* main()'s loop over open("console"), until a descriptor above 2 shows that 0, 1 and 2
\* are open.
DoConsole(p) ==
  /\ Ready(p, "console")
  /\ Continue(p, CASE mem[p].fd = Failed -> Prompt
                   [] mem[p].fd \in 3..(NOFILE - 1) -> <<Op("close", mem[p].fd)>> \o Prompt
                   [] OTHER -> ShMain)
  /\ UNCHANGED <<vars, parent, mem, data, input>>

\* init: without a slot for the shell it exits, which the kernel does not survive.
DoStartSh(p) ==
  /\ Ready(p, "start sh")
  /\ IF Slots = {} THEN /\ panic' = "init exiting"
                        /\ UNCHANGED <<file, ofile, pipe, iref, call, script, parent, mem, data>>
     ELSE Forked(p, ShMain, <<Op("reap", Slot)>>)
  /\ UNCHANGED input

\* init's loop over wait(): a zombie that is not the shell is somebody's orphan.
DoReap(p) ==
  /\ Ready(p, "reap")
  /\ Zombies(p) # {}
  /\ parent' = [parent EXCEPT ![Zombie(p)] = None]
  /\ Continue(p, IF Zombie(p) = Arg(p) THEN <<Do("start sh")>> ELSE script[p])
  /\ UNCHANGED <<vars, mem, data, input>>

DoWait(p) ==
  /\ Ready(p, "wait")
  /\ Advance(p)
  /\ IF Children(p) = {} THEN UNCHANGED parent
     ELSE Zombies(p) # {} /\ parent' = [parent EXCEPT ![Zombie(p)] = None]
  /\ UNCHANGED <<vars, mem, data, input>>

DoRun(p) ==
  /\ Ready(p, "run")
  /\ Continue(p, Runcmd(Arg(p)))
  /\ UNCHANGED <<vars, parent, mem, data, input>>

DoExec(p) ==
  /\ Ready(p, "exec")
  /\ Continue(p, Program(Arg(p)))
  /\ UNCHANGED <<vars, parent, mem, data, input>>

\* exit(): once the files are closed the children go to init, and the memory is freed.
Buried(p) ==
  IF call'[p].at = "dead"
  THEN /\ parent' = [q \in Procs |-> IF parent[q] = p THEN First ELSE parent[q]]
       /\ mem' = [mem EXCEPT ![p] = NoMem]
  ELSE UNCHANGED <<parent, mem>>

DoExit(p) ==
  /\ Ready(p, "exit")
  /\ Exit(p)
  /\ Continue(p, <<>>)
  /\ Buried(p)
  /\ UNCHANGED <<data, input>>

(***************************************************************************)
(* System calls on descriptors.  A call on a closed descriptor returns -1,  *)
(* and so does a dup() without a free one.                                  *)
(***************************************************************************)
DoClose(p, name, fd) ==
  /\ Ready(p, name)
  /\ IF fd \in OpenFds(p) THEN Close(p, fd) ELSE UNCHANGED vars
  /\ Advance(p)
  /\ UNCHANGED <<parent, mem, data, input>>

DoDup(p, name, fd) ==
  /\ Ready(p, name)
  /\ IF fd \in OpenFds(p) /\ CanFdalloc(ofile[p]) THEN DupFd(p, fd) ELSE UNCHANGED vars
  /\ Advance(p)
  /\ UNCHANGED <<parent, mem, data, input>>

\* Only the file of a redirection may be missing.
DoOpen(p) ==
  /\ Ready(p, "open")
  /\ Advance(p)
  /\ \/ OpenPath(p) /\ UNCHANGED mem
     \/ Arg(p) = "file" /\ mem' = [mem EXCEPT ![p].fd = Failed] /\ UNCHANGED vars
  /\ UNCHANGED <<parent, data, input>>

DoOpened(p) ==
  /\ Ready(p, "opened")
  /\ IF mem[p].fd = Failed THEN Continue(p, Exits) ELSE Advance(p)
  /\ UNCHANGED <<vars, parent, mem, data, input>>

DoPipe(p) ==
  /\ Ready(p, "pipe")
  /\ IF Unused = {} THEN UNCHANGED vars ELSE PipeFile1(p)
  /\ mem' = [mem EXCEPT ![p].p = NoMem.p]
  /\ Advance(p)
  /\ UNCHANGED <<parent, data, input>>

DoPiped(p) ==
  /\ Ready(p, "piped")
  /\ IF mem[p].p = NoMem.p THEN Continue(p, Exits) ELSE Advance(p)
  /\ UNCHANGED <<vars, parent, mem, data, input>>

Out(p) == file[ofile[p][1]]
In(p) == file[ofile[p][0]]

\* write(1, ...) of a byte: a full pipe with a reader makes the writer wait, one without
\* a reader makes the call fail, which only cat looks at.
DoWrite(p) ==
  /\ Ready(p, "write")
  /\ \/ Out(p).type = "inode" /\ Advance(p) /\ UNCHANGED data
     \/ /\ Out(p).type = "pipe" /\ ~pipe[Out(p).page].readopen
        /\ IF Arg(p) = "cat" THEN Continue(p, Exits) ELSE Advance(p)
        /\ UNCHANGED data
     \/ /\ Out(p).type = "pipe" /\ pipe[Out(p).page].readopen /\ data[Out(p).page] < PIPESIZE
        /\ data' = [data EXCEPT ![Out(p).page] = @ + 1]
        /\ Advance(p)
  /\ UNCHANGED <<vars, parent, mem, input>>

\* cat's read(0, ...): a file or the console is at its end, an empty pipe with a writer
\* makes the reader wait.
DoRead(p) ==
  /\ Ready(p, "read")
  /\ \/ /\ In(p).type = "pipe" => data[In(p).page] = 0 /\ ~pipe[In(p).page].writeopen
        /\ Continue(p, Exits)
        /\ UNCHANGED data
     \/ /\ In(p).type = "pipe" /\ data[In(p).page] > 0
        /\ data' = [data EXCEPT ![In(p).page] = @ - 1]
        /\ Continue(p, <<Op("write", "cat"), Do("read")>>)
  /\ UNCHANGED <<vars, parent, mem, input>>

(***************************************************************************)
(* The rest of a system call, and what it returns.                          *)
(***************************************************************************)
LeastFd(o) == CHOOSE fd \in FreeFds(o) : \A e \in FreeFds(o) : fd <= e

DoneClose(p) ==
  /\ Fileclose(p) \/ Release(p)
  /\ Buried(p)
  /\ data' = [page \in Pages |-> IF pipe'[page] = NoPipe THEN 0 ELSE data[page]]
  /\ UNCHANGED <<script, input>>

DoneOpen(p) ==
  /\ OpenAlloc(p)
  /\ mem' = [mem EXCEPT ![p].fd = IF ofile' = ofile THEN Failed ELSE LeastFd(ofile[p])]
  /\ UNCHANGED <<script, parent, data, input>>

DonePipe(p) ==
  /\ PipePage(p)
  /\ mem' = IF ofile' = ofile THEN mem
            ELSE LET r == LeastFd(ofile[p])
                 IN [mem EXCEPT ![p].p = <<r, LeastFd([ofile[p] EXCEPT ![r] = 1])>>]
  /\ UNCHANGED <<script, parent, data, input>>

DoneOther(p) ==
  /\ OpenBad(p) \/ OpenFill(p) \/ PipeFile2(p) \/ DupRef(p) \/ ForkDup(p)
  /\ UNCHANGED <<script, parent, mem, data, input>>

ShInit ==
  /\ Init
  /\ script = [p \in Procs |-> IF p = First THEN InitMain ELSE <<>>]
  /\ parent = [p \in Procs |-> None]
  /\ mem = [p \in Procs |-> NoMem]
  /\ data = [page \in Pages |-> 0]
  /\ input \in Sessions

\* What a process does without the user.
Run(p) ==
  \/ DoFork1(p) \/ DoConsole(p) \/ DoStartSh(p) \/ DoReap(p) \/ DoWait(p)
  \/ DoRun(p) \/ DoExec(p) \/ DoExit(p)
  \/ DoClose(p, "close", Arg(p)) \/ DoClose(p, "close p", mem[p].p[Arg(p) + 1])
  \/ DoDup(p, "dup", Arg(p)) \/ DoDup(p, "dup p", mem[p].p[Arg(p) + 1])
  \/ DoOpen(p) \/ DoOpened(p) \/ DoPipe(p) \/ DoPiped(p) \/ DoWrite(p) \/ DoRead(p)
  \/ DoneClose(p) \/ DoneOpen(p) \/ DonePipe(p) \/ DoneOther(p)

ShNext == \E p \in Procs : Run(p) \/ DoPrompt(p) \/ DoEof(p)

\* The CPUs do not idle while a process can run; the user need not type.
ShSpec == ShInit /\ [][ShNext]_allvars /\ WF_allvars(\E p \in Procs : Run(p))

(***************************************************************************)
(* Properties.                                                              *)
(***************************************************************************)

\* A program starts with descriptors 0, 1 and 2 and no other: no end of a pipe leaks into
\* a program, and every redirection lands on the descriptor it is for.
StdioOnly == \A p \in Procs : Ready(p, "exec") => OpenFds(p) = 0..2

\* No command is running: the shell is at its prompt and init waits for it.
Quiet == \A p \in Procs \ {First} : call[p].at = "dead" \/ Ready(p, "prompt")

\* Every process that a command line starts ends, and the shell comes back to its prompt:
\* no process of a pipeline waits for ever for another, because each has closed the ends
\* that are not its own, even when fork(), pipe(), open() or exec() fails half-way.  (The
\* kernel stops when init finds no slot for the next shell.)
CommandsEnd == []<>(Quiet \/ panic = "init exiting")
=============================================================================
