# xv6 (xv6-sse-local) in TLA+

A verification development for the kernel under `src/xv6-sse-local/`: the x86
xv6 teaching kernel with `swapread()`/`swapwrite()` added. TLA+ modules model
the kernel's components and the programs around it (mkfs, init, the shell, malloc),
TLC checks them on
small instances, and TLAPS proves the properties of the redo log, the process
table and pipes for every instance.

Contents: [the system](#the-system), [modules](#modules), [runs](#runs),
[fairness](#fairness), [proofs](#proofs),
[disagreements](#where-the-code-and-its-words-disagree),
[what is not modelled](#what-is-not-modelled), [plan](#plan).

## The system

xv6 runs on several CPUs that share one kernel. Spinlocks (`spinlock.c`)
disable interrupts and guard short critical sections; sleep locks
(`sleeplock.c`) guard long ones. A process enters the kernel through `trap()`,
and a system call may sleep on a channel until some other process or interrupt
calls `wakeup()`. File-system calls run inside `begin_op()`/`end_op()`, and
the blocks they change reach the disk through a redo log, by way of a buffer
cache that also holds the data to be read.

| part | source | state | operations | what is hard about it | what makes it correct |
|---|---|---|---|---|---|
| redo log | log.c | `struct log`, the log on disk | begin_op, log_write, end_op, commit, recover_from_log | crash between any two disk writes; group commit; room in the log; blocks pinned in the cache | all or nothing after a crash; admitted calls fit; sleepers are woken |
| processes and scheduler | proc.c, trap.c, swtch.S | `ptable`, `cpus[]` | allocproc, fork, exit, wait, kill, yield, sleep, wakeup, scheduler | the lock is handed over through swtch(); a zombie still runs on its stack; wakeups lost between a test and sleep(); reparenting | one CPU per process; no stack freed under its user; every zombie is reaped |
| buffer cache | bio.c | `bcache`: 30 buffers, LRU list | bget, bread, bwrite, brelse | two processes wanting one block; recycling; running out of buffers | behaves as a store of blocks |
| disk driver | ide.c, memide.c | `idequeue` | iderw, idestart, ideintr | queue shared with the interrupt handler | each request reaches its own block, its sleeper is woken |
| sleep and spin locks | sleeplock.c, spinlock.c | lock word, `ncli`, `intena` | acquiresleep, releasesleep, acquire, release, pushcli, popcli | lost wakeups; interrupts restored at the right level | exclusion; a free lock has no sleeper |
| pipes | pipe.c | 512-byte ring, nread/nwrite | pipealloc, piperead, pipewrite, pipeclose | sleepers, close and kill race; counters wrap | a queue; freed once; nobody sleeps without reason |
| file table, descriptors | file.c, sysfile.c | `ftable`, `ofile[]` | filealloc, filedup, fileclose, sys_open, sys_dup, sys_close, sys_pipe | references shared by fork; clean-up on failure | counts are exact; objects released once |
| inodes | fs.c | inode cache, on-disk inodes | iget, idup, ilock, iput, ialloc, iupdate | ref, valid, nlink and the lock; freeing while others look it up | nothing named is freed; nothing unnamed and unused stays |
| blocks and file contents | fs.c, file.c | free bitmap, block maps | balloc, bfree, bmap, itrunc, readi, writei | blocks recycled between data and block numbers; transactions cut to size | every block owned once; reads return what was written |
| directories and paths | fs.c, sysfile.c | directory entries | dirlookup, dirlink, namex, skipelem, sys_link, sys_unlink, create | lock order along a path; removed directories | link counts are the number of names; no deadlock |
| page allocator, virtual memory | kalloc.c, vm.c | free list, page tables | kalloc, kfree, walkpgdir, mappages, allocuvm, deallocuvm, copyuvm, freevm, growproc | memory runs out half-way; sizes wrap | every page owned once; size and table agree |
| exec | exec.c | the new page table | exec | a dozen ways to fail | all-or-nothing replacement of the image |
| console | console.c, kbd.c, uart.c | 128-byte input ring r/w/e | consoleintr, consoleread, consolewrite | editing a ring the reader consumes; wraparound | lines arrive whole and in order; ^D ends a read |
| time and traps | trap.c, sysproc.c, lapic.c | `ticks` | timer tick, sys_sleep, sys_uptime | deadlines on a wrapping counter | a sleeper wakes after n ticks |
| swap area | fs.c, sysfile.c | blocks from SWAPBASE of device 0 | swapread, swapwrite | range checked against another limit than the driver's; eight blocks not written atomically | a page read back is one that was written |
| system call entry | syscall.c | - | fetchint, argptr, argstr, syscall | bounds of user pointers near the top of the address space | arguments lie inside the process |
| user-space heap | umalloc.c | circular free list | malloc, free, morecore | coalescing | blocks are disjoint and none is lost |
| boot and devices | bootmain.c, main.c, mp.c, ioapic.c, picirq.c, ... | - | - | runs once, or drives hardware registers | - |
| init and the shell | init.c, sh.c, cat.c, echo.c | descriptors, pipes, child processes | parsecmd, runcmd, fork1 | ends of pipes left open; fork or pipe failing half-way; parsing in place | every command ends; no descriptor leaks; a line means what the grammar says |
| other user programs | ls.c, usertests.c, ... | - | - | clients of the system calls | - |
| mkfs | mkfs.c | file-system image | ialloc, iappend, balloc | allocators of its own, which fs.c must agree with | the image meets the invariants of fs.c |

How they interact: `Log` contains the buffer cache as the log sees it, and a
crash; `Bcache` is that cache in detail, with locks and disk. `Fs` (names,
counts, locks) and `Content` (blocks and bytes) are the two halves of fs.c, and
`Content` counts the blocks that a transaction hands to the log against what
`Log` reserves for it. `File` keeps the references that `Fs` and `Pipe` receive.
`Proc` provides sleep() and wakeup() to all of them, with the scheduling in
between, and `Clock` shows acquire() and release() to be critical sections, with
interrupts; the other modules take a critical section as one step and a sleeper
as a place a wakeup moves it from. `Vm` shares the page allocator's failures
with fork() and exec(), and `Syscall` tests arguments against the sizes that
`Vm` reaches.

Four modules are compositions. `Shell` runs init and sh over `File`, with the
trees that `ShParse` makes of the typed lines. `Mkfs` builds the image from which
`Content` starts. `Swap` is a client of `BlockStore`, which `Bcache` is shown to
implement. `Syscall` extends `Vm`.

## Modules

| module | models | state | a step is |
|---|---|---|---|
| `TxnDisk` | what the log promises: grouped writes that a crash keeps or loses as a whole | mem, stable, active | abstract |
| `Log` | log.c over cache and disk, with crash and recovery | disk, logd, hdr; buf, dirty; lh, outstanding, committing; pc, held, tail, wrote | a critical section of log.lock or one disk write |
| `LogInv`, `LogControl`, `LogDurable`, `LogAtomic` | theorems about `Log` | | |
| `Proc` | proc.c and the killed tests of trap() | struct proc per slot; ptable.lock; scheduler state per CPU; place of each kernel thread | a critical section, or the part between two switches |
| `ProcInv`, `ProcProofs` | theorems about `Proc` | | |
| `BlockStore` | what the cache promises: one value per block, one holder at a time | | abstract |
| `Bcache` | bio.c, sleeplock.c, ide.c | LRU list, struct buf, sleep lock owners, idequeue, the running command | a critical section of bcache.lock, of a sleep lock or of idelock |
| `Fifo` | what a pipe and the console's line buffer promise | | abstract |
| `Pipe` | pipe.c with fork(), close(), kill() | struct pipe, file references, descriptors | a critical section of p->lock or ftable.lock |
| `PipeInv`, `PipeProofs` | theorems about `Pipe` | | |
| `Fs` | inode cache, directories, path lookup, sysfile.c | icache, on-disk inodes, the instructions left of each call | a critical section of icache.lock, or work on locked inodes |
| `Content` | balloc() to writei(), fileread(), filewrite() | bitmap, blocks, inodes in memory and on disk, inode locks, offsets | the work on one block |
| `File` | ftable, descriptors, clean-up paths | ftable, ofile[], pipe flags, inode references | a critical section of ftable.lock |
| `Vm` | kalloc.c, vm.c, fork/exec/sbrk/wait on memory | free list, address spaces | a system call (its page table is private) |
| `Console` | console.c and the lock of its inode | line buffer r/w/e, inode lock, place of each process | a critical section of cons.lock, or the inode lock |
| `Clock` | spinlock.c, the timer interrupt, sleep(), yield(), sched(); the calls sleep, uptime, kill | FL_IF, ncli, intena per CPU; lock holders; the instructions left of each thread; ticks | one instruction: acquire, release, a test, a switch, an interrupt |
| `ShParse` | the parser of sh.c | none: recursive operators on a line | |
| `Shell` | init.c, runcmd() and main() of sh.c, cat and echo, over `File` | the operations left of each process, its parent, its p[2] and fd, bytes in pipes, lines to be typed | a system call, or the part of it between two locks |
| `Mkfs` | mkfs.c | the image, as a record; the state of `Content` from then on | none of its own: the image is built in the initial state |
| `Syscall` | fetchint(), argint(), argptr(), fetchstr() | that of `Vm` | |
| `Umalloc` | malloc(), free(), morecore() | none: operators on a heap | |
| `Swap` | swapread(), swapwrite() and their system calls | the block store; the call each process is in | bread(), a memmove(), bwrite() or brelse() of one block |

Names follow the source: `Bget` is bget(), a label such as `"write_log"` is a
place in the function of that name, and `PROJECT.json` maps each definition to
its lines. An operator marked *a mutant* is a plausible bug of the definition
under it; putting it in the place of that definition makes TLC report the
property named in `PROJECT.json`.

Abstractions shared by the modules: the contents of blocks and pages are small
values; names are compared, not parsed; printing is left out; panic() is a state
that nothing leaves. Unsigned counters keep a modulus `W`, small enough to wrap
during a run.

Some modules define properties that no recorded run lists: the type invariants;
`OneCpuEach`, `EmbryoOwned` (`Proc`); `OneBuffer`,
`NotStolen`, `CleanIsDisk` (`Bcache`); `OneEntry`, `WriteThrough`, `NamedAlive`
(`Fs`); `FreeIsNone`, `DescriptorsReady` (`File`); `GrowthExact`, `NoHalfGrowth`
(`Vm`); `Ordered`, `OneLine` (`Console`); `BootUntouched`, `CallsReturn`
(`Swap`). TLC found them true on the instance of the module's run when they were
written, but they are not part of what the recorded runs show.

## Runs

Twelve runs, all of which pass. `PROJECT.json` gives, for every property, a
mutant of the code's translation that breaks it. "States" are distinct states.

| run | instance | checks | shows | states |
|---|---|---|---|---|
| `log_calls` | 2 processes, 3 blocks, 2 values, calls of one write, a log of 2 blocks, crash at any step, also in recovery | LogFits, DurableWhenQuiet, CrashAtomic, SleepersWake | after any crash the disk recovers to a state between two group commits; once no call runs, everything written is durable; the header never overruns, though calls come while it is full; whoever sleeps in begin_op() is woken, unless the panic of log_write() below stops the machine | 116,832 |
| `proc_table` | 2 CPUs, 3 slots, all calls, kill() of live, dead and unused pids | StackAlive, WaitNotStuck | ptable.lock handed through swtch() keeps a stack alive under its user; no wakeup of wait() is lost | 756,166 |
| `proc_live` | 1 CPU, 3 slots, without device sleeps | RunnableRuns, KilledDies, OrphansReaped | no starvation; killed processes exit; init reaps | 34,374 |
| `bcache_cache` | 2 processes, 4 blocks, 3 buffers, one block pinned dirty | SleepersHaveWakers, Transparent | cache, locks and disk queue implement `BlockStore`; each sleeper has somebody who will wake it, and the disk is at work while somebody sleeps for it | 181,690 |
| `pipe_ends` | 3 processes, ring of 2, counters modulo 4, one process killed at any time | FreedOnce, WriterNotStuck, ReaderStuckByKillOnly, InOrder | a pipe implements `Fifo` across wraparound; freed once; the only lost wakeup is the one below | 481,328 |
| `fs_calls` | 2 processes at the files of the linkunlink test in usertests.c, link(x, ".") among them, or one process in a tree with mkdir, chdir, link and unlink at two levels; 4 inodes, 5 entries | RefExact, LinksCounted, StuckByIputOnly, NoneLeakedAlone | references and links are counted exactly; processes that wait for each other, or one for itself, always include one that calls iput() with another inode locked (both deadlocks below do occur here, and no other); a process alone leaves no inode without names behind | 869,278 |
| `vm_pages` | 3 processes, 21 pages of 2 bytes, 3 page tables of 2 entries, sizes modulo 32; heaps of up to 6 calls | OneOwner, SizeIsMapped, ArgsMapped, HeapSound | every page has one owner wherever memory runs out in fork, exec, sbrk; every address that syscall.c accepts is mapped; malloc() and free() keep the heap sound for requests below half of the unsigned range | about 1,350 shapes |
| `shell_lines` | 6 process slots, 4 files, 5 descriptors, 2 pipes of one byte; six sessions of up to three lines | RefExact, ObjectsOwned, StdioOnly, LinesParse, CommandsEnd | files are counted exactly, also when open() and pipe() find no entry, no descriptor or only one (sysfile.c:318, :435), but not through a failing kalloc() in pipealloc(), which `File_table.cfg` has; a program gets descriptors 0, 1, 2 and no end of a pipe; every command ends, whatever fails; lines with the redirections behind the words parse to the command they were printed from | 96,704 |
| `content_blocks` | the images of mkfs with one file and with two, which fill the root directory, then 2 processes, 2 files of up to 3 blocks of 2 numbers, a disk of 13 blocks with two of bitmap | OneOwner, NoLeak, TxnFits, ReadsBack, ReadsOnlyButRoot | block ownership from mkfs across balloc, itrunc and a full disk; no piece of a write outgrows its transaction; reads return what was written and meet no missing block, but for the one that mkfs counts behind a full root directory | about 355,900 |
| `console_lines` | 2 readers, ring of 2, counters modulo 4, all editing keys, one reader killed at any time | NobodyStuck, InOrder, EofIsEmptyRead | lines reach readers in order and as edited (`Fifo`); ^D is seen once; a sleeping reader keeps nobody else waiting | 491,404 |
| `clock_locks` | 2 CPUs, 2 processes, one that sleeps for 1 and for -1 ticks and one that kills it; ticks modulo 3 | NoPanic, InterruptsRestored, SleeperNotLate | no handler wants a lock of its own CPU; a thread has its interrupt state back on whichever CPU it goes on; no tick is lost on a sleeper, between the test and the sleep or where ticks wraps | 790,322 |
| `swap_pages` | 3 processes, pages of 2 blocks, neighbouring and overlapping slots, 4 calls | PageBack | a process whose pages are its own reads back what it wrote | 180,850 |

One more instance passes and is not among the recorded runs: `File_table.cfg`
(module `File` itself, without the shell: any calls in any order, 135,552 states).

### Bounds

The constants keep the cases apart and no more. Rings hold two bytes, the least
for which full, empty and half full differ, and their counters wrap at twice
that. Three process slots are init, a parent and a child; six are init, a shell and
a nested pipeline that may not find a slot for its last process. Three buffers for two
processes, one of them pinned, make recycling and waiting happen. In the cache
the values 0 and 1 tell a stale copy from a fresh one. `content_blocks` has one
direct block and two behind the indirect one, a disk that two files can fill,
and data that are also block numbers, so that a data block taken for an indirect
one is noticed; the border of two bitmap blocks is among the free blocks.
`vm_pages` has pages for two processes and part of a third, so fork() and exec()
fail at each of their allocations. `log_calls` has
three blocks for a LOGSIZE of two, so that the blocks of the calls do not all fit
and only the test in begin_op() keeps the header within its array: two calls fill
it while another waits or begins. A call that uses all it reserves may rewrite a logged
block when the header is full, and log_write() panics although nothing would be
appended; SleepersWake allows for that panic, which RoomForCalls (see Proofs)
excludes. `vm_pages` also tests every argument address below 2^5 against every
size reached. The requests of its heaps are 1, 8, 9, 30 and 112 bytes with headers of
8 and unsigned integers below 256: one unit beside the header (1, 8), two (9), more than
morecore()'s least (30), and the largest that is still positive as the int that sbrk()
takes (112). The commands of
`LinesParse` are all those of three levels over three simple ones, with and
without blanks; redirections come behind the words. `shell_lines` has a program `u`
that fills its descriptors before it calls open() and pipe(). `swap_pages` has pages of 2 blocks for 8, and blkno -1 for the
range test. Bounds that exist only for TLC: `MaxPid` (fork() returns at that pid),
`MaxN`, `Buffers`, `Lengths` (lengths of reads and writes), `MaxDeleted` (files
deleted in a run of `Content`), `OpWrites` (blocks written by a call), `MaxCalls`
(`Swap`), `Requests`, `Gaps`, `MaxOps` (`Umalloc`), `Sessions`, `Output` (`Shell`),
`Calls` (`Clock`), `Programs` (`Mkfs`), and the sets of calls in `MCFs`.

Symmetry: CPUs in `proc_table`, processes in `fs_calls`,
`content_blocks`, `bcache_cache` (there also the blocks that are used alike) and,
except the first, in `vm_pages`. Runs with a liveness property use none. Four instances compare
states by a view: `MCFs`, `MCContent` and `MCClock` leave out what is written before
it is read again (an unused cache entry, a free block, intena outside pushcli()); `MCVm` compares
address spaces up to the numbering of their pages, and keeps the verdict of
`OneOwner` in the view, because pages are interchangeable only while each has
one owner. With a view and symmetry together, the count of states depends on
which representative TLC meets first, by a few.

`LinesParse` and `HeapSound` are about operators, not about the state: they are
evaluated once, in the first state of their run.

Deadlock is not checked in `pipe_ends`, where a reader that holds the only write
end itself may wait for ever by design; in `fs_calls`, where calls end when inodes
run out and processes may block each other as described below; in `shell_lines`,
where the user stops typing; and in `swap_pages`, whose bounded number of calls is
used up or which ends in the panic about blkno -1.

## Fairness

`Log`: weak fairness of the kernel steps of each process (`Continue`): the
scheduler runs every runnable process and the disk answers. Strong fairness of
`EndOp`: a system call writes finitely many blocks and then calls end_op(), with
the model's choice of another write in between. Crashes are not assumed to end;
a crash wakes a sleeper too.

`Proc`: weak fairness of each CPU's scheduler loop, of the return from yield()
and of the timer tick, because the loop in scheduler() has no exit and the
timer is periodic; strong fairness of a thread's kernel steps, because it has
the CPU only now and then; and strong fairness of init's wait(), because init.c
calls it in a loop. User programs need not make any system call.

`Shell`: weak fairness of the step of some process, which says only that the CPUs
do not idle while a process can run. It is enough because the programs of a
command are finite; the user need not type.

The other runs check safety only. What `SleepersHaveWakers`, `WriterNotStuck`,
`NobodyStuck`, `SleeperNotLate` and `WaitNotStuck` say is the safety half of liveness: nobody
sleeps while what it waits for is already there.

## Proofs

Eight modules hold theorems, about `Log`, `Proc` and `Pipe`.

### The log

For any finite set of processes, any set of
blocks and values and any geometry that meets `LogAssumption` (which asks that
MAXOPBLOCKS is positive and at most LOGSIZE and that a call writes at most
MAXOPBLOCKS blocks):

| theorem | statement |
|---|---|
| `TypeCorrect` | `Spec => []TypeOK` |
| `LogFitsTheorem` | under `RoomForCalls`, the header never exceeds LOGSIZE entries or the log's area |
| `NoPanicTheorem` | under `RoomForCalls`, no panic of log_write() is reached |
| `CrashAtomicTheorem` | `Log` implements `TxnDisk`: what recovery makes of the disk changes by whole groups only |
| `DurableWhenQuietTheorem` | with no call and no commit in progress, what readers see is on disk |
| `NoLostWakeupTheorem` | under `RoomForCalls`, a process asleep in begin_op() has a call or a commit left that will wake it |

`LogInv` and `LogControl` hold the control invariant, `TypeCorrect` and the bound
of the log, `LogDurable` the invariant about contents, and `LogAtomic`
the refinement and the wakeups.

The argument, in three layers.

*Control.* `CInv` is TypeOK with `Control` and `Room`. `Control` says that
log.outstanding counts the calls in progress (`Counting`), that one process
commits, and only while there is no call (`OneCommitter`), that the first process
recovers alone (`BootAlone`), that loop indices stay inside the header and that
buffers are locked in log_write() only. `Room` is the reservation made
explicit: a call owns MAXOPBLOCKS slots and uses one for every block it has in
the header; the header and the unused slots fit in LOGSIZE together. Without it
no bound on lh is inductive: begin_op() tests the bound once, before the writes,
and other calls append in between. Absorption makes it an inequality, since one
entry may use up a slot of several calls.

*Space.* log_write() compares lh.n with LOGSIZE and with log.size - 1, without
the lock. `Slack` says that the last call to append leaves what it reserved and
does not write: the header stays MAXOPBLOCKS - OpWrites entries below LOGSIZE.
`RoomForCalls` makes that enough for both tests: a call writes fewer blocks than
it reserves, and the area on disk is short of LOGSIZE by less than the
difference.
With mkfs's geometry (LOGSIZE = log.size = 30, MAXOPBLOCKS = 10) this means calls
of at most 8 blocks.

*Contents.* `DInv` relates the disk, the header on disk, the header in memory and
the cache: the header on disk is empty or the one being installed
(`HeaderOnDisk`), a cached block that differs from the disk is locked or pinned,
so it is not recycled (`CacheClean`, `DirtyLogged`), the loops have copied and
installed what lies before their index (`Copied`, `Installed`). The refinement
mapping takes `Recovered`, what recover_from_log() would make of the disk, for
the stable state, and what reads return for the memory. begin_op() and end_op()
are themselves, the change of a buffer before log_write() is the write, write_head()
is the commit point, a crash is a crash, and every other action is a stutter.

### The process table

For any set of CPUs, any number of process slots, and any of the system calls
of the model (`ProcAssumption`):

| theorem | statement |
|---|---|
| `StackAliveTheorem` | no CPU is on a kernel stack that has been freed |
| `WaitNotStuckTheorem` | who sleeps in wait() has a child, no zombie child, and has not been killed |
| `SchedSafeTheorem` | sched() is entered with ptable.lock held by a process that is no longer RUNNING, and no two CPUs run one process |
| `HasParentTheorem` | every process but init has a parent alive to wait() for it |

The inductive invariant `IInv` of `ProcInv` follows ptable.lock through swtch():
the CPU that is in the scheduler's loop, or in a thread that has not yet returned
from sched(), has the lock (`LockHeld`). Without that a zombie on its stack and a
wait() that frees it could overlap. `CpuProc` ties c->proc to the state of the
process, `Places` says where in the kernel a process in each state can be,
`Embryos` that each fork() has an EMBRYO slot of its own, and `Family` that init lives
and that free slots have no parent; `WaitNotStuck` itself is inductive beside them.
`ProcInv` proves it for scheduling, sleep(), wakeup() and kill(), `ProcProofs` for
fork(), exit() and wait().

### Pipes

For any finite set of processes, any size of the ring and any modulus of the
counters that is a larger multiple of it (`PipeAssumption`; 512 and 2^32 in the
code):

| theorem | statement |
|---|---|
| `FreedOnceTheorem` | the page is freed once, when nobody has an end or is closing one |
| `WriterNotStuckTheorem` | a writer sleeps only on a full pipe that can still be read |
| `ReaderStuckByKillOnlyTheorem` | unless a process was killed, a reader sleeps only on an empty pipe that can still be written |
| `InOrderTheorem` | `Pipe` implements `Fifo` |

`IInv` of `PipeInv`: the reference counts of the two files are the numbers of
processes that have them (`RefCounts`); readopen and writeopen say whether somebody has
the end or is between the last fileclose() and pipeclose() (`EndsOpen`), from which
the page is freed by the later of the two (`Freed`); who is in a call has its end
(`InCall`); at most PIPESIZE bytes are in the ring (`Bounded`). The refinement in `PipeProofs` rests on
arithmetic of wrapping counters: the distance from nread to nwrite grows and
shrinks by what a call moves, and the cells between them are different ones because
PIPESIZE divides the modulus. `Fifo` says how the bytes in the ring leave it; that a
writer puts in the bytes of its own buffer is in the model of pipewrite(), not in `Fifo`.

### What is only model-checked

Everything about the other modules, and liveness
(`SleepersWake`, `RunnableRuns`, `KilledDies`, `OrphansReaped`, `CommandsEnd`), which
is out of the prover's reach. `ShParse` and `Umalloc` are recursive operators, whose
results for every input would need an induction that the provers cannot do.

## Where the code and its words disagree

Met while modelling. Each has a configuration outside the twelve recorded runs,
which makes TLC print the behaviour: `tlc -config MCProc_slotreuse.cfg MCProc`.
Rows that name the same configuration put the named load and property in it (as it
is, `MCFs_scenario.cfg` is the first of its rows, and so is `MCVm_shrink.cfg`). The
recorded runs model the same code; they avoid the case by the calls they make (device
sleeps in `proc_live`, files created in a removed directory, sbrk(-sz), failing disk
reads, block numbers beyond FSSIZE), check a property that allows for it
(`ReaderStuckByKillOnly`, `StuckByIputOnly`, `NoneLeakedAlone`, `ReadsOnlyButRoot`), or
check others, as `proc_table` does with the stale pid.

| configuration | property | what the code does | what the repository says |
|---|---|---|---|
| `Log_nlog` (module `Log`) | NoPanic | mkfs.c:25 makes the log LOGSIZE blocks with its header, and log_write() panics at log.size - 1; calls that use all they reserve reach the panic. The kernel's own calls write less, and do not | param.h:11, "max data blocks in on-disk log" |
| `MCProc_slotreuse` | BornUnkilled | kill() also matches the stale pid of an UNUSED slot and sets killed there; allocproc() does not clear it, so the next process in the slot exits at once (proc.c:487) | proc.c:477, "Kill the process with the given pid." |
| `MCProc_lostkill` | KilledAwake | the test of killed and sleep() are not atomic for kill(), which takes only ptable.lock: a killed process may sleep until its event comes (pipe.c:107) | proc.c:489, "Wake process from sleep if necessary." |
| `MCBcache_error` | CleanIsDisk | ideintr() sets B_VALID after a failed read as well (ide.c:122) | ide.c:136, "read buf from disk, set B_VALID" |
| `MCPipe_lostwakeup` | ReaderNotStuck | a writer that is killed with the pipe full returns without wakeup(&p->nread) (pipe.c:86) | pipe.c:106, the reader's wait condition |
| `MCFs_scenario`, `RaceLoad` | NoneLeaked | iput() reads ref and decrements it in two critical sections; two last references put at once leave the inode allocated (fs.c:338) | fs.c:120, "iput() frees if the reference and link counts have fallen to zero." |
| `MCFs_scenario`, `CreateUnlinkLoad` | NoDeadlock | create() and sys_unlink() put dp, which takes its lock again, while they hold ip (sysfile.c:281) | usertests.c:855, "to look for deadlocks." |
| `MCFs_scenario`, `LinkDotLoad` | NoDeadlock | link(x, ".") makes dirlink() put the directory that sys_link() has locked (fs.c:561) | fs.c:559, "Check that name is not present." |
| `MCFs_scenario`, `DotDotLoad` | NoPanic | ".." of a removed current directory may lead to a freed inode (fs.c:311) | fs.c:310, the check in ilock() |
| `MCFs_scenario`, `RemovedLoad` | LinksCounted | create() works in a removed directory, and the file keeps a link that no name has (sysfile.c:278) | fs.c:102, "the number of links referring to it" |
| `MCVm_shrink` | FailureKeepsMemory | growproc(-sz) frees all pages, takes the size 0 for an error and keeps the old size (proc.c:170) | proc.c:158, "Return 0 on success, -1 on failure." |
| `MCVm_shrink` | SuccessMovesSize | for n < -sz the sum wraps, nothing is done and the result is 0 (proc.c:167) | proc.c:157, "Grow current process's memory by n bytes." |

Two more rows of the same kind, about `Swap` and `Mkfs`: `MCSwap_range` violates
InRangeWorks, because swapread() and swapwrite() (fs.c:681, 696) accept block
numbers up to SWAPMAX = 99500 while idestart() panics from FSSIZE = 1000
(ide.c:78). `MCContent_fullroot` violates ReadsOnly in the image itself: when the entries fill the
blocks of the root directory, mkfs.c:161 rounds its size up by a block that is not
there, and reading the directory makes bmap() allocate one outside the log. The
image built here has 19 entries of 32 to a block, and is not affected.

Behaviour that the properties allow for: init exits, and the kernel panics, when
a shell ends while no slot is free (init.c:25); sleep(-1) is a very long sleep
(sysproc.c:69); malloc() of 2^31 bytes or more hands sbrk() a
negative int (umalloc.c:54), growproc() shrinks the process or leaves it and returns 0,
and morecore() writes a header at the old break; nearly 2^32 bytes wrap around to one
unit (umalloc.c:69); the assumption on `Requests` excludes both; mkfs does not compare the blocks it uses
with FSSIZE (mkfs.c:244), and `Mkfs` starts from images that fit.

## What is not modelled

- Weak memory and the xchg of acquire(): `Clock` takes a lock in one step, with
  interrupts around it; the other modules take a critical section as one step,
  except that `Proc` keeps ptable.lock, which is handed between threads.
- Boot, interrupt controllers, MP tables, UART and keyboard tables: they run once
  or drive registers, and have no state that the rest depends on beyond what Init
  assumes.
- string.c, printf.c, ulib.c: functions of memory and formatting, without state.
- The scanning of ELF headers and of path strings: an image is a list of
  segments, a path a sequence of names. The argument strings of exec() are left
  out.
- In `Shell`: cd, the first mknod() of the console, cat of named files, exec() of
  sh failing in init, fork() failing for want of memory (`Vm` has that), and kill.
- In `Content`, a scan of the bitmap is one step: the lock of the bitmap's buffer,
  which `Bcache` shows to have one holder, is taken for granted.
- In `Swap`, nothing is said of pages that overlap another process's, or of a page
  read while it is written: the code gives no promise for them.
- The other user programs and usertests.c, which are clients of the system calls.
- Crashes in `Fs`, `Content` and `Swap`: a transaction is atomic in the first two,
  which is what `Log` is shown to provide; the swap area is not logged, and nothing
  is promised of it after a crash.

## Plan

In this order:

1. Composition: `Log` and `Content` over one disk, so that a crash in the middle
   of a file write is followed through recovery to OneOwner and NoLeak of the
   recovered bitmap; `Proc`'s sleep and wakeup under `Pipe` with the lost kill.
2. Liveness of `Bcache` (requests finish) and of `Pipe` (what is written is read
   while the reader keeps reading).
3. Proofs: `Bcache` (CleanIsDisk and
   Transparent, from OneBuffer and NotStolen), `File` (RefExact), `Console`
   (InOrder from Ordered), then `Content` (OneOwner).
