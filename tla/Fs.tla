--------------------------------- MODULE Fs ---------------------------------
(***************************************************************************)
(* The inode cache and the directory tree: iget() to iput(), namex(), and  *)
(* link, unlink, open, mkdir, chdir and close from sysfile.c.              *)
(*                                                                         *)
(* A call is the sequence of instructions its process has still to         *)
(* execute.  An instruction is one critical section of icache.lock, or     *)
(* what a process does to the inodes it has locked; to wait for ip->lock   *)
(* is to have a next instruction that is not enabled.  Files have no       *)
(* contents, and a directory maps names to inode numbers.                  *)
(***************************************************************************)
EXTENDS Integers, Sequences, FiniteSets

CONSTANTS
  Procs, NoProc,
  NINODES,      \* inodes on the disk
  NINODE,       \* entries of the inode cache
  NOFILE,       \* descriptors of a process
  Names,        \* names in directories, apart from "." and ".."
  Loads         \* bound: what may run, each with programs, the files mkfs put into
                \* the root directory, a sequence of names; workers, the processes
                \* at work, and calls, the calls they make

ASSUME FsAssumption ==
  /\ NINODES \in Nat \ {0} /\ NINODE \in Nat \ {0} /\ NOFILE \in Nat
  /\ NoProc \notin Procs

VARIABLES
  icache,   \* per entry: inum, ref, valid, type, nlink, and the owner of its lock
  dinode,   \* per inode on disk: type, nlink and, for a directory, its entries
  proc,     \* per process: code, what is left of its call; fail, what it does
            \* instead if a step fails; its variables path, ip, dp and old;
            \* its descriptors fd and its current directory cwd
  panic,    \* what the kernel died of
  load      \* what runs

vars == <<icache, dinode, proc, panic, load>>

Inums == 1..NINODES
Slots == 1..NINODE
ROOTINO == 1
Null == 0
AllNames == Names \cup {".", ".."}
Empty == [n \in AllNames |-> Null]
Least(S) == CHOOSE x \in S : \A y \in S : x <= y

(***************************************************************************)
(* Instructions.                                                           *)
(***************************************************************************)
Op(p) == IF proc[p].code = <<>> THEN "none" ELSE Head(proc[p].code)[1]
Arg(p, k) == Head(proc[p].code)[k + 1]
Rest(p) == Tail(proc[p].code)
Goto(p, c) == proc' = [proc EXCEPT ![p].code = c]
Fail(p, c) ==
  proc' = [proc EXCEPT ![p].code = c \o proc[p].fail, ![p].fail = <<>>, ![p].path = <<>>]
Die(why) == panic' = why /\ UNCHANGED <<icache, dinode, proc>>
Slot(p, r) == proc[p][r]
Inode(p, r) == icache[Slot(p, r)]
Entries(p, r) == dinode[Inode(p, r).inum].ent

Ilock(r) == << <<"ilock", r>> >>
Iunlock(r) == << <<"iunlock", r>> >>
Iput(r) == << <<"iput", r>> >>
Iunlockput(r) == Iunlock(r) \o Iput(r)

(***************************************************************************)
(* iget(): the entry of inode i, else the first one not in use.            *)
(***************************************************************************)

Active(i) == {s \in Slots : icache[s].ref > 0 /\ icache[s].inum = i}

Unused == {s \in Slots : icache[s].ref = 0}
CanGet(i) == Active(i) # {} \/ Unused # {}
Gotten(i) == Least(IF Active(i) # {} THEN Active(i) ELSE Unused)

IgetUncounted(i) ==                                                \* a mutant
  IF Active(i) # {} THEN icache
  ELSE [icache EXCEPT ![Gotten(i)] = [@ EXCEPT !.inum = i, !.ref = 1, !.valid = FALSE]]

(* The cache after iget(i). *)
Iget(i) ==
  [icache EXCEPT ![Gotten(i)] =
     IF Active(i) # {} THEN [@ EXCEPT !.ref = @ + 1]
     ELSE [@ EXCEPT !.inum = i, !.ref = 1, !.valid = FALSE]]

(***************************************************************************)
(* ilock(), iunlock(), iput().                                             *)
(***************************************************************************)
(* ip as ilock() leaves it. *)
Loaded(ip) ==
  IF ip.valid THEN ip
  ELSE [ip EXCEPT !.valid = TRUE, !.type = dinode[ip.inum].type, !.nlink = dinode[ip.inum].nlink]

DoIlock(p) ==
  /\ Op(p) = "ilock"
  /\ LET s == Slot(p, Arg(p, 1))
         ip == Loaded(icache[s])
     IN  /\ ip.owner = NoProc
         /\ IF ip.ref < 1 THEN Die("ilock")
            ELSE IF ip.type = "free" THEN Die("ilock: no type")
            ELSE /\ icache' = [icache EXCEPT ![s] = [ip EXCEPT !.owner = p]]
                 /\ Goto(p, Rest(p)) /\ UNCHANGED <<dinode, panic>>

DoIunlock(p) ==
  /\ Op(p) = "iunlock"
  /\ LET s == Slot(p, Arg(p, 1))
     IN  IF icache[s].owner # p \/ icache[s].ref < 1 THEN Die("iunlock")
         ELSE /\ icache' = [icache EXCEPT ![s].owner = NoProc]
              /\ Goto(p, Rest(p)) /\ UNCHANGED <<dinode, panic>>

UnlinkedOnly(ip) == ip.valid /\ ip.nlink = 0                       \* a mutant
LastRef(ip) == ip.valid /\ ip.ref = 1                              \* a mutant
NeverLast(ip) == FALSE                                             \* a mutant

(* iput() frees the inode: no links, and no other reference at the moment. *)
LastUse(ip) == ip.valid /\ ip.nlink = 0 /\ ip.ref = 1

(* iput() until it knows whether to free the inode. *)
DoIput(p) ==
  /\ Op(p) = "iput"
  /\ LET r == Arg(p, 1)
         ip == Inode(p, r)
     IN  /\ ip.owner = NoProc
         /\ IF LastUse(ip)
            THEN /\ icache' = [icache EXCEPT ![Slot(p, r)].owner = p]
                 /\ Goto(p, << <<"ifree", r>>, <<"deref", r>> >> \o Rest(p))
            ELSE Goto(p, << <<"deref", r>> >> \o Rest(p)) /\ UNCHANGED icache
  /\ UNCHANGED <<dinode, panic>>

(* itrunc(), ip->type = 0, iupdate(), releasesleep(). *)
Ifree(p) ==
  /\ Op(p) = "ifree"
  /\ LET r == Arg(p, 1)
         ip == Inode(p, r)
     IN  /\ dinode' = [dinode EXCEPT ![ip.inum] =
                         [type |-> "free", nlink |-> ip.nlink, ent |-> Empty]]
         /\ icache' = [icache EXCEPT ![Slot(p, r)] =
                         [ip EXCEPT !.type = "free", !.valid = FALSE, !.owner = NoProc]]
  /\ Goto(p, Rest(p)) /\ UNCHANGED panic

(* The end of iput(): ip->ref--. *)
Deref(p) ==
  /\ Op(p) = "deref"
  /\ icache' = [icache EXCEPT ![Slot(p, Arg(p, 1))].ref = @ - 1]
  /\ proc' = [proc EXCEPT ![p].code = Rest(p), ![p][Arg(p, 1)] = Null]
  /\ UNCHANGED <<dinode, panic>>

(***************************************************************************)
(* namex() in variable r.  A path is a sequence of names, after "/" if it  *)
(* is absolute.                                                            *)
(***************************************************************************)
Namei(path, r) == << <<"namex", path, r, FALSE>> >>
Nameiparent(path, r) == << <<"namex", path, r, TRUE>> >>

(* The loop with path left to walk. *)
Walk(path, r, parent) ==
  IF path # <<>> THEN Ilock(r) \o << <<"elem", r, parent>> >>
  ELSE IF parent THEN Iput(r) \o << <<"fail">> >> ELSE <<>>

NamexStart(p) ==
  /\ Op(p) = "namex"
  /\ LET path == Arg(p, 1)
         r == Arg(p, 2)
         absolute == path # <<>> /\ Head(path) = "/"
         names == IF absolute THEN Tail(path) ELSE path
         s == IF absolute THEN Gotten(ROOTINO) ELSE proc[p].cwd
     IN  IF absolute /\ ~CanGet(ROOTINO) THEN Die("iget: no inodes")
         ELSE /\ icache' = IF absolute THEN Iget(ROOTINO)
                           ELSE [icache EXCEPT ![s].ref = @ + 1]     \* idup()
              /\ proc' = [proc EXCEPT ![p].path = names, ![p][r] = s,
                                      ![p].code = Walk(names, r, Arg(p, 3)) \o Rest(p)]
              /\ UNCHANGED <<dinode, panic>>

(* One element, with the directory in r locked. *)
NamexElem(p) ==
  /\ Op(p) = "elem"
  /\ LET r == Arg(p, 1)
         parent == Arg(p, 2)
         name == Head(proc[p].path)
         names == Tail(proc[p].path)
         last == parent /\ names = <<>>
         i == Entries(p, r)[name]
     IN  IF Inode(p, r).type # "dir" \/ (~last /\ i = Null)
         THEN Fail(p, Iunlockput(r)) /\ UNCHANGED <<icache, dinode, panic>>
         ELSE IF last
         THEN /\ proc' = [proc EXCEPT ![p].path = <<>>, ![p].code = Iunlock(r) \o Rest(p)]
              /\ UNCHANGED <<icache, dinode, panic>>
         ELSE IF ~CanGet(i) THEN Die("iget: no inodes")
         ELSE /\ icache' = Iget(i)
              /\ proc' = [proc EXCEPT ![p].path = names, ![p].old = Slot(p, r), ![p][r] = Gotten(i),
                            ![p].code = Iunlockput("old") \o Walk(names, r, parent) \o Rest(p)]
              /\ UNCHANGED <<dinode, panic>>

NamexFail(p) == Op(p) = "fail" /\ Fail(p, <<>>) /\ UNCHANGED <<icache, dinode, panic>>

(***************************************************************************)
(* The bodies of the calls, each with the inodes it needs locked.          *)
(***************************************************************************)

(* iupdate() of entry s after its nlink became n. *)
Iupdate(disk, s, n) == [disk EXCEPT ![icache[s].inum].nlink = n]

(* Entry name of the directory in r becomes i. *)
Enter(disk, p, r, name, i) == [disk EXCEPT ![Inode(p, r).inum].ent[name] = i]

AddLinks(p, r, k) ==
  /\ icache' = [icache EXCEPT ![Slot(p, r)].nlink = @ + k]
  /\ dinode' = Iupdate(dinode, Slot(p, r), Inode(p, r).nlink + k)

BadForgets == Iput("ip")                                           \* a mutant

(* What sys_link() does at bad. *)
LinkBad == Ilock("ip") \o << <<"link_dec">> >> \o Iunlockput("ip")

KeepsLocked == <<>>                                                \* a mutant

(* sys_link() lets go of the inode before it looks for the new directory.  *)
LinkUnlock == Iunlock("ip")

LinkInc(p) ==
  /\ Op(p) = "link_inc"
  /\ IF Inode(p, "ip").type = "dir"
     THEN Fail(p, Iunlockput("ip")) /\ UNCHANGED <<icache, dinode>>
     ELSE /\ AddLinks(p, "ip", 1)
          /\ proc' = [proc EXCEPT ![p].fail = LinkBad, ![p].code = LinkUnlock \o Rest(p)]
  /\ UNCHANGED panic

LinkDec(p) ==
  /\ Op(p) = "link_dec" /\ AddLinks(p, "ip", -1)
  /\ Goto(p, Rest(p)) /\ UNCHANGED panic

(* dirlink(dp, name, ip->inum); it puts the inode it finds under the name. *)
LinkAdd(p) ==
  /\ Op(p) = "link_add"
  /\ LET name == Arg(p, 1)
         i == Entries(p, "dp")[name]
     IN  IF i = Null
         THEN /\ dinode' = Enter(dinode, p, "dp", name, Inode(p, "ip").inum)
              /\ proc' = [proc EXCEPT ![p].fail = <<>>, ![p].code = Rest(p)]
              /\ UNCHANGED <<icache, panic>>
         ELSE IF ~CanGet(i) THEN Die("iget: no inodes")
         ELSE /\ icache' = Iget(i)
              /\ proc' = [proc EXCEPT ![p].old = Gotten(i), ![p].fail = <<>>,
                            ![p].code = Iput("old") \o Iunlockput("dp") \o proc[p].fail]
              /\ UNCHANGED <<dinode, panic>>

(* sys_unlink() up to the lookup in dp. *)
UnlinkFind(p) ==
  /\ Op(p) = "unlink_find"
  /\ LET name == Arg(p, 1)
         i == Entries(p, "dp")[name]
     IN  IF name \in {".", ".."} \/ i = Null
         THEN Fail(p, Iunlockput("dp")) /\ UNCHANGED <<icache, dinode, panic>>
         ELSE IF ~CanGet(i) THEN Die("iget: no inodes")
         ELSE /\ icache' = Iget(i)
              /\ proc' = [proc EXCEPT ![p].ip = Gotten(i), ![p].code = Rest(p)]
              /\ UNCHANGED <<dinode, panic>>

Isdirempty(p) == \A n \in Names : Entries(p, "ip")[n] = Null

UnlinkErase(p) ==
  /\ Op(p) = "unlink_erase"
  /\ LET name == Arg(p, 1)
         dir == Inode(p, "ip").type = "dir"
         erased == Enter(dinode, p, "dp", name, Null)
     IN  IF Inode(p, "ip").nlink < 1 THEN Die("unlink: nlink < 1")
         ELSE IF dir /\ ~Isdirempty(p)
         THEN Fail(p, Iunlockput("ip") \o Iunlockput("dp")) /\ UNCHANGED <<icache, dinode, panic>>
         ELSE /\ IF dir
                 THEN /\ icache' = [icache EXCEPT ![Slot(p, "dp")].nlink = @ - 1]
                      /\ dinode' = Iupdate(erased, Slot(p, "dp"), Inode(p, "dp").nlink - 1)
                 ELSE dinode' = erased /\ UNCHANGED icache
              /\ Goto(p, Rest(p)) /\ UNCHANGED panic

UnlinkDec(p) ==
  /\ Op(p) = "unlink_dec" /\ AddLinks(p, "ip", -1)
  /\ Goto(p, Rest(p)) /\ UNCHANGED panic

FreeInums == {i \in Inums : dinode[i].type = "free"}

(* create() from the lookup in dp on; ialloc() takes the first free inode. *)
CreateFind(p) ==
  /\ Op(p) = "create_find"
  /\ LET name == Arg(p, 1)
         t == Arg(p, 2)
         i == Entries(p, "dp")[name]
     IN  IF i # Null
         THEN IF ~CanGet(i) THEN Die("iget: no inodes")
              ELSE /\ icache' = Iget(i)
                   /\ proc' = [proc EXCEPT ![p].ip = Gotten(i),
                                 ![p].code = Iunlockput("dp") \o Ilock("ip")
                                             \o << <<"create_old", t>> >> \o Rest(p)]
                   /\ UNCHANGED <<dinode, panic>>
         ELSE IF FreeInums = {} THEN Die("ialloc: no inodes")
         ELSE LET new == Least(FreeInums)
              IN  /\ dinode' = [dinode EXCEPT ![new] = [type |-> t, nlink |-> 0, ent |-> Empty]]
                  /\ Goto(p, << <<"create_iget", new>> >> \o Ilock("ip")
                             \o << <<"create_new", name, t>> >> \o Iunlockput("dp") \o Rest(p))
                  /\ UNCHANGED <<icache, panic>>

CreateIget(p) ==
  /\ Op(p) = "create_iget"
  /\ LET i == Arg(p, 1)
     IN  IF ~CanGet(i) THEN Die("iget: no inodes")
         ELSE /\ icache' = Iget(i)
              /\ proc' = [proc EXCEPT ![p].ip = Gotten(i), ![p].code = Rest(p)]
              /\ UNCHANGED <<dinode, panic>>

(* A new directory gets "." and ".." and is a link to its parent. *)
CreateNew(p) ==
  /\ Op(p) = "create_new"
  /\ LET dir == Arg(p, 2) = "dir"
         ip == Slot(p, "ip")
         dp == Slot(p, "dp")
         up == IF dir THEN Inode(p, "dp").nlink + 1 ELSE Inode(p, "dp").nlink
         d1 == Enter(Iupdate(Iupdate(dinode, ip, 1), dp, up), p, "dp", Arg(p, 1), icache[ip].inum)
     IN  /\ icache' = [icache EXCEPT ![ip].nlink = 1, ![dp].nlink = up]
         /\ dinode' = IF dir THEN Enter(Enter(d1, p, "ip", ".", icache[ip].inum),
                                        p, "ip", "..", icache[dp].inum)
                      ELSE d1
  /\ Goto(p, Rest(p)) /\ UNCHANGED panic

(* create() of a name that exists: only a file may be opened this way. *)
CreateOld(p) ==
  /\ Op(p) = "create_old"
  /\ IF Arg(p, 1) = "file" /\ Inode(p, "ip").type = "file" THEN Goto(p, Rest(p))
     ELSE Fail(p, Iunlockput("ip"))
  /\ UNCHANGED <<icache, dinode, panic>>

(* sys_open() from the check of a directory's mode on. *)
OpenFd(p) ==
  /\ Op(p) = "open_fd"
  /\ LET free == {d \in 1..NOFILE : proc[p].fd[d] = Null}
         writing == Arg(p, 1)
     IN  IF (Inode(p, "ip").type = "dir" /\ writing) \/ free = {}
         THEN Fail(p, Iunlockput("ip")) /\ UNCHANGED icache
         ELSE /\ icache' = [icache EXCEPT ![Slot(p, "ip")].owner = NoProc]
              /\ proc' = [proc EXCEPT ![p].fd[Least(free)] = Slot(p, "ip"), ![p].ip = Null,
                                      ![p].code = Rest(p)]
  /\ UNCHANGED <<dinode, panic>>

Close(p) ==
  /\ Op(p) = "close"
  /\ proc' = [proc EXCEPT ![p].old = proc[p].fd[Arg(p, 1)], ![p].fd[Arg(p, 1)] = Null,
                          ![p].code = Iput("old")]
  /\ UNCHANGED <<icache, dinode, panic>>

(* sys_chdir() with ip locked. *)
Chdir(p) ==
  /\ Op(p) = "chdir"
  /\ IF Inode(p, "ip").type # "dir" THEN Fail(p, Iunlockput("ip")) /\ UNCHANGED icache
     ELSE /\ icache' = [icache EXCEPT ![Slot(p, "ip")].owner = NoProc]
          /\ proc' = [proc EXCEPT ![p].old = proc[p].cwd, ![p].cwd = Slot(p, "ip"),
                                  ![p].ip = Null, ![p].code = Iput("old")]
  /\ UNCHANGED <<dinode, panic>>

(***************************************************************************)
(* The calls.                                                              *)
(***************************************************************************)
Last(s) == s[Len(s)]

(* create() of path, which leaves ip locked. *)
Create(path, t) ==
  Nameiparent(path, "dp") \o Ilock("dp") \o << <<"create_find", Last(path), t>> >>

Code(c) ==
  CASE c.call = "open" -> Namei(c.path, "ip") \o Ilock("ip") \o << <<"open_fd", c.writing>> >>
    [] c.call = "creat" -> Create(c.path, "file") \o << <<"open_fd", FALSE>> >>
    [] c.call = "mkdir" -> Create(c.path, "dir") \o Iunlockput("ip")
    [] c.call = "link" -> Namei(c.path, "ip") \o Ilock("ip") \o << <<"link_inc">> >>
                          \o Nameiparent(c.new, "dp") \o Ilock("dp")
                          \o << <<"link_add", Last(c.new)>> >> \o Iunlockput("dp") \o Iput("ip")
    [] c.call = "unlink" -> Nameiparent(c.path, "dp") \o Ilock("dp")
                            \o << <<"unlink_find", Last(c.path)>> >> \o Ilock("ip")
                            \o << <<"unlink_erase", Last(c.path)>> >> \o Iunlockput("dp")
                            \o << <<"unlink_dec">> >> \o Iunlockput("ip")
    [] c.call = "chdir" -> Namei(c.path, "ip") \o Ilock("ip") \o << <<"chdir">> >>
    [] c.call = "close" -> << <<"close", c.fd>> >>

Call(p, c) ==
  /\ proc[p].code = <<>>
  /\ c.call = "close" => proc[p].fd[c.fd] # Null
  /\ Goto(p, Code(c))
  /\ UNCHANGED <<icache, dinode, panic>>

(***************************************************************************)
(* The specification: every process starts in the root directory.          *)
(***************************************************************************)
Init ==
  /\ load \in Loads
  /\ icache = [s \in Slots |->
                 [inum |-> IF s = 1 THEN ROOTINO ELSE Null,
                  ref |-> IF s = 1 THEN Cardinality(Procs) ELSE 0,
                  valid |-> FALSE, type |-> "free", nlink |-> 0, owner |-> NoProc]]
  /\ dinode = [i \in Inums |->
                 IF i = ROOTINO
                 THEN [type |-> "dir", nlink |-> 1,
                       ent |-> [n \in AllNames |->
                                  IF n \in {".", ".."} THEN ROOTINO
                                  ELSE IF \E k \in DOMAIN load.programs : load.programs[k] = n
                                  THEN 1 + CHOOSE k \in DOMAIN load.programs : load.programs[k] = n
                                  ELSE Null]]
                 ELSE [type |-> IF i <= 1 + Len(load.programs) THEN "file" ELSE "free",
                       nlink |-> IF i <= 1 + Len(load.programs) THEN 1 ELSE 0, ent |-> Empty]]
  /\ proc = [p \in Procs |->
               [code |-> <<>>, fail |-> <<>>, path |-> <<>>, ip |-> Null, dp |-> Null,
                old |-> Null, fd |-> [d \in 1..NOFILE |-> Null], cwd |-> 1]]
  /\ panic = "none"

Step(p) ==
  \/ p \in load.workers /\ \E c \in load.calls : Call(p, c)
  \/ DoIlock(p) \/ DoIunlock(p) \/ DoIput(p) \/ Ifree(p) \/ Deref(p)
  \/ NamexStart(p) \/ NamexElem(p) \/ NamexFail(p)
  \/ LinkInc(p) \/ LinkAdd(p) \/ LinkDec(p)
  \/ UnlinkFind(p) \/ UnlinkErase(p) \/ UnlinkDec(p)
  \/ CreateFind(p) \/ CreateIget(p) \/ CreateNew(p) \/ CreateOld(p)
  \/ OpenFd(p) \/ Close(p) \/ Chdir(p)

Next == panic = "none" /\ UNCHANGED load /\ \E p \in Procs : Step(p)

Spec == Init /\ [][Next]_vars

(***************************************************************************)
(* Properties.                                                             *)
(***************************************************************************)
Types == {"free", "dir", "file"}

TypeOK ==
  /\ icache \in [Slots -> [inum : Inums \cup {Null}, ref : Nat, valid : BOOLEAN, type : Types,
                          nlink : Nat, owner : Procs \cup {NoProc}]]
  /\ dinode \in [Inums -> [type : Types, nlink : Nat, ent : [AllNames -> Inums \cup {Null}]]]
  /\ \A p \in Procs : /\ {proc[p].ip, proc[p].dp, proc[p].old} \subseteq Slots \cup {Null}
                       /\ proc[p].fd \in [1..NOFILE -> Slots \cup {Null}]
                       /\ proc[p].cwd \in Slots

(* ip->ref counts the pointers to the entry: open files, current           *)
(* directories and the variables of calls in progress.                     *)
RefExact ==
  \A s \in Slots :
    icache[s].ref = Cardinality({pr \in Procs \X {"ip", "dp", "old", "cwd"} : proc[pr[1]][pr[2]] = s})
                    + Cardinality({pd \in Procs \X (1..NOFILE) : proc[pd[1]].fd[pd[2]] = s})

(* An inode has one entry in the cache, hence one lock. *)
OneEntry ==
  \A s, t \in Slots : icache[s].ref > 0 /\ icache[t].ref > 0 /\ icache[s].inum = icache[t].inum => s = t

(* The cache is write-through: an inode nobody has locked is on disk as it *)
(* is in the cache.                                                        *)
WriteThrough ==
  \A s \in Slots :
    LET ip == icache[s]
    IN  ip.ref > 0 /\ ip.valid /\ ip.owner = NoProc =>
          ip.type = dinode[ip.inum].type /\ ip.nlink = dinode[ip.inum].nlink

(* No name leads to a free inode. *)
NamedAlive ==
  \A i \in Inums, n \in Names :
    dinode[i].ent[n] # Null => dinode[dinode[i].ent[n]].type # "free"

Quiet == \A p \in Procs : proc[p].code = <<>>

(* The links to i: its names, and the ".." of its subdirectories. *)
Links(i) ==
  {dn \in Inums \X (AllNames \ {"."}) :
     dinode[dn[1]].ent[dn[2]] = i /\ dinode[dn[1]].nlink > 0}

(* Between transactions, which is what the log commits, the link count of  *)
(* an inode is the number of links to it.  (Not so when a file is created  *)
(* in a directory that has been removed: RemovedLoad in MCFs.)             *)
LinksCounted ==
  Quiet => \A i \in Inums : dinode[i].type # "free" => dinode[i].nlink = Cardinality(Links(i))

(* Between transactions an inode without links is in use or free: iput()   *)
(* freed it with the last reference.                                       *)
NoneLeaked ==
  Quiet => \A i \in Inums : dinode[i].type # "free" /\ dinode[i].nlink = 0 => Active(i) # {}

(* So it is when only one process is at work. *)
NoneLeakedAlone == Cardinality(load.workers) = 1 => NoneLeaked

(* The calls do not panic, unless the disk runs out of inodes. *)
NoPanic == panic \in {"none", "ialloc: no inodes"}

(* The process that p waits for, in ilock() or iput(). *)
WaitsFor(p) ==
  IF Op(p) \in {"ilock", "iput"} THEN Inode(p, Arg(p, 1)).owner ELSE NoProc

(* p is in iput() with an inode locked through another of its variables:   *)
(* create() and sys_unlink() put dp with ip locked, dirlink() puts what it *)
(* finds under the new name with dp locked.                                *)
PutsWithLock(p) ==
  Op(p) = "iput" /\ \E r \in {"ip", "dp"} \ {Arg(p, 1)} :
                      proc[p][r] # Null /\ Inode(p, r).owner = p

Stuck(S) == S # {} /\ \A p \in S : WaitsFor(p) \in S

(* No processes wait for each other's inode locks. *)
NoDeadlock == \A S \in SUBSET Procs : ~ Stuck(S)

(* ilock() alone never closes a circle of waits: locks are taken from a    *)
(* directory to what it names, and namex() holds one at a time.  Processes *)
(* that wait for each other, or one that waits for itself, include one     *)
(* that called iput() with another inode locked.                           *)
StuckByIputOnly == \A S \in SUBSET Procs : Stuck(S) => \E p \in S : PutsWithLock(p)
=============================================================================
