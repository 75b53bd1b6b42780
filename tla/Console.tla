------------------------------ MODULE Console ------------------------------
(***************************************************************************)
(* console.c: the line buffer between the keyboard and serial interrupts   *)
(* and the processes that read the console, with the lock of the console's *)
(* inode around consoleread() and consolewrite().  A step is one critical  *)
(* section of cons.lock, or the taking or releasing of the inode lock.     *)
(***************************************************************************)
EXTENDS Integers, Sequences, FiniteSets, SequencesExt

CONSTANTS
  Procs, NoProc,
  Chars,         \* printing characters
  INPUT_BUF,
  W,             \* r, w and e are unsigned integers below W (2^32 in C)
  MaxN,          \* bound: the most bytes a read asks for
  Killable       \* the processes kill() is called on

ASSUME ConsoleAssumption ==
  /\ NoProc \notin Procs /\ Killable \subseteq Procs /\ MaxN \in Nat
  /\ INPUT_BUF \in Nat \ {0} /\ W \in Nat /\ W > INPUT_BUF /\ W % INPUT_BUF = 0

VARIABLES
  buf, r, w, e,   \* input
  ip,             \* the holder of the inode lock
  pc, n, got,     \* per process: its place, the bytes it still wants, those it has
  killed

input == <<buf, r, w, e>>
vars == <<input, ip, pc, n, got, killed>>

NL == "\n"
EOF == "^D"
Bytes == Chars \cup {NL, EOF}
Keys == Bytes \cup {"^U", "^H"}

(* Unsigned arithmetic. *)
Plus(a, k) == (a + k) % W
Minus(a, b) == (W + a - b) % W

At(i) == buf[i % INPUT_BUF]

(* The bytes from index i up to index j. *)
Span(i, j) == [k \in 1..Minus(j, i) |-> At(Plus(i, k - 1))]

Goto(p, l) == pc' = [pc EXCEPT ![p] = l]

(***************************************************************************)
(* consoleintr(), for one character.                                       *)
(***************************************************************************)
(* ^U: back to the last newline that is not yet given to readers, at the   *)
(* most to w.                                                              *)
KillLine ==
  LET line == Span(w, e)
      lines == {i \in DOMAIN line : line[i] = NL}
  IN  e' = Plus(w, IF lines = {} THEN 0 ELSE Max(lines))

(* ^H. *)
Backspace == IF e # w THEN e' = Minus(e, 1) ELSE UNCHANGED e

RoomAlways == TRUE                                                 \* a mutant

Room == Minus(e, r) < INPUT_BUF

(* Whether the line goes to the readers: it ends, or the buffer is full. *)
Commits(c) == c \in {NL, EOF} \/ e' = Plus(r, INPUT_BUF)

WakeNobody == UNCHANGED pc                                         \* a mutant

(* wakeup(&input.r). *)
WakeReaders == pc' = [p \in Procs |-> IF pc[p] = "asleep" THEN "read" ELSE pc[p]]

Type(c) ==
  IF Room
  THEN /\ buf' = [buf EXCEPT ![e % INPUT_BUF] = c]
       /\ e' = Plus(e, 1)
       /\ IF Commits(c) THEN w' = e' /\ WakeReaders ELSE UNCHANGED <<w, pc>>
  ELSE UNCHANGED <<buf, w, e, pc>>

Consoleintr(c) ==
  /\ \/ c = "^U" /\ KillLine /\ UNCHANGED <<buf, w, pc>>
     \/ c = "^H" /\ Backspace /\ UNCHANGED <<buf, w, pc>>
     \/ c \in Bytes /\ Type(c)
  /\ UNCHANGED <<r, ip, n, got, killed>>

(***************************************************************************)
(* fileread() and filewrite() of the console: ilock(), then consoleread()  *)
(* or consolewrite(), which let go of the inode and take it again at the   *)
(* end.                                                                    *)
(***************************************************************************)
ReadCall(p, k) ==
  /\ pc[p] = "idle" /\ ~killed[p]
  /\ n' = [n EXCEPT ![p] = k]
  /\ Goto(p, "lock_read")
  /\ UNCHANGED <<input, ip, got, killed>>

WriteCall(p) ==
  /\ pc[p] = "idle" /\ ~killed[p]
  /\ Goto(p, "lock_write")
  /\ UNCHANGED <<input, ip, n, got, killed>>

Ilock(p) ==
  /\ ip = NoProc
  /\ \/ pc[p] = "lock_read" /\ Goto(p, "in_read")
     \/ pc[p] = "lock_write" /\ Goto(p, "in_write")
     \/ pc[p] = "relock" /\ Goto(p, "out")
  /\ ip' = p
  /\ UNCHANGED <<input, n, got, killed>>

(* iunlock(ip). *)
Iunlock(p) == ip' = NoProc

Enter(p) ==
  /\ \/ pc[p] = "in_read" /\ Goto(p, "read")
     \/ pc[p] = "in_write" /\ Goto(p, "write")
  /\ Iunlock(p)
  /\ UNCHANGED <<input, n, got, killed>>

(* The return of fileread() and filewrite(). *)
Return(p) ==
  /\ pc[p] = "out"
  /\ ip' = NoProc
  /\ n' = [n EXCEPT ![p] = 0] /\ got' = [got EXCEPT ![p] = <<>>]
  /\ Goto(p, "idle")
  /\ UNCHANGED <<input, killed>>

Consolewrite(p) ==
  /\ pc[p] = "write"
  /\ Goto(p, "relock")
  /\ UNCHANGED <<input, ip, n, got, killed>>

(***************************************************************************)
(* consoleread() from acquire() or a wakeup to sleep() or release().       *)
(***************************************************************************)
Least(a, b) == IF a <= b THEN a ELSE b

(* The bytes that end a read. *)
Ends == {NL, EOF}

(* What the loop takes out of the line buffer before it stops. *)
Reach(p) ==
  LET q == Span(r, w)
      ends == {i \in 1..Least(n[p], Len(q)) : q[i] \in Ends}
  IN  IF ends = {} THEN SubSeq(q, 1, Least(n[p], Len(q))) ELSE SubSeq(q, 1, Min(ends))

EatEof(p, some) == FALSE                                           \* a mutant

(* ^D stays for the next call if this one has bytes to return. *)
SaveEof(p, some) == some

Consoleread(p) ==
  /\ pc[p] = "read"
  /\ LET s == Reach(p)
         eof == s # <<>> /\ Last(s) = EOF
         ended == s # <<>> /\ Last(s) \in Ends
         data == IF eof THEN Front(s) ELSE s
         have == got[p] \o data
     IN  /\ r' = Plus(r, IF eof /\ SaveEof(p, have # <<>>) THEN Len(data) ELSE Len(s))
         /\ got' = [got EXCEPT ![p] = have]
         /\ n' = [n EXCEPT ![p] = @ - Len(data)]
         /\ IF ended \/ n'[p] = 0 THEN Goto(p, "relock")
            ELSE \E seen \in {FALSE, killed[p]} : Goto(p, IF seen THEN "relock" ELSE "asleep")
  /\ UNCHANGED <<buf, w, e, ip, killed>>

(* kill() sets killed and wakes the process; it may come between the test  *)
(* of killed and the sleep.                                                *)
Kill(p) ==
  /\ p \in Killable /\ ~killed[p]
  /\ killed' = [killed EXCEPT ![p] = TRUE]
  /\ Goto(p, IF pc[p] = "asleep" THEN "read" ELSE pc[p])
  /\ UNCHANGED <<input, ip, n, got>>

Init ==
  /\ buf = [i \in 0..INPUT_BUF - 1 |-> NL] /\ r = 0 /\ w = 0 /\ e = 0
  /\ ip = NoProc
  /\ pc = [p \in Procs |-> "idle"] /\ n = [p \in Procs |-> 0] /\ got = [p \in Procs |-> <<>>]
  /\ killed = [p \in Procs |-> FALSE]

Step(p) ==
  \/ \E k \in 0..MaxN : ReadCall(p, k)
  \/ WriteCall(p) \/ Ilock(p) \/ Enter(p) \/ Consoleread(p) \/ Consolewrite(p)
  \/ Return(p) \/ Kill(p)

Next == (\E c \in Keys : Consoleintr(c)) \/ \E p \in Procs : Step(p)

Spec == Init /\ [][Next]_vars

(***************************************************************************)
(* Properties.                                                             *)
(***************************************************************************)
(* Every variable holds a value of its type. *)
TypeOK ==
  /\ buf \in [0..INPUT_BUF - 1 -> Bytes] /\ {r, w, e} \subseteq 0..W - 1
  /\ ip \in Procs \cup {NoProc} /\ n \in [Procs -> 0..MaxN] /\ got \in [Procs -> Seq(Bytes)]
  /\ pc \in [Procs -> {"idle", "lock_read", "lock_write", "in_read", "in_write", "read",
                       "write", "asleep", "relock", "out"}]
  /\ killed \in [Procs -> BOOLEAN]

(* The indices stay in order, r, w, e, at most a buffer apart, also when   *)
(* they wrap around.                                                       *)
Ordered == Minus(w, r) <= Minus(e, r) /\ Minus(e, r) <= INPUT_BUF

(* While a reader sleeps for input everybody else can go on: nothing that  *)
(* is committed is kept from it, there is room for the keyboard to type    *)
(* (a full buffer is a line, also without a newline), and it does not keep *)
(* the console's inode from those who write.                               *)
NobodyStuck ==
  \A p \in Procs : pc[p] = "asleep" => r = w /\ Minus(e, r) < INPUT_BUF /\ ip # p

Line == INSTANCE Fifo WITH Capacity <- INPUT_BUF, q <- Span(r, w)

(* Readers get the bytes of the buffer in order; once a line is theirs,    *)
(* nothing typed later edits or overwrites it.                             *)
InOrder == Line!Spec

(* A ^D is taken out of the buffer only by a read that returns no bytes    *)
(* (consoleread() saves it "to make sure caller gets a 0-byte result",     *)
(* console.c:256-257).                                                     *)
EofIsEmptyRead ==
  [][\A i \in 1..Minus(r', r) : At(Plus(r, i - 1)) = EOF =>
       \E p \in Procs : pc[p] = "read" /\ pc'[p] = "relock" /\ got'[p] = <<>>]_vars

(* A read returns at most one line: a newline only as its last byte. *)
OneLine ==
  \A p \in Procs : \A i \in DOMAIN got[p] :
    got[p][i] # EOF /\ (got[p][i] = NL => i = Len(got[p]) /\ pc[p] \in {"relock", "out"})
=============================================================================
