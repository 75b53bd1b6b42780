------------------------------ MODULE ShParse ------------------------------
(***************************************************************************)
(* The shell's command parser (sh.c): a line of characters becomes a tree   *)
(* of commands.  The parser works in place: a word is the pair of positions *)
(* of its first character and of the character after it, and nulterminate() *)
(* ends the words by overwriting the latter once the whole line is parsed.  *)
(* The operators are recursive, so nothing is proved here; TLC compares the *)
(* parser with a printer over every small command.                          *)
(***************************************************************************)
EXTENDS Naturals, Sequences, SequencesExt

CONSTANT MAXARGS     \* the size of argv

Blanks == {" ", "\n"}

Symbols == {"<", "|", ">", "&", ";", "(", ")"}

Nul == "NUL"

Char(l, s) == IF s <= Len(l) THEN l[s] ELSE Nul

\* The first position from s on whose character is not in S.
Past(l, s, S) ==
  CHOOSE t \in s..(Len(l) + 1) :
    Char(l, t) \notin S /\ \A u \in s..(t - 1) : Char(l, u) \in S

Skip(l, s) == Past(l, s, Blanks)

BlankEnd(l, s) == Past(l, s, {Char(l, u) : u \in 1..Len(l)} \ Blanks)    \* a mutant

WordEnd(l, s) ==
  CHOOSE t \in s..(Len(l) + 1) :
    /\ Char(l, t) \in Blanks \union Symbols \union {Nul}
    /\ \A u \in s..(t - 1) : Char(l, u) \notin Blanks \union Symbols

\* gettoken(): the kind of the next token, its two ends, and where to go on.
Token(l, tok, q, eq) == [tok |-> tok, word |-> <<q, eq>>, at |-> Skip(l, eq)]

TokenAt(l, q) ==
  CASE Char(l, q) = Nul -> Token(l, Nul, q, q)
    [] Char(l, q) = ">" /\ Char(l, q + 1) = ">" -> Token(l, "+", q, q + 2)
    [] Char(l, q) \in Symbols /\ ~(Char(l, q) = ">" /\ Char(l, q + 1) = ">") ->
         Token(l, Char(l, q), q, q + 1)
    [] OTHER -> Token(l, "a", q, WordEnd(l, q))

Gettoken(l, s) == TokenAt(l, Skip(l, s))

Peek(l, s, toks) == Char(l, Skip(l, s)) \in toks

\* The constructors of the tree.
Exec(argv) == [type |-> "EXEC", argv |-> argv]
Redir(cmd, file, fd) == [type |-> "REDIR", cmd |-> cmd, file |-> file, fd |-> fd]
Pipeline(left, right) == [type |-> "PIPE", left |-> left, right |-> right]
List(left, right) == [type |-> "LIST", left |-> left, right |-> right]
Back(cmd) == [type |-> "BACK", cmd |-> cmd]

\* What a parsing function leaves: the tree and where the rest of the line starts;
\* panic() ends the process that parses.
Parsed(cmd, at) == [ok |-> TRUE, cmd |-> cmd, at |-> at]
Panicked == [ok |-> FALSE]

RECURSIVE Parseline(_, _)
RECURSIVE Parsepipe(_, _)
RECURSIVE Parseredirs(_, _)
RECURSIVE RedirTo(_, _, _, _)
RECURSIVE Args(_, _, _)
RECURSIVE NextArg(_, _, _, _)
RECURSIVE Backs(_, _)

\* r with the next token consumed.
Consumed(l, r) == [r EXCEPT !.at = Gettoken(l, @).at]

\* parseredirs(): each redirection wraps the command parsed so far.
Parseredirs(l, r) ==
  IF r.ok /\ Peek(l, r.at, {"<", ">"})
  THEN RedirTo(l, r, Gettoken(l, r.at).tok, Gettoken(l, Gettoken(l, r.at).at)) ELSE r

RedirTo(l, r, op, file) ==
  IF file.tok = "a"
  THEN Parseredirs(l, Parsed(Redir(r.cmd, file.word, IF op = "<" THEN 0 ELSE 1), file.at))
  ELSE Panicked

\* parseblock(): a parenthesised line and its redirections.
Unblocked(l, r) ==
  IF r.ok /\ Peek(l, r.at, {")"}) THEN Parseredirs(l, Consumed(l, r)) ELSE Panicked

Parseblock(l, s) == Unblocked(l, Parseline(l, Gettoken(l, s).at))

\* The command under the redirections is the execcmd that parseexec() allocated first
\* and keeps filling in: its words are added below the wrappers.
RECURSIVE AddArg(_, _)
AddArg(cmd, word) ==
  IF cmd.type = "EXEC" THEN Exec(Append(cmd.argv, word))
  ELSE [cmd EXCEPT !.cmd = AddArg(@, word)]

\* The loop of parseexec(), after argc words.
Args(l, r, argc) ==
  IF ~r.ok \/ Peek(l, r.at, {"|", ")", "&", ";"}) THEN r
  ELSE NextArg(l, r, Gettoken(l, r.at), argc + 1)

NextArg(l, r, t, argc) ==
  CASE t.tok = Nul -> r
    [] t.tok = "a" /\ argc < MAXARGS ->
         Args(l, Parseredirs(l, Parsed(AddArg(r.cmd, t.word), t.at)), argc)
    [] OTHER -> Panicked

Parseexec(l, s) ==
  IF Peek(l, s, {"("}) THEN Parseblock(l, s)
  ELSE Args(l, Parseredirs(l, Parsed(Exec(<<>>), s)), 0)

\* parsepipe(), from the first command of the pipe on.
Joined(left, right) ==
  IF right.ok THEN Parsed(Pipeline(left, right.cmd), right.at) ELSE right

PipeRest(l, r) ==
  IF r.ok /\ Peek(l, r.at, {"|"}) THEN Joined(r.cmd, Parsepipe(l, Consumed(l, r).at)) ELSE r

Parsepipe(l, s) == PipeRest(l, Parseexec(l, s))

\* parseline(): the &s that follow a pipeline, then the rest of a list.
Backs(l, r) ==
  IF r.ok /\ Peek(l, r.at, {"&"})
  THEN Backs(l, Parsed(Back(r.cmd), Consumed(l, r).at)) ELSE r

Listed(left, right) == IF right.ok THEN Parsed(List(left, right.cmd), right.at) ELSE right

LineRest(l, r) ==
  IF r.ok /\ Peek(l, r.at, {";"}) THEN Listed(r.cmd, Parseline(l, Consumed(l, r).at)) ELSE r

Parseline(l, s) == LineRest(l, Backs(l, Parsepipe(l, s)))

\* nulterminate(): the positions that it overwrites with NUL.
RECURSIVE Nulterminate(_)
Nulterminate(cmd) ==
  CASE cmd.type = "EXEC" -> {cmd.argv[i][2] : i \in DOMAIN cmd.argv}
    [] cmd.type = "REDIR" -> Nulterminate(cmd.cmd) \union {cmd.file[2]}
    [] cmd.type = "BACK" -> Nulterminate(cmd.cmd)
    [] OTHER -> Nulterminate(cmd.left) \union Nulterminate(cmd.right)

\* The string that starts at a word, in the line whose positions in nuls are NUL.
Cstring(l, nuls, word) ==
  SubSeq(l, word[1], (CHOOSE t \in word[1]..(Len(l) + 1) :
                        /\ t \in nuls \/ t = Len(l) + 1
                        /\ \A u \in word[1]..(t - 1) : u \notin nuls) - 1)

\* The tree as runcmd() reads it: every word is the string at its start.
RECURSIVE Strings(_, _, _)
Strings(l, nuls, cmd) ==
  CASE cmd.type = "EXEC" -> Exec([i \in DOMAIN cmd.argv |-> Cstring(l, nuls, cmd.argv[i])])
    [] cmd.type = "REDIR" -> Redir(Strings(l, nuls, cmd.cmd), Cstring(l, nuls, cmd.file), cmd.fd)
    [] cmd.type = "BACK" -> Back(Strings(l, nuls, cmd.cmd))
    [] cmd.type = "PIPE" -> Pipeline(Strings(l, nuls, cmd.left), Strings(l, nuls, cmd.right))
    [] cmd.type = "LIST" -> List(Strings(l, nuls, cmd.left), Strings(l, nuls, cmd.right))

\* parsecmd(): leftovers are a syntax error.
Whole(l, r) ==
  IF r.ok /\ Peek(l, r.at, {Nul}) THEN Parsed(Strings(l, Nulterminate(r.cmd), r.cmd), r.at)
  ELSE Panicked

Parsecmd(l) == Whole(l, Parseline(l, 1))

(***************************************************************************)
(* The grammar the parser is for, as a printer: a command in parentheses    *)
(* wherever the grammar does not let it stand by itself.  gap is what       *)
(* separates two tokens; two words are always separated by a blank.         *)
(***************************************************************************)
Spaced(words) == FlattenSeq([i \in DOMAIN words |-> IF i = 1 THEN words[i] ELSE <<" ">> \o words[i]])

RECURSIVE Show(_, _, _)
Show(cmd, level, gap) ==
  LET Grouped(s) == <<"(">> \o gap \o s \o gap \o <<")">>
      Tok(c) == gap \o <<c>> \o gap
      LevelOf == CASE cmd.type = "LIST" -> 1 [] cmd.type = "BACK" -> 2
                   [] cmd.type = "PIPE" -> 3 [] OTHER -> 4
      text == CASE cmd.type = "EXEC" -> Spaced(cmd.argv)
                [] cmd.type = "REDIR" ->
                     Show(cmd.cmd, 4, gap) \o Tok(IF cmd.fd = 0 THEN "<" ELSE ">") \o cmd.file
                [] cmd.type = "PIPE" -> Show(cmd.left, 4, gap) \o Tok("|") \o Show(cmd.right, 3, gap)
                [] cmd.type = "BACK" -> Show(cmd.cmd, 2, gap) \o Tok("&")
                [] cmd.type = "LIST" -> Show(cmd.left, 2, gap) \o Tok(";") \o Show(cmd.right, 1, gap)
  IN IF LevelOf < level THEN Grouped(text) ELSE text

\* Commands one level above those of C.
Over(C, words) ==
  {Pipeline(c, d) : c \in C, d \in C} \union {List(c, d) : c \in C, d \in C}
    \union {Back(c) : c \in C} \union {Redir(c, w, fd) : c \in C, w \in words, fd \in {0, 1}}

\* Every command of C, with its redirections behind the words, is parsed back to itself,
\* words and all, with and without blanks: precedence and grouping are those of the grammar, and no NUL that
\* nulterminate() writes cuts a word that another part of the tree still needs.
ParsesBack(C) ==
  \A c \in C, gap \in {<<>>, <<" ">>} :
    \E r \in {Parsecmd(Show(c, 1, gap) \o <<"\n">>)} : r.ok /\ r.cmd = c
=============================================================================
