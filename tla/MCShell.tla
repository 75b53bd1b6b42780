------------------------------ MODULE MCShell ------------------------------
(* Instances of Shell for TLC. *)
EXTENDS Shell

\* e is an echo with its arguments, c a cat without any, u the program that uses up its
\* descriptors, n no program.
Nested == <<"e", "|", "c", "|", "c", "\n">>             \* pipes in a pipe
Group == <<"(", "e", ";", "n", ")", "|", "c", "\n">>    \* two writers, one after the other
Unread == <<"e", "|", "n", "\n">>                       \* nobody reads
Behind == <<"e", "&", "\n">>                            \* in the background
Moved == <<"e", ">", "f", "|", "c", "<", "f", "\n">>    \* redirections after the pipe
Full == <<"u", "\n">>                                   \* no descriptor is left
Wrong == <<"e", ")", "\n">>                             \* a syntax error

SomeSessions ==
  {<<Behind, Behind, Nested>>, <<Group>>, <<Moved>>, <<Behind, Unread>>, <<Behind, Wrong, Eof>>,
   <<Behind, Full>>}

\* Commands of up to three levels for the parser.
Words == {<<"a">>, <<"b", "c">>}
Simple == {Exec(argv) : argv \in {<<>>, <<<<"a">>>>, <<<<"b", "c">>, <<"a">>>>}}
Commands == Simple \union Over(Simple \union Over(Simple, Words), {<<"f">>})

\* Every one of them, printed with or without blanks and with redirections behind the
\* words, is parsed back to itself (ParsesBack, looked at once, before init starts).
LinesParse == script[First] = InitMain => ParsesBack(Commands)
=============================================================================
