------------------------------ MODULE MCShell ------------------------------
(* Small instances of Shell.  H and U stand for HOME and a user's name, E for
   ETC.  Names have one character and an extension of one: A.X is a longest
   name, AA none, and AAAA is too long for a segment. *)
EXTENDS Shell

MCArgvCap == 3

\* Everything that can be typed with quotes, escapes and blanks.
Quoting ==
  (SeqOf({"x", "sp", "quot", "bsl", "apos"}, 5) \cup SeqOf({"x", "tab"}, 7))
    \ {<<>>}

A == <<"A">>
AX == <<"A", ".", "X">>
UX == <<"U", ".", "X">>
AAAA == <<"A", "A", "A", "A">>
MCPaths ==
  "A" :> Rel(<<A>>) @@ "A/A" :> Rel(<<A, A>>) @@ "a." :> Rel(<<<<"a", ".">>>>)
  @@ "A.X" :> Rel(<<AX>>) @@ "A.X/a.X" :> Rel(<<AX, <<"a", ".", "X">>>>)
  @@ "AA" :> Rel(<<<<"A", "A">>>>) @@ "A/AAAA" :> Rel(<<A, AAAA>>)
  @@ "." :> Rel(<<Dot>>) @@ ".." :> Rel(<<DotDot>>)
  @@ "./A/../a." :> Rel(<<Dot, A, DotDot, <<"a", ".">>>>)
  @@ "~" :> Rel(<<Tilde>>) @@ "~/A" :> Rel(<<Tilde, A>>)
  @@ "/" :> Abs(<<>>) @@ "/A" :> Abs(<<A>>) @@ "/E" :> Abs(<<<<"E">>>>)
  @@ "/E/.." :> Abs(<<<<"E">>, DotDot>>)
  @@ "/H/U.X" :> Abs(<<<<"H">>, UX>>)
MCChars == {"sp", "tab", "apos", "quot", "bsl", "x", "-"}
             \cup DOMAIN Arities \cup DOMAIN MCPaths

MCLetters == MCChars \cup {"A", "a", "X", "H", "U", "E", "."}

\* A command and a path.
Typed(c, paths) == {<<c, "sp", p>> : p \in paths}
Always == Typed("cd", {"A", "..", "-", "/A"}) \cup {<<"logout">>}

\* A user's home and a directory whose name begins like it.
HomeTree == {Top, <<<<"H">>>>, <<<<"H">>, <<"U">>>>, <<<<"H">>, UX>>, <<<<"E">>>>}
HomeLines ==
  Always \cup Typed("cd", {"~", "~/A", "/E", "/H/U.X"})
    \cup UNION {Typed(c, {"A"}) : c \in {"mkdir", "rmdir", "rm", "cat", "ls", "write"}}
    \cup {<<"write", "sp", "A", "sp", "x">>, <<"cd">>, <<"passwd">>, <<"pwd">>}

\* Names of the greatest length, three deep: the text of the last is cut.
LongTree == {Top, <<AX>>, <<AX, AX>>, <<AX, AX, AX>>}
LongLines ==
  Always \cup Typed("cd", {"A.X", "A.X/a.X", ".", "/"}) \cup Typed("mkdir", {"A"})
    \cup Typed("rmdir", {"A.X"})

\* Four deep, one more than a text may be.
DeepTree == {Top, <<A>>, <<A, A>>, <<A, A, A>>, <<A, A, A, A>>}
DeepLines ==
  Always \cup Typed("cd", {"A/A", "a.", "A/AAAA", "AA"}) \cup Typed("mkdir", {"A"})
    \cup Typed("rmdir", {"A", "A/AAAA"})

MCSetups ==
  [quoting |-> [dirs |-> {Top}, lines |-> Quoting],
   home |-> [dirs |-> HomeTree, lines |-> HomeLines],
   long |-> [dirs |-> LongTree, lines |-> LongLines],
   deep |-> [dirs |-> DeepTree, lines |-> DeepLines]]

MCHomes == ("root" :> Top) @@ ("user" :> <<<<"H">>, <<"U">>>>)
MCRootPaths == {<<<<"E">>>>}
=============================================================================
