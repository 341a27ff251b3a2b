----------------------------- MODULE MCSession -----------------------------
(* ROOT and three users. *)
EXTENDS Session

MCNames == {"ROOT", "ann", "bob", "eve"}
Line(n, uid, pass) == Account(n, uid, Home(n), pass)
RootLine == RootAccount

\* A directory whose path is too long for a variable.
Deep == <<"TMP", "deep">>
MCFar == {Deep}
MCStump == [d \in MCFar |-> <<"TMP">>]

\* A volume without the file, and what the installer writes.
MCDisks == {NoFile, File(<<RootLine>>), File(<<RootLine, Line("ann", 2, "p")>>)}

\* A hand-written file: another order, a name twice, a greater uid.
MCEdits == 
  {File(<<Line("ann", 5, "p"), RootLine, Line("ann", 6, "q")>>)}
=============================================================================
