----------------------------- MODULE MCPrograms -----------------------------
(* Programs small enough to lay out by hand, in a heap of ten cells.       *)
EXTENDS Programs

Rel(at, kind, arg) == [at |-> at, kind |-> kind, arg |-> arg]

(* no BSS: runs after its header, its tables stay                          *)
Hello == [id |-> "hello", code |-> 2, data |-> 1, bss |-> 0, stack |-> 1,
          imports |-> <<2>>,
          relocs |-> <<Rel(0, "base", 2), Rel(1, "import", 1)>>]
(* like EDIT.XEF: runs after its header, its BSS covers all its tables     *)
Edit == [id |-> "edit", code |-> 1, data |-> 0, bss |-> 5, stack |-> 1,
         imports |-> <<1, 2>>, relocs |-> <<Rel(0, "import", 2)>>]
(* a BSS that covers the import and relocation tables, not the strings     *)
Count == [id |-> "count", code |-> 1, data |-> 0, bss |-> 3, stack |-> 1,
          imports |-> <<1, 2>>, relocs |-> <<Rel(0, "import", 2)>>]
(* a BSS so large that the code has to go over the header                  *)
Wide == [id |-> "wide", code |-> 2, data |-> 1, bss |-> 6, stack |-> 1,
         imports |-> <<1>>,
         relocs |-> <<Rel(1, "base", 3), Rel(0, "import", 1)>>]
(* larger than the heap                                                    *)
Big == [id |-> "big", code |-> 12, data |-> 0, bss |-> 0, stack |-> 0,
        imports |-> <<>>, relocs |-> <<>>]

MCPrograms == {Hello, Edit, Count, Wide, Big}
ResidentPrograms == {Hello, Edit}
MCNames == {"A", "BIN/A"}
MCSearches == [load |-> {<<<<"A", "BIN/A">>>>}, exec |-> {<<<<"A", "BIN/A">>>>},
               builtin |-> {<<<<"BIN/A">>, <<"A">>>>}]
ShellCommands == {"load", "run", "exec", "builtin"}
=============================================================================
