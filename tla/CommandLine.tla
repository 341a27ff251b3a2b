---------------------------- MODULE CommandLine ----------------------------
(***************************************************************************)
(* parse_argv of kernel/commands.c: the shell splits a command line into   *)
(* words in the buffer that holds it.  Quotes and escapes make a word      *)
(* shorter than its text, so the words are written behind the place where  *)
(* the line is read, into cells that were read before, each one ended by   *)
(* a NUL; an entry of argv is the place where a word starts.               *)
(*                                                                         *)
(* A run of ordinary characters may be one character of the model.         *)
(***************************************************************************)
EXTENDS Naturals, Sequences

CONSTANTS
  Chars,     \* the characters a line is made of
  NUL,       \* the character that ends a string
  BufSize,   \* sizeof(argv_buffer)
  ArgvCap    \* the words argv has room for

Blanks == {"sp", "tab"}                  \* is_space_char
APOS == "apos"
QUOT == "quot"
BSL  == "bsl"
Escapable == Blanks \cup {APOS, QUOT, BSL}

Cells == 1..BufSize

ASSUME LineAssumption ==
  /\ NUL \notin Chars /\ Escapable \subseteq Chars
  /\ BufSize \in Nat \ {0} /\ ArgvCap \in Nat

VARIABLES
  line,      \* the line as it was typed
  mem,       \* argv_buffer
  src, dst,  \* where it is read and written next
  argv,      \* the places where the words start
  single, double,  \* inside quotes of one or the other kind
  at         \* "idle", "outer" between words, "word" in one, "done"

lineVars == <<line, mem, src, dst, argv, single, double, at>>
-----------------------------------------------------------------------------
\* sima_memclr and sima_strcpy: what does not fit is cut, the rest is NUL.
Text(l) == [i \in Cells |-> IF i <= Len(l) /\ i < BufSize THEN l[i] ELSE NUL]

Start(l) ==
  /\ line' = l /\ mem' = Text(l)
  /\ src' = 1 /\ dst' = 1 /\ argv' = <<>>
  /\ single' = FALSE /\ double' = FALSE
  /\ at' = "outer"

SkipBlank ==
  /\ at = "outer" /\ mem[src] \in Blanks
  /\ src' = src + 1
  /\ UNCHANGED <<line, mem, dst, argv, single, double, at>>
EndParse ==
  /\ at = "outer" /\ mem[src] \notin Blanks
  /\ mem[src] = NUL \/ Len(argv) >= ArgvCap
  /\ at' = "done"
  /\ UNCHANGED <<line, mem, src, dst, argv, single, double>>
BeginWord ==
  /\ at = "outer" /\ mem[src] \notin Blanks \cup {NUL} /\ Len(argv) < ArgvCap
  /\ argv' = Append(argv, dst)
  /\ single' = FALSE /\ double' = FALSE
  /\ at' = "word"
  /\ UNCHANGED <<line, mem, src, dst>>

Store(ch) == mem' = [mem EXCEPT ![dst] = ch] /\ dst' = dst + 1
Quoted == single \/ double

\* The blank that ends a word is consumed before the NUL is written.
EndWord_KeepsBlank ==
  /\ at = "word"
  /\ mem[src] = NUL \/ (~Quoted /\ mem[src] \in Blanks)
  /\ src' = src
  /\ Store(NUL)
  /\ at' = "outer"
  /\ UNCHANGED <<line, argv, single, double>>
EndWord ==
  /\ at = "word"
  /\ mem[src] = NUL \/ (~Quoted /\ mem[src] \in Blanks)
  /\ src' = IF mem[src] = NUL THEN src ELSE src + 1
  /\ Store(NUL)
  /\ at' = "outer"
  /\ UNCHANGED <<line, argv, single, double>>
ToggleQuote ==
  /\ at = "word" /\ src' = src + 1
  /\ \/ mem[src] = APOS /\ ~double /\ single' = ~single /\ UNCHANGED double
     \/ mem[src] = QUOT /\ ~single /\ double' = ~double /\ UNCHANGED single
  /\ UNCHANGED <<line, mem, dst, argv, at>>

\* What the character at src is taken for, apart from blanks and quotes: the
\* character itself or, behind a backslash outside single quotes, the next one.
Escaped_InSingle == mem[src] = BSL /\ mem[src + 1] \in Escapable
Escaped == ~single /\ mem[src] = BSL /\ mem[src + 1] \in Escapable
CopyChar ==
  /\ at = "word" /\ mem[src] # NUL
  /\ ~(~Quoted /\ mem[src] \in Blanks)
  /\ ~(mem[src] = APOS /\ ~double) /\ ~(mem[src] = QUOT /\ ~single)
  /\ src' = IF Escaped THEN src + 2 ELSE src + 1
  /\ Store(IF Escaped THEN mem[src + 1] ELSE mem[src])
  /\ UNCHANGED <<line, argv, single, double, at>>

ParseStep ==
  SkipBlank \/ EndParse \/ BeginWord \/ EndWord \/ ToggleQuote \/ CopyChar

\* run_buffer and kernel_main clear the buffers when a line is done.
Clear ==
  /\ at' = "idle"
  /\ line' = <<>> /\ mem' = Text(<<>>) /\ src' = 1 /\ dst' = 1 /\ argv' = <<>>
  /\ single' = FALSE /\ double' = FALSE

LineInit ==
  /\ line = <<>> /\ mem = Text(<<>>) /\ src = 1 /\ dst = 1 /\ argv = <<>>
  /\ single = FALSE /\ double = FALSE /\ at = "idle"

\* The parser alone, given any line after any other.
LineNext == ParseStep \/ Clear \/ \E l \in Seq(Chars) : Start(l)
LineSpec == LineInit /\ [][LineNext]_lineVars
-----------------------------------------------------------------------------
\* The string that starts at cell i.
StringAt(i) ==
  LET len == CHOOSE n \in 0..BufSize :
               /\ mem[i + n] = NUL
               /\ \A k \in 0..n - 1 : mem[i + k] # NUL
  IN  [k \in 1..len |-> mem[i + k - 1]]
Argv == [k \in 1..Len(argv) |-> StringAt(argv[k])]

\* The words a line stands for, read from left to right with nothing but the
\* words that are done, the one begun, the quote that is open and whether a
\* backslash is waiting for its character.
Between(ws) == [done |-> ws, word |-> <<>>, in |-> FALSE, quote |-> "none", esc |-> FALSE]
InWord(ws, w, q, e) == [done |-> ws, word |-> w, in |-> TRUE, quote |-> q, esc |-> e]
Put(a, ch) == InWord(a.done, Append(a.word, ch), a.quote, FALSE)
Plain(a, ch) ==
  IF a.quote = "none" /\ ch \in Blanks
  THEN Between(IF a.in THEN Append(a.done, a.word) ELSE a.done)
  ELSE IF ch \in {APOS, QUOT} /\ a.quote \in {"none", ch}
  THEN InWord(a.done, a.word, IF a.quote = ch THEN "none" ELSE ch, FALSE)
  ELSE IF ch = BSL /\ a.quote # APOS THEN InWord(a.done, a.word, a.quote, TRUE)
  ELSE Put(a, ch)
\* A backslash before a character it does not escape stands for itself.
Settled(a) == IF a.esc THEN Put(a, BSL) ELSE a
ReadChar(a, ch) ==
  IF a.esc /\ ch \in Escapable THEN Put(a, ch) ELSE Plain(Settled(a), ch)
Reading(l) ==
  LET r[n \in 0..Len(l)] == IF n = 0 THEN Between(<<>>) ELSE ReadChar(r[n - 1], l[n])
  IN  r
Words(l) ==
  LET end == Settled(Reading(l)[Len(l)])
  IN  IF end.in THEN Append(end.done, end.word) ELSE end.done

\* The words the shell runs are the ones that were typed, as many as argv holds:
\* splitting the line in the buffer that holds it loses none (parse_argv).
WordsAsTyped ==
  at = "done" =>
    LET n == Len(Words(line))
    IN  Argv = SubSeq(Words(line), 1, IF n <= ArgvCap THEN n ELSE ArgvCap)

\* No cell outside the buffer is read or written: the parser stands in it, and
\* writes where it has read.
InBuffer ==
  /\ src \in Cells
  /\ at = "word" => dst \in Cells /\ dst <= src

\* "Edits the input buffer in-place and writes tokens back into it (dst <= src)"
\* (parse_argv): it stays in the buffer, and what is still to be read is as it
\* was typed, although words are stored in front of it and NULs behind them.
InPlace ==
  /\ InBuffer
  /\ LET typed == Text(line) IN \A i \in Cells : i >= src => mem[i] = typed[i]
=============================================================================
