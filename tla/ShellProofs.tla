---------------------------- MODULE ShellProofs ----------------------------
(***************************************************************************)
(* The parser of command lines, and the shell that uses it.                *)
(*                                                                         *)
(* parse_argv may write its words into the line it is reading, for every   *)
(* line and every capacity.  The invariant behind this: inside a word, the *)
(* place that is written next is not beyond the one that is read next;     *)
(* between words it may be one beyond it, but then the line is at its end. *)
(* The words it stores are those of the line, read from left to right.     *)
(*                                                                         *)
(* Whatever the shell runs, it splits lines as the parser alone does: its  *)
(* commands leave the buffer alone until they clear it, so that what is    *)
(* proved of the parser holds in the shell.                                *)
(*                                                                         *)
(* The current directory is kept twice, and the text names the cluster as  *)
(* long as it was not cut: a walk of the text and the same walk over the   *)
(* disk go side by side, one name in upper case here and its 8.3 form      *)
(* there, so that the text walked from the root ends where the path does.  *)
(***************************************************************************)
EXTENDS Shell, SequenceTheorems, Induction, TLAPS

Unread == \A i \in Cells : i >= src => mem[i] = Text(line)[i]
Behind ==
  /\ at = "word" => dst <= src
  /\ at \in {"outer", "done"} => dst <= src \/ (dst = src + 1 /\ mem[src] = NUL)
LineInv ==
  /\ line \in Seq(Chars)
  /\ mem \in [Cells -> Chars \cup {NUL}]
  /\ src \in Cells /\ dst \in Nat \ {0}
  /\ Unread /\ Behind

\* A line in the buffer is characters and NULs, and a NUL ends it.
LEMMA TextType ==
  ASSUME NEW l \in Seq(Chars)
  PROVE  Text(l) \in [Cells -> Chars \cup {NUL}] /\ Text(l)[BufSize] = NUL
<1>1. ASSUME NEW i \in Cells, i <= Len(l) PROVE l[i] \in Chars
  <2>1. i \in 1..Len(l)
    BY <1>1, LineAssumption DEF Cells
  <2> QED BY <2>1
<1>2. BufSize \in Cells /\ ~(BufSize < BufSize)
  BY LineAssumption DEF Cells
<1> QED BY <1>1, <1>2 DEF Text

\* Behind a character there is another cell, and behind a backslash and what
\* it escapes one more: the NUL at the end of the buffer is none of them.
LEMMA NotTheEnd ==
  ASSUME LineInv, mem[src] # NUL
  PROVE  /\ src + 1 \in Cells
         /\ Escaped => src + 2 \in Cells /\ mem[src + 1] \in Chars
<1>1. Text(line)[BufSize] = NUL
  BY TextType DEF LineInv
<1>2. src # BufSize
  BY <1>1 DEF LineInv, Unread, Cells
<1>3. src + 1 \in Cells
  BY <1>2, LineAssumption DEF LineInv, Cells
<1>4. ASSUME Escaped PROVE src + 1 # BufSize /\ mem[src + 1] \in Chars
  <2>1. mem[src + 1] \in Chars /\ mem[src + 1] # NUL
    BY <1>4, LineAssumption DEF Escaped
  <2>2. mem[src + 1] = Text(line)[src + 1]
    BY <1>3 DEF LineInv, Unread, Cells
  <2> QED BY <1>1, <2>1, <2>2
<1>5. ASSUME Escaped PROVE src + 2 \in Cells
  BY <1>3, <1>4, <1>5, LineAssumption DEF LineInv, Cells
<1> QED BY <1>3, <1>4, <1>5

LEMMA CharsAreNotNUL ==
  NUL \notin Blanks /\ APOS # NUL /\ QUOT # NUL
BY LineAssumption DEF Escapable

\* Whatever is written at dst lies behind src, or is the NUL that is there.
LEMMA StoreKeeps ==
  ASSUME LineInv, at = "word", NEW ch \in Chars \cup {NUL},
         mem' = [mem EXCEPT ![dst] = ch], line' = line,
         src' \in Cells, src' >= src,
         dst < src' \/ (ch = NUL /\ mem[src] = NUL)
  PROVE  mem' \in [Cells -> Chars \cup {NUL}] /\ Unread'
<1>1. dst \in Cells /\ dst <= src /\ src \in Nat
  BY LineAssumption DEF LineInv, Behind, Cells
<1>2. mem' \in [Cells -> Chars \cup {NUL}]
  BY <1>1 DEF LineInv
<1>3. ASSUME NEW i \in Cells, i >= src' PROVE mem'[i] = Text(line)[i]
  <2>1. i >= src /\ mem[i] = Text(line)[i]
    BY <1>1, <1>3 DEF LineInv, Unread, Cells
  <2>2. CASE i # dst
    BY <2>1, <2>2 DEF LineInv
  <2>3. CASE i = dst
    <3>1. ~(dst < src') /\ i = src
      BY <1>1, <1>3, <2>1, <2>3 DEF Cells
    <3>2. mem'[i] = NUL /\ mem[i] = NUL
      BY <1>1, <2>3, <3>1 DEF LineInv
    <3> QED BY <2>1, <3>2
  <2> QED BY <2>2, <2>3
<1> QED BY <1>2, <1>3 DEF Unread

LEMMA InitInv == LineInit => LineInv
<1> SUFFICES ASSUME LineInit PROVE LineInv
  OBVIOUS
<1>1. line \in Seq(Chars) /\ mem = Text(line)
  BY DEF LineInit
<1>2. src \in Cells /\ dst = 1 /\ at = "idle"
  BY LineAssumption DEF LineInit, Cells
<1>3. mem \in [Cells -> Chars \cup {NUL}]
  BY <1>1, TextType
<1> QED BY <1>1, <1>2, <1>3 DEF LineInv, Unread, Behind

LEMMA StartInv ==
  ASSUME NEW l \in Seq(Chars), Start(l)
  PROVE  LineInv'
BY TextType, LineAssumption DEF Start, LineInv, Unread, Behind, Cells

LEMMA ClearInv == Clear => LineInv'
<1> SUFFICES ASSUME Clear PROVE LineInv'
  OBVIOUS
<1>1. line' \in Seq(Chars) /\ mem' = Text(<<>>) /\ line' = <<>>
  BY DEF Clear
<1>2. src' \in Cells /\ dst' = 1 /\ at' = "idle"
  BY LineAssumption DEF Clear, Cells
<1>3. mem' \in [Cells -> Chars \cup {NUL}]
  BY <1>1, TextType
<1>4. Unread'
  BY <1>1 DEF Unread, Text
<1> QED BY <1>1, <1>2, <1>3, <1>4 DEF LineInv, Behind

LEMMA StepInv == LineInv /\ ParseStep => LineInv'
<1> SUFFICES ASSUME LineInv, ParseStep PROVE LineInv'
  OBVIOUS
<1> USE DEF LineInv
<1>0. src \in Nat /\ dst \in Nat
  BY LineAssumption DEF Cells
<1>1. CASE SkipBlank
  <2>1. mem[src] # NUL /\ src' = src + 1 /\ src' \in Cells
    BY <1>1, CharsAreNotNUL, NotTheEnd DEF SkipBlank
  <2>2. Unread'
    BY <1>0, <1>1, <2>1, LineAssumption DEF SkipBlank, Unread, Cells, Text
  <2>3. Behind'
    BY <1>0, <1>1, <2>1 DEF SkipBlank, Behind
  <2> QED BY <1>1, <2>1, <2>2, <2>3 DEF SkipBlank
<1>2. CASE EndParse
  BY <1>2 DEF EndParse, Unread, Behind, Text
<1>3. CASE BeginWord
  <2>1. dst <= src
    BY <1>3 DEF BeginWord, Behind
  <2> QED BY <1>3, <2>1 DEF BeginWord, Unread, Behind, Text
<1>4. CASE EndWord
  <2>1. dst <= src /\ at' = "outer" /\ dst' = dst + 1 /\ dst \in Cells
    BY <1>0, <1>4, LineAssumption DEF EndWord, Store, Behind, Cells
  <2> mem' = [mem EXCEPT ![dst] = NUL] /\ line' = line /\ at = "word"
    BY <1>4 DEF EndWord, Store
  <2>2. CASE mem[src] = NUL
    <3>1. src' = src
      BY <1>4, <2>2 DEF EndWord
    <3>2. mem' \in [Cells -> Chars \cup {NUL}] /\ Unread'
      <4>1. src' >= src
        BY <1>0, <3>1
      <4> QED BY <2>2, <3>1, <4>1, StoreKeeps
    <3>3. mem'[src] = NUL
      BY <1>4, <2>1, <2>2 DEF EndWord, Store
    <3>4. Behind'
      BY <1>0, <2>1, <3>1, <3>3 DEF Behind
    <3> QED BY <1>0, <1>4, <2>1, <3>1, <3>2, <3>4 DEF EndWord
  <2>3. CASE mem[src] # NUL
    <3>1. src' = src + 1 /\ src' \in Cells
      BY <1>4, <2>3, NotTheEnd DEF EndWord
    <3>2. mem' \in [Cells -> Chars \cup {NUL}] /\ Unread'
      <4>1. src' >= src /\ dst < src'
        BY <1>0, <2>1, <3>1
      <4> QED BY <3>1, <4>1, StoreKeeps
    <3>3. Behind'
      BY <1>0, <2>1, <3>1 DEF Behind
    <3> QED BY <1>0, <1>4, <2>1, <3>1, <3>2, <3>3 DEF EndWord
  <2> QED BY <2>2, <2>3
<1>5. CASE ToggleQuote
  <2>1. mem[src] # NUL /\ src' = src + 1 /\ src' \in Cells
    BY <1>5, CharsAreNotNUL, NotTheEnd DEF ToggleQuote
  <2>2. Unread'
    BY <1>0, <1>5, <2>1, LineAssumption DEF ToggleQuote, Unread, Cells, Text
  <2>3. Behind'
    BY <1>0, <1>5, <2>1 DEF ToggleQuote, Behind
  <2> QED BY <1>5, <2>1, <2>2, <2>3 DEF ToggleQuote
<1>6. CASE CopyChar
  <2>1. mem[src] # NUL /\ dst <= src /\ dst' = dst + 1 /\ at' = at
    BY <1>6 DEF CopyChar, Store, Behind
  <2>2. src' \in Cells /\ src' > src
    BY <1>0, <1>6, <2>1, NotTheEnd DEF CopyChar, Cells
  <2>3. PICK ch \in Chars \cup {NUL} : mem' = [mem EXCEPT ![dst] = ch]
    BY <1>6, <2>1, NotTheEnd DEF CopyChar, Store
  <2>4. mem' \in [Cells -> Chars \cup {NUL}] /\ Unread'
    <3>1. src' >= src /\ dst < src'
      BY <1>0, <2>1, <2>2 DEF Cells
    <3> QED BY <1>6, <2>2, <2>3, <3>1, StoreKeeps DEF CopyChar
  <2>5. Behind'
    BY <1>0, <1>6, <2>1, <2>2 DEF CopyChar, Behind, Cells
  <2> QED BY <1>0, <1>6, <2>1, <2>2, <2>4, <2>5 DEF CopyChar
<1> QED BY <1>1, <1>2, <1>3, <1>4, <1>5, <1>6 DEF ParseStep

\* The invariant of the parser, whatever lines it is given one after another.
THEOREM LineInvHolds == LineSpec => []LineInv
<1>1. LineInv /\ [LineNext]_lineVars => LineInv'
  <2> SUFFICES ASSUME LineInv, [LineNext]_lineVars PROVE LineInv'
    OBVIOUS
  <2>1. CASE ParseStep
    BY <2>1, StepInv
  <2>2. CASE \E l \in Seq(Chars) : Start(l)
    BY <2>2, StartInv
  <2>3. CASE Clear
    BY <2>3, ClearInv
  <2>4. CASE UNCHANGED lineVars
    BY <2>4 DEF lineVars, LineInv, Unread, Behind, Text
  <2> QED BY <2>1, <2>2, <2>3, <2>4 DEF LineNext
<1> QED BY <1>1, InitInv, PTL DEF LineSpec

\* Splitting a line stays in the buffer and never changes what of the line is
\* still to be read: writing the words into the line that is read loses nothing
\* (parse_argv, "dst <= src").
THEOREM AlwaysInPlace == LineSpec => []InPlace
<1>1. LineInv => InBuffer
  BY LineAssumption DEF LineInv, Behind, InBuffer, Cells
<1>2. LineInv => InPlace
  BY <1>1 DEF LineInv, Unread, InPlace
<1> QED BY <1>2, LineInvHolds, PTL
-----------------------------------------------------------------------------
(* The words that are stored are the words of the line. *)

\* The line is read character by character.
LEMMA ReadingSteps ==
  ASSUME NEW l \in Seq(Chars)
  PROVE  /\ Reading(l)[0] = Between(<<>>)
         /\ \A n \in 1..Len(l) : Reading(l)[n] = ReadChar(Reading(l)[n - 1], l[n])
<1> DEFINE N == Len(l)
           Now(k, g) == IF k = 0 THEN Between(<<>>) ELSE ReadChar(g[k - 1], l[k])
           Sound(n, g) == /\ g = [k \in 0..n |-> g[k]]
                          /\ \A k \in 0..n : g[k] = Now(k, g)
           T == {n \in Nat : \E g : Sound(n, g)}
<1>0. N \in Nat
  BY LenProperties
<1>1. 0 \in T
  <2> DEFINE x == Between(<<>>)
             g == [k \in 0..0 |-> x]
  <2> HIDE DEF x
  <2>1. g[0] = x /\ \A k \in 0..0 : k = 0
    OBVIOUS
  <2>2. g = [k \in 0..0 |-> g[k]]
    OBVIOUS
  <2> HIDE DEF g
  <2>3. Sound(0, g)
    BY <2>1, <2>2 DEF x
  <2> QED BY <2>3
<1>2. ASSUME NEW n \in Nat, n \in T PROVE n + 1 \in T
  <2>1. PICK g : Sound(n, g)
    BY <1>2
  <2> DEFINE x == ReadChar(g[n], l[n + 1])
             h == [k \in 0..n + 1 |-> IF k = n + 1 THEN x ELSE g[k]]
  <2> HIDE DEF x
  <2>2. \A k \in 0..n : h[k] = g[k]
    OBVIOUS
  <2>3. h[n + 1] = x
    OBVIOUS
  <2>4. h = [k \in 0..n + 1 |-> h[k]]
    OBVIOUS
  <2> HIDE DEF h
  <2>5. x = ReadChar(h[n], l[n + 1])
    <3>1. h[n] = g[n]
      BY <2>2
    <3> QED BY <3>1 DEF x
  <2>6. ASSUME NEW k \in 0..n + 1 PROVE h[k] = Now(k, h)
    <3>1. CASE k = n + 1
      <4>1. k # 0 /\ k - 1 = n
        BY <3>1
      <4> QED BY <3>1, <4>1, <2>3, <2>5
    <3>2. CASE k \in 0..n
      <4>1. g[k] = Now(k, g)
        BY <2>1, <3>2
      <4>2. k # 0 => h[k - 1] = g[k - 1]
        BY <2>2, <3>2
      <4>3. h[k] = g[k]
        BY <2>2, <3>2
      <4>4. CASE k = 0
        BY <4>1, <4>3, <4>4
      <4>5. CASE k # 0
        BY <4>1, <4>2, <4>3, <4>5
      <4> QED BY <4>4, <4>5
    <3> QED BY <3>1, <3>2
  <2> HIDE DEF Now
  <2>7. Sound(n + 1, h)
    BY <2>4, <2>6
  <2> HIDE DEF Sound
  <2> QED BY <2>7
<1> HIDE DEF T
<1>3. \A n \in Nat : n \in T
  BY <1>1, <1>2, NatSetInduction
<1>4. PICK g : Sound(N, g)
  BY <1>0, <1>3 DEF T
<1>5. g = [k \in 0..N |-> Now(k, g)]
  <2> HIDE DEF Now
  <2> QED BY <1>4
<1> DEFINE C == CHOOSE c : c = [k \in 0..N |-> Now(k, c)]
<1>6. C = [k \in 0..N |-> Now(k, C)]
  <2> HIDE DEF Now
  <2> QED BY <1>5
<1>7. Reading(l) = C
  BY DEF Reading
<1> HIDE DEF C, N, Now
<1>8. C[0] = Between(<<>>)
  <2>1. C[0] = Now(0, C)
    BY <1>0, <1>6
  <2> QED BY <2>1 DEF Now
<1>9. ASSUME NEW n \in 1..N PROVE C[n] = ReadChar(C[n - 1], l[n])
  <2>1. n \in 0..N /\ n # 0
    BY <1>0
  <2>2. C[n] = Now(n, C)
    BY <1>6, <2>1
  <2> QED BY <2>1, <2>2 DEF Now
<1> QED BY <1>7, <1>8, <1>9 DEF N

\* What can be read: a word begun, or none.
IsRead(a) ==
  \/ a.done \in Seq(Seq(Chars)) /\ a = Between(a.done)
  \/ /\ a.done \in Seq(Seq(Chars)) /\ a.word \in Seq(Chars)
     /\ a.quote \in {"none", APOS, QUOT} /\ a.esc \in BOOLEAN
     /\ a = InWord(a.done, a.word, a.quote, a.esc)

LEMMA BetweenIs ==
  ASSUME NEW ws
  PROVE  /\ Between(ws).done = ws /\ Between(ws).word = <<>> /\ Between(ws).in = FALSE
         /\ Between(ws).quote = "none" /\ Between(ws).esc = FALSE
BY DEF Between

LEMMA InWordIs ==
  ASSUME NEW ws, NEW w, NEW q, NEW e
  PROVE  /\ InWord(ws, w, q, e).done = ws /\ InWord(ws, w, q, e).word = w
         /\ InWord(ws, w, q, e).in = TRUE
         /\ InWord(ws, w, q, e).quote = q /\ InWord(ws, w, q, e).esc = e
BY DEF InWord

LEMMA ReadInWord ==
  ASSUME NEW ws \in Seq(Seq(Chars)), NEW w \in Seq(Chars),
         NEW q \in {"none", APOS, QUOT}, NEW e \in BOOLEAN
  PROVE  IsRead(InWord(ws, w, q, e))
<1> DEFINE a == InWord(ws, w, q, e)
<1>1. a.done = ws /\ a.word = w /\ a.quote = q /\ a.esc = e
  BY DEF InWord
<1>2. a = InWord(a.done, a.word, a.quote, a.esc)
  BY <1>1
<1> HIDE DEF a
<1>3. IsRead(a)
  BY <1>1, <1>2 DEF IsRead
<1> QED BY <1>3 DEF a

LEMMA ReadBetween ==
  ASSUME NEW ws \in Seq(Seq(Chars)) PROVE IsRead(Between(ws))
<1> DEFINE a == Between(ws)
<1>1. a.done = ws
  BY BetweenIs
<1>2. a = Between(a.done)
  BY <1>1
<1> HIDE DEF a
<1>3. IsRead(a)
  BY <1>1, <1>2 DEF IsRead
<1> QED BY <1>3 DEF a

LEMMA ReadIs ==
  ASSUME NEW a, IsRead(a)
  PROVE  /\ a.done \in Seq(Seq(Chars)) /\ a.word \in Seq(Chars)
         /\ a.quote \in {"none", APOS, QUOT} /\ a.in \in BOOLEAN /\ a.esc \in BOOLEAN
         /\ a.esc => a.in
         /\ ~a.in => a = Between(a.done)
<1>1. CASE a.done \in Seq(Seq(Chars)) /\ a = Between(a.done)
  <2>1. a.word = <<>> /\ a.in = FALSE /\ a.quote = "none" /\ a.esc = FALSE
    BY <1>1, BetweenIs
  <2>2. <<>> \in Seq(Chars)
    BY EmptySeq
  <2> QED BY <1>1, <2>1, <2>2
<1>2. CASE /\ a.done \in Seq(Seq(Chars)) /\ a.word \in Seq(Chars)
           /\ a.quote \in {"none", APOS, QUOT} /\ a.esc \in BOOLEAN
           /\ a = InWord(a.done, a.word, a.quote, a.esc)
  <2>1. a.in = TRUE
    BY <1>2 DEF InWord
  <2> QED BY <1>2, <2>1
<1> QED BY <1>1, <1>2 DEF IsRead

LEMMA PutIs ==
  ASSUME NEW a, IsRead(a), NEW ch \in Chars
  PROVE  /\ IsRead(Put(a, ch)) /\ Put(a, ch).esc = FALSE /\ Put(a, ch).in = TRUE
         /\ Put(a, ch).done = a.done /\ Put(a, ch).quote = a.quote
         /\ Put(a, ch).word = Append(a.word, ch)
<1>1. Append(a.word, ch) \in Seq(Chars)
  BY ReadIs, AppendProperties
<1>2. IsRead(Put(a, ch))
  BY <1>1, ReadIs, ReadInWord DEF Put
<1> QED BY <1>2 DEF Put, InWord

LEMMA BackslashIsChar == BSL \in Chars
BY LineAssumption DEF Escapable

LEMMA SettledIs ==
  ASSUME NEW a, IsRead(a)
  PROVE  /\ IsRead(Settled(a)) /\ Settled(a).esc = FALSE
         /\ Settled(a).in = a.in /\ Settled(a).done = a.done
         /\ Settled(a).quote = a.quote
<1>1. CASE a.esc = TRUE
  <2>1. Settled(a) = Put(a, BSL)
    BY <1>1 DEF Settled
  <2>2. a.in = TRUE
    BY <1>1, ReadIs
  <2>3. IsRead(Put(a, BSL)) /\ Put(a, BSL).esc = FALSE /\ Put(a, BSL).in = TRUE
    BY BackslashIsChar, PutIs
  <2>4. Put(a, BSL).done = a.done /\ Put(a, BSL).quote = a.quote
    BY BackslashIsChar, PutIs
  <2> QED BY <2>1, <2>2, <2>3, <2>4
<1>2. CASE a.esc = FALSE
  BY <1>2 DEF Settled
<1> QED BY <1>1, <1>2, ReadIs

LEMMA PlainIs ==
  ASSUME NEW a, IsRead(a), NEW ch \in Chars
  PROVE  /\ IsRead(Plain(a, ch))
         /\ Plain(a, ch).done \in {a.done, Append(a.done, a.word)}
<1>1. /\ a.word \in Seq(Chars) /\ a.done \in Seq(Seq(Chars))
      /\ a.quote \in {"none", APOS, QUOT}
  BY ReadIs
<1>2. Append(a.done, a.word) \in Seq(Seq(Chars))
  BY <1>1, AppendProperties
<1>3. CASE a.quote = "none" /\ ch \in Blanks
  <2>1. PICK ws \in {a.done, Append(a.done, a.word)} : Plain(a, ch) = Between(ws)
    BY <1>3 DEF Plain
  <2>2. ws \in Seq(Seq(Chars))
    BY <1>1, <1>2, <2>1
  <2> QED BY <2>1, <2>2, BetweenIs, ReadBetween
<1>4. CASE ~(a.quote = "none" /\ ch \in Blanks)
  <2>1. CASE Plain(a, ch) = Put(a, ch)
    <3>1. IsRead(Put(a, ch))
      BY PutIs
    <3>2. Put(a, ch).done = a.done
      BY PutIs
    <3> QED BY <2>1, <3>1, <3>2
  <2>2. CASE Plain(a, ch) # Put(a, ch)
    <3>1. PICK q \in {"none", APOS, QUOT}, e \in BOOLEAN :
                 Plain(a, ch) = InWord(a.done, a.word, q, e)
      <4>1. CASE ch \in {APOS, QUOT} /\ a.quote \in {"none", ch}
        <5>1. Plain(a, ch) = InWord(a.done, a.word, IF a.quote = ch THEN "none" ELSE ch, FALSE)
          BY <1>4, <4>1 DEF Plain
        <5> QED BY <4>1, <5>1
      <4>2. CASE ~(ch \in {APOS, QUOT} /\ a.quote \in {"none", ch})
        <5>1. Plain(a, ch) = InWord(a.done, a.word, a.quote, TRUE)
          BY <1>4, <2>2, <4>2 DEF Plain
        <5> QED BY <1>1, <5>1
      <4> QED BY <4>1, <4>2
    <3>2. IsRead(InWord(a.done, a.word, q, e))
      BY <1>1, ReadInWord
    <3>3. InWord(a.done, a.word, q, e).done = a.done
      BY DEF InWord
    <3> QED BY <3>1, <3>2, <3>3
  <2> QED BY <2>1, <2>2
<1> QED BY <1>3, <1>4

\* What is done stays done.
Extends(v, u) == Len(u) <= Len(v) /\ \A k \in 1..Len(u) : v[k] = u[k]

LEMMA AppendExtends ==
  ASSUME NEW S, NEW u \in Seq(S), NEW x \in S
  PROVE  Extends(Append(u, x), u) /\ Extends(u, u)
BY AppendProperties, LenProperties DEF Extends

LEMMA ExtendsTransitive ==
  ASSUME NEW S, NEW u \in Seq(S), NEW v \in Seq(S), NEW w \in Seq(S),
         Extends(v, u), Extends(w, v)
  PROVE  Extends(w, u)
BY LenProperties DEF Extends

LEMMA ReadCharIs ==
  ASSUME NEW a, IsRead(a), NEW ch \in Chars
  PROVE  IsRead(ReadChar(a, ch)) /\ Extends(ReadChar(a, ch).done, a.done)
<1>1. /\ IsRead(Put(a, ch)) /\ Put(a, ch).done = a.done /\ a.done \in Seq(Seq(Chars))
      /\ IsRead(Settled(a)) /\ Settled(a).done = a.done
  BY PutIs, SettledIs, ReadIs
<1>2. /\ IsRead(Plain(Settled(a), ch)) /\ Settled(a).word \in Seq(Chars)
      /\ Plain(Settled(a), ch).done \in {a.done, Append(a.done, Settled(a).word)}
  BY <1>1, PlainIs, ReadIs
<1>3. Extends(a.done, a.done) /\ Extends(Append(a.done, Settled(a).word), a.done)
  BY <1>1, <1>2, AppendExtends
<1> QED BY <1>1, <1>2, <1>3 DEF ReadChar

LEMMA ReadingIs ==
  ASSUME NEW l \in Seq(Chars)
  PROVE  \A n \in 0..Len(l) : IsRead(Reading(l)[n])
<1> DEFINE T == {n \in Nat : n <= Len(l) => IsRead(Reading(l)[n])}
<1>0. Len(l) \in Nat
  BY LenProperties
<1>1. 0 \in T
  <2>1. <<>> \in Seq(Seq(Chars))
    BY EmptySeq
  <2>2. IsRead(Between(<<>>))
    BY <2>1, ReadBetween
  <2> QED BY <2>2, ReadingSteps
<1>2. ASSUME NEW n \in Nat, n \in T PROVE n + 1 \in T
  <2>1. CASE n + 1 <= Len(l)
    <3>1. n + 1 \in 1..Len(l) /\ (n + 1) - 1 = n /\ n <= Len(l)
      BY <1>0, <2>1
    <3>2. IsRead(Reading(l)[n]) /\ l[n + 1] \in Chars
      BY <1>2, <3>1
    <3>3. Reading(l)[n + 1] = ReadChar(Reading(l)[n], l[n + 1])
      BY <3>1, ReadingSteps
    <3> QED BY <3>2, <3>3, ReadCharIs
  <2> QED BY <2>1
<1> HIDE DEF T
<1>3. \A n \in Nat : n \in T
  BY <1>1, <1>2, NatSetInduction
<1> QED BY <1>0, <1>3 DEF T

LEMMA DoneStays ==
  ASSUME NEW l \in Seq(Chars), NEW n \in 0..Len(l)
  PROVE  Extends(Words(l), Reading(l)[n].done)
<1> DEFINE R == Reading(l)
           T == {m \in Nat : n + m <= Len(l) => Extends(R[n + m].done, R[n].done)}
<1>0. Len(l) \in Nat
  BY LenProperties
<1>1. \A m \in 0..Len(l) : IsRead(R[m]) /\ R[m].done \in Seq(Seq(Chars))
  BY ReadingIs, ReadIs
<1>2. 0 \in T
  <2>1. n + 0 = n
    BY <1>0
  <2> QED BY <2>1, <1>1, AppendExtends
<1>3. ASSUME NEW m \in Nat, m \in T PROVE m + 1 \in T
  <2>1. CASE n + (m + 1) <= Len(l)
    <3>1. /\ n + (m + 1) \in 1..Len(l) /\ n + m \in 0..Len(l)
          /\ (n + (m + 1)) - 1 = n + m /\ n + m <= Len(l)
      BY <1>0, <2>1
    <3>2. IsRead(R[n + m]) /\ l[n + (m + 1)] \in Chars
      BY <1>1, <3>1
    <3>3. R[n + (m + 1)] = ReadChar(R[n + m], l[n + (m + 1)])
      BY <3>1, ReadingSteps
    <3>4. Extends(R[n + (m + 1)].done, R[n + m].done)
      BY <3>2, <3>3, ReadCharIs
    <3>5. Extends(R[n + m].done, R[n].done)
      BY <1>3, <3>1
    <3>6. /\ R[n].done \in Seq(Seq(Chars)) /\ R[n + m].done \in Seq(Seq(Chars))
          /\ R[n + (m + 1)].done \in Seq(Seq(Chars))
      <4>1. n + (m + 1) \in 0..Len(l)
        BY <1>0, <3>1
      <4> QED BY <1>1, <3>1, <4>1
    <3> QED BY <3>4, <3>5, <3>6, ExtendsTransitive
  <2> QED BY <2>1
<1> HIDE DEF T
<1>4. \A m \in Nat : m \in T
  BY <1>2, <1>3, NatSetInduction
<1>5. Len(l) - n \in Nat /\ n + (Len(l) - n) = Len(l) /\ Len(l) \in 0..Len(l)
  BY <1>0
<1>6. Extends(R[Len(l)].done, R[n].done)
  <2>1. Len(l) - n \in T
    BY <1>4, <1>5
  <2> QED BY <1>0, <1>5, <2>1 DEF T
<1> DEFINE e == Settled(R[Len(l)])
<1>7. /\ e.done = R[Len(l)].done /\ e.done \in Seq(Seq(Chars)) /\ e.word \in Seq(Chars)
      /\ R[n].done \in Seq(Seq(Chars))
  <2>1. IsRead(R[Len(l)])
    BY <1>1, <1>5
  <2>2. IsRead(e) /\ e.done = R[Len(l)].done
    BY <2>1, SettledIs
  <2> QED BY <1>1, <2>2, ReadIs
<1>8. /\ Extends(e.done, e.done) /\ Extends(Append(e.done, e.word), e.done)
      /\ Append(e.done, e.word) \in Seq(Seq(Chars))
  BY <1>7, AppendExtends, AppendProperties
<1>9. Words(l) \in {e.done, Append(e.done, e.word)}
  BY DEF Words
<1> HIDE DEF e
<1> QED BY <1>6, <1>7, <1>8, <1>9, ExtendsTransitive
-----------------------------------------------------------------------------
\* What is read of the line so far.
SoFar == Settled(Reading(line)[src - 1])
AtEnd == src = Len(line) + 1

\* The word w stands at cell i, as far as it is written; or it is complete.
Begun(i, w) ==
  /\ i \in Nat \ {0} /\ w \in Seq(Chars)
  /\ \A j \in 1..Len(w) : mem[i + j - 1] = w[j]
Stored(i, w) == Begun(i, w) /\ i + Len(w) < dst /\ mem[i + Len(w)] = NUL
Kept(ws, n) == Len(ws) = n /\ \A k \in 1..n : Stored(argv[k], ws[k])

\* Between words the words done are stored, at the end of the line with the one
\* the end completes; in a word it is stored up to dst, and the quotes agree.
Around ==
  \/ ~SoFar.in /\ Kept(SoFar.done, Len(argv))
  \/ AtEnd /\ SoFar.in /\ Kept(Append(SoFar.done, SoFar.word), Len(argv))
Quote == IF single THEN APOS ELSE IF double THEN QUOT ELSE "none"
Within ==
  /\ SoFar.quote = Quote /\ ~(single /\ double)
  /\ Len(argv) > 0 /\ Kept(SoFar.done, Len(argv) - 1)
  /\ Begun(argv[Len(argv)], SoFar.word) /\ argv[Len(argv)] + Len(SoFar.word) = dst
  /\ SoFar.in \/ (src <= Len(line) /\ line[src] \notin Blanks)
Splitting ==
  /\ src \in 1..Len(line) + 1
  /\ argv \in Seq(Nat) /\ Len(argv) <= ArgvCap
  /\ single \in BOOLEAN /\ double \in BOOLEAN
  /\ Reading(line)[src - 1].esc /\ src <= Len(line) => line[src] \notin Escapable
  /\ at = "word" => Within
  /\ at \in {"outer", "done"} => Around
  /\ at = "done" => AtEnd \/ Len(argv) = ArgvCap
WordInv == Len(line) < BufSize /\ at # "idle" => Splitting

\* The buffer from src on is the line, and NULs behind it.
LEMMA AtSrc ==
  ASSUME LineInv, Len(line) < BufSize, NEW i \in Cells, i >= src
  PROVE  /\ Len(line) \in Nat /\ (mem[i] = NUL <=> i > Len(line))
         /\ i <= Len(line) => mem[i] = line[i] /\ line[i] \in Chars
<1>1. line \in Seq(Chars) /\ Len(line) \in Nat /\ i \in Nat \ {0} /\ i <= BufSize
  BY LineAssumption DEF LineInv, Cells
<1>2. mem[i] = Text(line)[i]
  BY DEF LineInv, Unread
<1>3. Text(line)[i] = IF i <= Len(line) /\ i < BufSize THEN line[i] ELSE NUL
  BY DEF Text
<1>4. i <= Len(line) => i < BufSize /\ line[i] \in Chars
  <2> SUFFICES ASSUME i <= Len(line) PROVE i < BufSize /\ line[i] \in Chars
    OBVIOUS
  <2>1. i \in 1..Len(line)
    BY <1>1
  <2>2. i < BufSize
    BY <1>1, LineAssumption
  <2> QED BY <1>1, <2>1, <2>2
<1> QED BY <1>1, <1>2, <1>3, <1>4, LineAssumption

LEMMA SoFarIs ==
  ASSUME LineInv, Splitting
  PROVE  /\ IsRead(Reading(line)[src - 1]) /\ IsRead(SoFar) /\ SoFar.esc = FALSE
         /\ src \in Nat /\ Len(line) \in Nat /\ line \in Seq(Chars)
<1>1. line \in Seq(Chars) /\ Len(line) \in Nat
  BY DEF LineInv
<1>2. src - 1 \in 0..Len(line) /\ src \in Nat
  BY <1>1 DEF Splitting
<1>3. IsRead(Reading(line)[src - 1])
  BY <1>1, <1>2, ReadingIs
<1>4. IsRead(Settled(Reading(line)[src - 1])) /\ Settled(Reading(line)[src - 1]).esc = FALSE
  BY <1>3, SettledIs
<1> QED BY <1>1, <1>2, <1>3, <1>4 DEF SoFar

\* The next character is read as if the backslash were settled.
LEMMA NextRead ==
  ASSUME LineInv, Splitting, src <= Len(line)
  PROVE  /\ Reading(line)[src] = Plain(SoFar, line[src])
         /\ line[src] \in Chars /\ src + 1 \in 1..Len(line) + 1 /\ (src + 1) - 1 = src
<1>0. src \in 1..Len(line) + 1
  BY DEF Splitting
<1>1. /\ IsRead(Reading(line)[src - 1]) /\ line \in Seq(Chars) /\ Len(line) \in Nat
      /\ src \in 1..Len(line)
  BY <1>0, SoFarIs
<1>2. Reading(line)[src] = ReadChar(Reading(line)[src - 1], line[src])
  BY <1>1, ReadingSteps
<1>3. ~(Reading(line)[src - 1].esc /\ line[src] \in Escapable)
  BY DEF Splitting
<1>4. Reading(line)[src] = Plain(Settled(Reading(line)[src - 1]), line[src])
  BY <1>2, <1>3 DEF ReadChar
<1> QED BY <1>1, <1>4 DEF SoFar

\* Words stay where they are.
LEMMA KeptStays ==
  ASSUME dst \in Nat, dst' \in Nat, dst <= dst',
         \A i \in Nat \ {0} : i < dst => mem'[i] = mem[i],
         NEW CONSTANT ws, NEW CONSTANT n \in Nat, Kept(ws, n),
         \A k \in 1..n : argv'[k] = argv[k]
  PROVE  Kept(ws, n)'
<1>1. Len(ws) = n
  BY DEF Kept
<1>2. ASSUME NEW k \in 1..n PROVE Stored(argv[k], ws[k])'
  <2> DEFINE i == argv[k]
             w == ws[k]
  <2>1. /\ i \in Nat \ {0} /\ w \in Seq(Chars) /\ i + Len(w) < dst
        /\ \A j \in 1..Len(w) : mem[i + j - 1] = w[j]
        /\ mem[i + Len(w)] = NUL
    BY DEF Kept, Stored, Begun
  <2>2. Len(w) \in Nat
    BY <2>1, LenProperties
  <2>3. argv'[k] = i
    OBVIOUS
  <2> HIDE DEF i, w
  <2>4. \A j \in 1..Len(w) : mem'[i + j - 1] = w[j]
    <3> TAKE j \in 1..Len(w)
    <3>1. i + j - 1 \in Nat \ {0} /\ i + j - 1 < dst
      BY <2>1, <2>2
    <3> QED BY <2>1, <3>1
  <2>5. mem'[i + Len(w)] = NUL /\ i + Len(w) < dst'
    <3>1. i + Len(w) \in Nat \ {0}
      BY <2>1, <2>2
    <3> QED BY <2>1, <2>2, <3>1
  <2> QED BY <2>1, <2>3, <2>4, <2>5 DEF Stored, Begun, w
<1> QED BY <1>1, <1>2 DEF Kept

LEMMA AppendsIs ==
  ASSUME NEW S, NEW s \in Seq(S), NEW x \in S
  PROVE  /\ Append(s, x) \in Seq(S) /\ Len(Append(s, x)) = Len(s) + 1 /\ Len(s) \in Nat
         /\ Append(s, x)[Len(s) + 1] = x
         /\ \A k \in 1..Len(s) : Append(s, x)[k] = s[k]
BY AppendProperties, LenProperties

LEMMA SkipBlankSplits ==
  ASSUME LineInv, Splitting, Len(line) < BufSize, SkipBlank
  PROVE  Splitting'
<1>1. /\ at = "outer" /\ mem[src] \in Blanks /\ src' = src + 1
      /\ UNCHANGED <<line, mem, dst, argv, single, double, at>>
  BY DEF SkipBlank
<1>2. src \in Cells /\ src \in Nat /\ Len(line) \in Nat /\ src \in 1..Len(line) + 1
  BY SoFarIs DEF LineInv, Splitting
<1>3. src <= Len(line) /\ line[src] \in Blanks
  <2>1. mem[src] # NUL
    BY <1>1, CharsAreNotNUL
  <2> QED BY <1>1, <1>2, <2>1, AtSrc
<1>4. ~SoFar.in /\ Kept(SoFar.done, Len(argv))
  <2>1. ~AtEnd
    BY <1>2, <1>3 DEF AtEnd
  <2> QED BY <1>1, <2>1 DEF Splitting, Around
<1>5. SoFar = Between(SoFar.done) /\ SoFar.quote = "none"
  BY <1>4, SoFarIs, ReadIs, BetweenIs
<1>6. Reading(line)[src] = SoFar
  <2>1. Plain(SoFar, line[src]) = Between(SoFar.done)
    BY <1>3, <1>4, <1>5 DEF Plain
  <2> QED BY <1>3, <1>5, <2>1, NextRead
<1>7. Reading(line')[src' - 1] = SoFar
  BY <1>1, <1>2, <1>6, NextRead
<1>8. Reading(line')[src' - 1].esc = FALSE
  BY <1>7, SoFarIs
<1>9. SoFar' = SoFar
  BY <1>7, <1>8 DEF SoFar, Settled
<1>10. Around'
  BY <1>1, <1>4, <1>9 DEF Around, Kept, Stored, Begun
<1>11. src' \in 1..Len(line') + 1
  BY <1>1, <1>3, NextRead
<1> QED BY <1>1, <1>8, <1>10, <1>11 DEF Splitting

LEMMA EndParseSplits ==
  ASSUME LineInv, Splitting, Len(line) < BufSize, EndParse
  PROVE  Splitting'
<1>1. /\ at = "outer" /\ at' = "done"
      /\ UNCHANGED <<line, mem, src, dst, argv, single, double>>
      /\ mem[src] = NUL \/ Len(argv) >= ArgvCap
  BY DEF EndParse
<1>2. src \in Cells /\ src \in Nat /\ Len(line) \in Nat /\ src \in 1..Len(line) + 1
  BY SoFarIs DEF LineInv, Splitting
<1>3. AtEnd \/ Len(argv) = ArgvCap
  <2>1. CASE mem[src] = NUL
    <3>1. src > Len(line)
      BY <1>2, <2>1, AtSrc
    <3> QED BY <1>2, <3>1 DEF AtEnd
  <2>2. CASE Len(argv) >= ArgvCap
    <3>1. argv \in Seq(Nat) /\ Len(argv) <= ArgvCap
      BY DEF Splitting
    <3>2. Len(argv) \in Nat
      BY <3>1, LenProperties
    <3> QED BY <2>2, <3>1, <3>2, LineAssumption
  <2> QED BY <1>1, <2>1, <2>2
<1>4. SoFar' = SoFar /\ (AtEnd' <=> AtEnd)
  BY <1>1 DEF SoFar, AtEnd
<1>5. Around
  BY <1>1 DEF Splitting
<1>6. Around'
  BY <1>1, <1>4, <1>5 DEF Around, Kept, Stored, Begun
<1> QED BY <1>1, <1>3, <1>4, <1>6 DEF Splitting

LEMMA BeginWordSplits ==
  ASSUME LineInv, Splitting, Len(line) < BufSize, BeginWord
  PROVE  Splitting'
<1>1. /\ at = "outer" /\ at' = "word" /\ argv' = Append(argv, dst)
      /\ mem[src] \notin Blanks \cup {NUL} /\ Len(argv) < ArgvCap
      /\ single' = FALSE /\ double' = FALSE
      /\ UNCHANGED <<line, mem, src, dst>>
  BY DEF BeginWord
<1>2. /\ src \in Cells /\ src \in Nat /\ Len(line) \in Nat /\ src \in 1..Len(line) + 1
      /\ dst \in Nat \ {0} /\ argv \in Seq(Nat)
  BY SoFarIs DEF LineInv, Splitting
<1>3. src <= Len(line) /\ line[src] \notin Blanks
  <2>1. mem[src] # NUL
    BY <1>1
  <2> QED BY <1>1, <1>2, <2>1, AtSrc
<1>4. ~SoFar.in /\ Kept(SoFar.done, Len(argv))
  <2>1. ~AtEnd
    BY <1>2, <1>3 DEF AtEnd
  <2> QED BY <1>1, <2>1 DEF Splitting, Around
<1>5. SoFar.word = <<>> /\ SoFar.quote = "none"
  <2>1. SoFar = Between(SoFar.done)
    BY <1>4, SoFarIs, ReadIs
  <2>2. Between(SoFar.done).word = <<>> /\ Between(SoFar.done).quote = "none"
    BY DEF Between
  <2> QED BY <2>1, <2>2
<1>6. SoFar' = SoFar
  BY <1>1 DEF SoFar
<1>7. /\ argv' \in Seq(Nat) /\ Len(argv') = Len(argv) + 1 /\ Len(argv) \in Nat
      /\ argv'[Len(argv')] = dst /\ \A k \in 1..Len(argv) : argv'[k] = argv[k]
  BY <1>1, <1>2, AppendsIs
<1>8. PICK ws : ws = SoFar.done
  OBVIOUS
<1>13. PICK n \in Nat : n = Len(argv)
  BY <1>7
<1>9. Kept(ws, n)'
  <2>1. dst \in Nat /\ dst' \in Nat /\ dst <= dst'
    BY <1>1, <1>2
  <2>2. \A i \in Nat \ {0} : i < dst => mem'[i] = mem[i]
    BY <1>1
  <2>3. Kept(ws, n) /\ \A k \in 1..n : argv'[k] = argv[k]
    BY <1>4, <1>7, <1>8, <1>13
  <2> QED BY <2>1, <2>2, <2>3, KeptStays
<1>10. Within'
  <2>1. Len(argv') > 0 /\ Len(argv') - 1 = n
    BY <1>7, <1>8, <1>13
  <2>2. Kept(SoFar.done, Len(argv) - 1)'
    BY <1>6, <1>8, <1>13, <1>9, <2>1
  <2>3. PICK w \in Seq(Chars) : w = <<>>
    BY EmptySeq
  <2>4. Len(w) = 0 /\ 1..Len(w) = {}
    BY <2>3
  <2>5. Begun(argv[Len(argv)], w)' /\ dst' + Len(w) = dst'
    BY <1>1, <1>2, <1>7, <2>4 DEF Begun
  <2>6. SoFar'.word = w /\ SoFar'.quote = Quote' /\ ~(single' /\ double')
    BY <1>1, <1>5, <1>6, <2>3 DEF Quote
  <2>7. src' <= Len(line') /\ line'[src'] \notin Blanks
    BY <1>1, <1>3
  <2> QED BY <1>1, <1>7, <2>1, <2>2, <2>5, <2>6, <2>7 DEF Within
<1>11. src' \in 1..Len(line') + 1 /\ Len(argv') <= ArgvCap
  BY <1>1, <1>2, <1>7, LineAssumption
<1>12. Reading(line')[src' - 1].esc /\ src' <= Len(line') => line'[src'] \notin Escapable
  BY <1>1 DEF Splitting
<1> QED BY <1>1, <1>7, <1>10, <1>11, <1>12 DEF Splitting

\* The word goes on by a character, or by none.
LEMMA WithinGoes ==
  ASSUME LineInv, Splitting, at = "word", UNCHANGED <<line, argv>>,
         NEW CONSTANT w, NEW CONSTANT q,
         SoFar' = InWord(SoFar.done, w, q, FALSE),
         q = Quote', ~(single' /\ double'),
         dst' \in Nat, dst <= dst',
         \A i \in Nat \ {0} : i < dst => mem'[i] = mem[i],
         Begun(argv[Len(argv)], w)', argv[Len(argv)] + Len(w) = dst'
  PROVE  Within'
<1>1. Kept(SoFar.done, Len(argv) - 1) /\ Len(argv) > 0 /\ Len(argv) \in Nat
  <2>1. argv \in Seq(Nat) /\ Within
    BY DEF Splitting
  <2>2. Len(argv) \in Nat
    BY <2>1, LenProperties
  <2> QED BY <2>1, <2>2 DEF Within
<1>2. PICK ws : ws = SoFar.done
  OBVIOUS
<1>3. PICK n \in Nat : n = Len(argv) - 1
  BY <1>1
<1>4. Kept(ws, n)'
  <2>1. dst \in Nat
    BY DEF LineInv
  <2>2. Kept(ws, n) /\ \A k \in 1..n : argv'[k] = argv[k]
    BY <1>1, <1>2, <1>3
  <2> QED BY <2>1, <2>2, KeptStays
<1>5. /\ SoFar'.done = ws /\ SoFar'.word = w /\ SoFar'.quote = q /\ SoFar'.in = TRUE
  BY <1>2 DEF InWord
<1>6. Len(argv') > 0 /\ Len(argv') - 1 = n
  BY <1>1, <1>3
<1>7. Kept(SoFar.done, Len(argv) - 1)'
  BY <1>4, <1>5, <1>6
<1> QED BY <1>5, <1>6, <1>7 DEF Within

LEMMA EndWordSplits ==
  ASSUME LineInv, Splitting, Len(line) < BufSize, EndWord
  PROVE  Splitting'
<1>1. /\ at = "word" /\ at' = "outer" /\ mem' = [mem EXCEPT ![dst] = NUL] /\ dst' = dst + 1
      /\ UNCHANGED <<line, argv, single, double>>
      /\ mem[src] = NUL \/ (~Quoted /\ mem[src] \in Blanks)
      /\ src' = IF mem[src] = NUL THEN src ELSE src + 1
  BY DEF EndWord, Store
<1>2. /\ src \in Cells /\ src \in Nat /\ Len(line) \in Nat /\ src \in 1..Len(line) + 1
      /\ dst \in Nat \ {0} /\ dst <= src /\ argv \in Seq(Nat) /\ Len(argv) \in Nat
      /\ mem \in [Cells -> Chars \cup {NUL}]
  BY <1>1, SoFarIs, LenProperties DEF LineInv, Splitting, Behind
<1>3. /\ Within /\ Kept(SoFar.done, Len(argv) - 1) /\ Len(argv) > 0
      /\ Begun(argv[Len(argv)], SoFar.word) /\ argv[Len(argv)] + Len(SoFar.word) = dst
  BY <1>1 DEF Splitting, Within
<1>4. /\ dst \in Cells /\ mem'[dst] = NUL
      /\ \A i \in Nat \ {0} : i < dst => mem'[i] = mem[i]
  <2>1. dst \in Cells
    BY <1>2, LineAssumption DEF Cells
  <2>2. ASSUME NEW i \in Nat \ {0}, i < dst PROVE i \in Cells
    BY <1>2, <2>2, LineAssumption DEF Cells
  <2> QED BY <1>1, <1>2, <2>1, <2>2
<1>5. IsRead(SoFar) /\ SoFar.done \in Seq(Seq(Chars)) /\ SoFar.word \in Seq(Chars)
  BY SoFarIs, ReadIs
<1>6. PICK ws \in Seq(Seq(Chars)) : ws = SoFar.done
  BY <1>5
<1>7. PICK w \in Seq(Chars) : w = SoFar.word
  BY <1>5
<1>15. Len(argv) - 1 \in Nat
  <2>1. Len(argv) \in Nat /\ Len(argv) > 0
    BY <1>2, <1>3
  <2> QED BY <2>1
<1>8. PICK n \in Nat : n = Len(argv) - 1
  BY <1>15
<1>9. Kept(ws, n)'
  <2>1. dst \in Nat /\ dst' \in Nat /\ dst <= dst'
    BY <1>1, <1>2
  <2>2. Kept(ws, n) /\ \A k \in 1..n : argv'[k] = argv[k]
    BY <1>1, <1>3, <1>6, <1>8
  <2> QED BY <1>4, <2>1, <2>2, KeptStays
<1>10. Stored(argv[Len(argv)], w)'
  <2> DEFINE i == argv[Len(argv)]
  <2>1. i \in Nat \ {0} /\ (\A j \in 1..Len(w) : mem[i + j - 1] = w[j]) /\ i + Len(w) = dst
    BY <1>3, <1>7 DEF Begun
  <2>2. argv'[Len(argv')] = i
    BY <1>1
  <2> HIDE DEF i
  <2>3. \A j \in 1..Len(w) : mem'[i + j - 1] = w[j]
    <3> TAKE j \in 1..Len(w)
    <3>1. i + j - 1 \in Nat \ {0} /\ i + j - 1 < dst
      BY <2>1
    <3> QED BY <1>4, <2>1, <3>1
  <2>4. mem'[i + Len(w)] = NUL /\ i + Len(w) < dst'
    BY <1>1, <1>2, <1>4, <2>1
  <2> QED BY <2>1, <2>2, <2>3, <2>4 DEF Stored, Begun
<1>11. Kept(Append(ws, w), n + 1)'
  <2>1. /\ Len(Append(ws, w)) = Len(ws) + 1 /\ Append(ws, w)[Len(ws) + 1] = w
        /\ \A k \in 1..Len(ws) : Append(ws, w)[k] = ws[k]
    BY AppendsIs
  <2>2. Len(ws) = n /\ \A k \in 1..n : Stored(argv[k], ws[k])'
    BY <1>9 DEF Kept
  <2>3. n + 1 = Len(argv')
    BY <1>1, <1>2, <1>8
  <2>4. ASSUME NEW k \in 1..n + 1 PROVE Stored(argv[k], Append(ws, w)[k])'
    <3>1. CASE k = n + 1
      <4>1. Append(ws, w)[k] = w
        BY <2>1, <2>2, <3>1
      <4>2. Stored(argv[n + 1], w)'
        BY <1>10, <2>3
      <4> QED BY <3>1, <4>1, <4>2
    <3>2. CASE k \in 1..n
      BY <2>1, <2>2, <3>2
    <3>3. k = n + 1 \/ k \in 1..n
      OBVIOUS
    <3> QED BY <3>1, <3>2, <3>3
  <2> QED BY <2>1, <2>2, <2>4 DEF Kept
<1>12. n + 1 = Len(argv')
  BY <1>1, <1>2, <1>8
<1>13. CASE mem[src] = NUL
  <2>1. src' = src
    BY <1>1, <1>13
  <2>2. AtEnd /\ ~(src <= Len(line))
    <3>1. src > Len(line)
      BY <1>2, <1>13, AtSrc
    <3> QED BY <1>2, <3>1 DEF AtEnd
  <2>3. SoFar' = SoFar /\ AtEnd'
    BY <1>1, <2>1, <2>2 DEF SoFar, AtEnd
  <2>4. SoFar.in
    BY <1>3, <2>2 DEF Within
  <2>5. Around'
    <3>1. Append(ws, w) = Append(SoFar'.done, SoFar'.word)
      BY <1>6, <1>7, <2>3
    <3>2. Kept(Append(SoFar.done, SoFar.word), Len(argv))'
      BY <1>11, <1>12, <3>1
    <3> QED BY <2>3, <2>4, <3>2 DEF Around
  <2> QED BY <1>1, <2>1, <2>5 DEF Splitting
<1>14. CASE mem[src] # NUL
  <2>1. src' = src + 1 /\ ~single /\ ~double /\ mem[src] \in Blanks
    BY <1>1, <1>14 DEF Quoted
  <2>2. src <= Len(line) /\ line[src] \in Blanks
    BY <1>2, <1>14, <2>1, AtSrc
  <2>3. SoFar.in /\ SoFar.quote = "none"
    BY <1>3, <2>1, <2>2 DEF Within, Quote
  <2>4. Plain(SoFar, line[src]) = Between(Append(ws, w))
    BY <1>6, <1>7, <2>2, <2>3 DEF Plain
  <2>5. Reading(line')[src' - 1] = Between(Append(ws, w))
    BY <1>1, <2>1, <2>2, <2>4, NextRead
  <2>6. /\ SoFar' = Between(Append(ws, w)) /\ Reading(line')[src' - 1].esc = FALSE
    <3>1. Between(Append(ws, w)).esc = FALSE
      BY DEF Between
    <3> QED BY <2>5, <3>1 DEF SoFar, Settled
  <2>7. SoFar'.in = FALSE /\ SoFar'.done = Append(ws, w)
    <3>1. Between(Append(ws, w)).in = FALSE /\ Between(Append(ws, w)).done = Append(ws, w)
      BY DEF Between
    <3> QED BY <2>6, <3>1
  <2>8. Around'
    <3>1. Kept(SoFar.done, Len(argv))'
      BY <1>11, <1>12, <2>7
    <3> QED BY <2>7, <3>1 DEF Around
  <2>9. src' \in 1..Len(line') + 1
    BY <1>1, <2>1, <2>2, NextRead
  <2> QED BY <1>1, <2>6, <2>8, <2>9 DEF Splitting
<1> QED BY <1>13, <1>14

\* One character was read, and the word goes on.
LEMMA GoneOn ==
  ASSUME LineInv, Splitting, src <= Len(line), line' = line, src' = src + 1,
         NEW CONSTANT d, NEW CONSTANT w, NEW CONSTANT q,
         Plain(SoFar, line[src]) = InWord(d, w, q, FALSE)
  PROVE  /\ SoFar' = InWord(d, w, q, FALSE)
         /\ Reading(line')[src' - 1].esc = FALSE /\ src' \in 1..Len(line') + 1
<1>1. src + 1 \in 1..Len(line) + 1 /\ (src + 1) - 1 = src
  BY NextRead
<1>2. Reading(line)[src] = InWord(d, w, q, FALSE)
  BY NextRead
<1>3. Reading(line')[src' - 1] = InWord(d, w, q, FALSE)
  BY <1>1, <1>2
<1>4. InWord(d, w, q, FALSE).esc = FALSE
  BY DEF InWord
<1>5. SoFar' = InWord(d, w, q, FALSE)
  BY <1>3, <1>4 DEF SoFar, Settled
<1> QED BY <1>1, <1>3, <1>4, <1>5

LEMMA ToggleQuoteSplits ==
  ASSUME LineInv, Splitting, Len(line) < BufSize, ToggleQuote
  PROVE  Splitting'
<1>1. /\ at = "word" /\ at' = "word" /\ src' = src + 1
      /\ UNCHANGED <<line, mem, dst, argv>>
      /\ \/ mem[src] = APOS /\ ~double /\ single' = ~single /\ double' = double
         \/ mem[src] = QUOT /\ ~single /\ double' = ~double /\ single' = single
  BY DEF ToggleQuote
<1>2. /\ src \in Cells /\ src \in Nat /\ dst \in Nat /\ argv \in Seq(Nat)
      /\ single \in BOOLEAN /\ double \in BOOLEAN /\ Len(argv) <= ArgvCap
  BY SoFarIs DEF LineInv, Splitting
<1>3. /\ SoFar.quote = Quote /\ ~(single /\ double)
      /\ Begun(argv[Len(argv)], SoFar.word) /\ argv[Len(argv)] + Len(SoFar.word) = dst
  BY <1>1 DEF Splitting, Within
<1>4. src <= Len(line) /\ line[src] = mem[src]
  <2>1. mem[src] # NUL
    BY <1>1, CharsAreNotNUL
  <2>2. src <= Len(line)
    BY <1>2, <2>1, AtSrc
  <2> QED BY <1>2, <2>2, AtSrc
<1>5. PICK ch : ch = mem[src]
  OBVIOUS
<1>6. PICK q : q = IF SoFar.quote = ch THEN "none" ELSE ch
  OBVIOUS
<1>7. ch \in {APOS, QUOT} /\ ch \notin Blanks /\ SoFar.quote \in {"none", ch}
  <2>1. ch \in {APOS, QUOT}
    BY <1>1, <1>5
  <2>2. ch \notin Blanks
    BY <2>1 DEF APOS, QUOT, Blanks
  <2>3. SoFar.quote \in {"none", ch}
    BY <1>1, <1>3, <1>5 DEF Quote
  <2> QED BY <2>1, <2>2, <2>3
<1>8. q = Quote' /\ ~(single' /\ double') /\ single' \in BOOLEAN /\ double' \in BOOLEAN
  <2>1. CASE ch = APOS
    <3>1. ~double /\ single' = ~single /\ double' = double
      BY <1>1, <1>5, <2>1 DEF APOS, QUOT
    <3>2. SoFar.quote = IF single THEN APOS ELSE "none"
      BY <1>3, <3>1 DEF Quote
    <3>3. q = IF single THEN "none" ELSE APOS
      BY <1>6, <2>1, <3>2 DEF APOS
    <3> QED BY <1>2, <3>1, <3>3 DEF Quote
  <2>2. CASE ch = QUOT
    <3>1. ~single /\ double' = ~double /\ single' = single
      BY <1>1, <1>5, <2>2 DEF APOS, QUOT
    <3>2. SoFar.quote = IF double THEN QUOT ELSE "none"
      BY <1>3, <3>1 DEF Quote
    <3>3. q = IF double THEN "none" ELSE QUOT
      BY <1>6, <2>2, <3>2 DEF QUOT
    <3> QED BY <1>2, <3>1, <3>3 DEF Quote
  <2> QED BY <1>7, <2>1, <2>2
<1>9. PICK d, w : d = SoFar.done /\ w = SoFar.word
  OBVIOUS
<1>10. Plain(SoFar, line[src]) = InWord(d, w, q, FALSE)
  <2>1. Plain(SoFar, ch) = InWord(SoFar.done, SoFar.word, q, FALSE)
    BY <1>6, <1>7 DEF Plain
  <2> QED BY <1>4, <1>5, <1>9, <2>1
<1>11. /\ SoFar' = InWord(d, w, q, FALSE)
       /\ Reading(line')[src' - 1].esc = FALSE /\ src' \in 1..Len(line') + 1
  BY <1>1, <1>4, <1>10, GoneOn
<1>12. Begun(argv[Len(argv)], w)'
  BY <1>1, <1>3, <1>9 DEF Begun
<1>13. Within'
  <2>1. SoFar' = InWord(SoFar.done, w, q, FALSE) /\ line' = line /\ argv' = argv
    BY <1>1, <1>9, <1>11
  <2>2. /\ dst' \in Nat /\ dst <= dst' /\ argv[Len(argv)] + Len(w) = dst'
        /\ \A i \in Nat \ {0} : i < dst => mem'[i] = mem[i]
    BY <1>1, <1>2, <1>3, <1>9
  <2> QED BY <1>1, <1>8, <1>12, <2>1, <2>2, WithinGoes
<1> QED BY <1>1, <1>2, <1>8, <1>11, <1>13 DEF Splitting

\* A character is added to the word that is being stored.
LEMMA CopyGoes ==
  ASSUME LineInv, Splitting, CopyChar, NEW CONSTANT ch \in Chars,
         ch = IF Escaped THEN mem[src + 1] ELSE mem[src],
         SoFar' = InWord(SoFar.done, Append(SoFar.word, ch), SoFar.quote, FALSE)
  PROVE  Within'
<1>1. /\ at = "word" /\ dst' = dst + 1 /\ mem' = [mem EXCEPT ![dst] = ch]
      /\ UNCHANGED <<line, argv, single, double>>
  BY DEF CopyChar, Store
<1>2. /\ dst \in Nat \ {0} /\ dst \in Cells /\ mem \in [Cells -> Chars \cup {NUL}]
  <2>1. src \in Cells /\ dst <= src /\ dst \in Nat \ {0}
    BY <1>1 DEF LineInv, Behind
  <2> QED BY <2>1, LineAssumption DEF LineInv, Cells
<1>3. /\ SoFar.quote = Quote /\ ~(single /\ double)
      /\ Begun(argv[Len(argv)], SoFar.word) /\ argv[Len(argv)] + Len(SoFar.word) = dst
  BY <1>1 DEF Splitting, Within
<1>4. PICK v \in Seq(Chars) : v = SoFar.word
  BY SoFarIs, ReadIs
<1>5. PICK w \in Seq(Chars) : w = Append(v, ch)
  BY AppendsIs
<1>6. /\ Len(w) = Len(v) + 1 /\ Len(v) \in Nat /\ w[Len(v) + 1] = ch
      /\ \A k \in 1..Len(v) : w[k] = v[k]
  BY <1>5, AppendsIs
<1>7. PICK i \in Nat \ {0} : i = argv[Len(argv)]
  BY <1>3 DEF Begun
<1>8. (\A j \in 1..Len(v) : mem[i + j - 1] = v[j]) /\ i + Len(v) = dst
  BY <1>3, <1>4, <1>7 DEF Begun
<1>9. mem'[dst] = ch /\ \A k \in Nat \ {0} : k < dst => mem'[k] = mem[k]
  <2>1. ASSUME NEW k \in Nat \ {0}, k < dst PROVE k \in Cells
    BY <1>2, <2>1, LineAssumption DEF Cells
  <2> QED BY <1>1, <1>2, <2>1
<1>10. \A j \in 1..Len(w) : mem'[i + j - 1] = w[j]
  <2> TAKE j \in 1..Len(w)
  <2>1. CASE j = Len(v) + 1
    <3>1. i + j - 1 = dst
      BY <1>6, <1>8, <2>1
    <3> QED BY <1>6, <1>9, <2>1, <3>1
  <2>2. CASE j \in 1..Len(v)
    <3>1. i + j - 1 \in Nat \ {0} /\ i + j - 1 < dst
      BY <1>6, <1>8, <2>2
    <3>2. mem[i + j - 1] = v[j] /\ w[j] = v[j]
      BY <1>6, <1>8, <2>2
    <3> QED BY <1>9, <3>1, <3>2
  <2>3. j = Len(v) + 1 \/ j \in 1..Len(v)
    BY <1>6
  <2> QED BY <2>1, <2>2, <2>3
<1>11. argv'[Len(argv')] = i
  BY <1>1, <1>7
<1>12. Begun(argv[Len(argv)], w)'
  BY <1>10, <1>11 DEF Begun
<1>13. PICK q : q = SoFar.quote
  OBVIOUS
<1>14. SoFar' = InWord(SoFar.done, w, q, FALSE)
  BY <1>4, <1>5, <1>13
<1>15. q = Quote' /\ ~(single' /\ double')
  BY <1>1, <1>3, <1>13 DEF Quote
<1>16. dst' \in Nat /\ dst <= dst' /\ argv[Len(argv)] + Len(w) = dst'
  BY <1>1, <1>2, <1>6, <1>7, <1>8
<1> QED BY <1>1, <1>9, <1>12, <1>14, <1>15, <1>16, WithinGoes

LEMMA CopyCharSplits ==
  ASSUME LineInv, Splitting, Len(line) < BufSize, CopyChar
  PROVE  Splitting'
<1>1. /\ at = "word" /\ at' = "word" /\ mem[src] # NUL
      /\ ~(~Quoted /\ mem[src] \in Blanks)
      /\ ~(mem[src] = APOS /\ ~double) /\ ~(mem[src] = QUOT /\ ~single)
      /\ src' = IF Escaped THEN src + 2 ELSE src + 1
      /\ UNCHANGED <<line, argv, single, double>>
  BY DEF CopyChar
<1>2. /\ src \in Cells /\ src \in Nat /\ argv \in Seq(Nat) /\ Len(line) \in Nat
      /\ single \in BOOLEAN /\ double \in BOOLEAN /\ Len(argv) <= ArgvCap
  BY SoFarIs DEF LineInv, Splitting
<1>3. SoFar.quote = Quote /\ ~(single /\ double)
  BY <1>1 DEF Splitting, Within
<1>4. src <= Len(line) /\ line[src] = mem[src] /\ line[src] \in Chars
  <2>1. src <= Len(line)
    BY <1>1, <1>2, AtSrc
  <2> QED BY <1>2, <2>1, AtSrc
<1>5. src + 1 \in Cells /\ src + 1 >= src
  BY <1>1, <1>2, NotTheEnd
<1> SUFFICES /\ Within' /\ src' \in 1..Len(line') + 1
             /\ Reading(line')[src' - 1].esc /\ src' <= Len(line') =>
                  line'[src'] \notin Escapable
  BY <1>1, <1>2 DEF Splitting
<1>6. PICK d, v, q : d = SoFar.done /\ v = SoFar.word /\ q = SoFar.quote
  OBVIOUS
<1>7. CASE Escaped
  <2>1. ~single /\ mem[src] = BSL /\ mem[src + 1] \in Escapable
    BY <1>7 DEF Escaped
  <2>2. PICK ch : ch = mem[src + 1]
    OBVIOUS
  <2>3. ch \in Escapable /\ ch \in Chars /\ ch # NUL
    BY <2>1, <2>2, LineAssumption
  <2>4. src + 1 <= Len(line) /\ line[src + 1] = ch
    <3>1. src + 1 <= Len(line)
      BY <1>2, <1>5, <2>2, <2>3, AtSrc
    <3> QED BY <1>5, <2>2, <3>1, AtSrc
  <2>5. Reading(line)[src] = InWord(d, v, q, TRUE)
    <3>1. q # APOS
      BY <1>3, <1>6, <2>1 DEF Quote, APOS, QUOT
    <3>2. BSL \notin Blanks /\ BSL \notin {APOS, QUOT}
      BY DEF BSL, Blanks, APOS, QUOT
    <3>3. Plain(SoFar, BSL) = InWord(SoFar.done, SoFar.word, SoFar.quote, TRUE)
      BY <1>6, <3>1, <3>2 DEF Plain
    <3> QED BY <1>4, <1>6, <2>1, <3>3, NextRead
  <2>6. src + 1 \in 1..Len(line) /\ (src + 1) - 1 = src /\ src + 2 = (src + 1) + 1
    BY <1>2, <2>4
  <2>7. Reading(line)[src + 1] = InWord(d, Append(v, ch), q, FALSE)
    <3>1. Reading(line)[src + 1] = ReadChar(Reading(line)[src], ch)
      BY <2>4, <2>6, SoFarIs, ReadingSteps
    <3> DEFINE a == InWord(d, v, q, TRUE)
    <3>2. a.esc = TRUE /\ a.done = d /\ a.word = v /\ a.quote = q
      BY DEF InWord
    <3> HIDE DEF a
    <3>3. ReadChar(a, ch) = InWord(d, Append(v, ch), q, FALSE)
      BY <2>3, <3>2 DEF ReadChar, Put
    <3> QED BY <2>5, <3>1, <3>3 DEF a
  <2>8. Reading(line')[src' - 1] = InWord(d, Append(v, ch), q, FALSE)
    <3>1. src' - 1 = src + 1
      BY <1>1, <1>2, <1>7
    <3> QED BY <1>1, <2>7, <3>1
  <2>9. InWord(d, Append(v, ch), q, FALSE).esc = FALSE
    BY DEF InWord
  <2>10. SoFar' = InWord(d, Append(v, ch), q, FALSE)
    BY <2>8, <2>9 DEF SoFar, Settled
  <2>11. Within'
    <3>1. SoFar' = InWord(SoFar.done, Append(SoFar.word, ch), SoFar.quote, FALSE)
      BY <1>6, <2>10
    <3> QED BY <1>7, <2>2, <2>3, <3>1, CopyGoes
  <2>12. src' \in 1..Len(line') + 1
    BY <1>1, <1>2, <1>7, <2>6
  <2> QED BY <2>8, <2>9, <2>11, <2>12
<1>8. CASE ~Escaped /\ mem[src] = BSL /\ ~single
  <2>1. Plain(SoFar, BSL) = InWord(d, v, q, TRUE)
    <3>1. q # APOS
      BY <1>3, <1>6, <1>8 DEF Quote, APOS, QUOT
    <3>2. BSL \notin Blanks /\ BSL \notin {APOS, QUOT}
      BY DEF BSL, Blanks, APOS, QUOT
    <3>3. Plain(SoFar, BSL) = InWord(SoFar.done, SoFar.word, SoFar.quote, TRUE)
      BY <1>6, <3>1, <3>2 DEF Plain
    <3> QED BY <1>6, <3>3
  <2>2. /\ Reading(line)[src] = InWord(d, v, q, TRUE)
        /\ src + 1 \in 1..Len(line) + 1 /\ (src + 1) - 1 = src
    BY <1>4, <1>8, <2>1, NextRead
  <2>3. src' = src + 1
    BY <1>1, <1>8
  <2>4. Reading(line')[src' - 1] = InWord(d, v, q, TRUE)
    BY <1>1, <2>2, <2>3
  <2>5. SoFar' = InWord(d, Append(v, BSL), q, FALSE)
    <3> DEFINE a == InWord(d, v, q, TRUE)
    <3>1. a.esc = TRUE /\ a.done = d /\ a.word = v /\ a.quote = q
      BY DEF InWord
    <3> HIDE DEF a
    <3>2. Settled(a) = InWord(d, Append(v, BSL), q, FALSE)
      BY <3>1 DEF Settled, Put
    <3> QED BY <2>4, <3>2 DEF SoFar, a
  <2>6. Within'
    <3>1. SoFar' = InWord(SoFar.done, Append(SoFar.word, BSL), SoFar.quote, FALSE)
      BY <1>6, <2>5
    <3> QED BY <1>8, <3>1, BackslashIsChar, CopyGoes
  <2>7. ASSUME src' <= Len(line') PROVE line'[src'] \notin Escapable
    <3>1. mem[src + 1] \notin Escapable
      BY <1>8 DEF Escaped
    <3>2. src + 1 <= Len(line)
      BY <1>1, <2>3, <2>7
    <3>3. mem[src + 1] = line[src + 1]
      BY <1>5, <3>2, AtSrc
    <3> QED BY <1>1, <2>3, <3>1, <3>3
  <2>8. src' \in 1..Len(line') + 1
    BY <1>1, <2>2, <2>3
  <2> QED BY <2>6, <2>7, <2>8
<1>9. CASE ~Escaped /\ ~(mem[src] = BSL /\ ~single)
  <2>1. PICK ch \in Chars : ch = mem[src]
    BY <1>4
  <2>2. ~(q = "none" /\ ch \in Blanks)
    <3>1. q = "none" => ~single /\ ~double
      BY <1>3, <1>6 DEF Quote, APOS, QUOT
    <3> QED BY <1>1, <2>1, <3>1 DEF Quoted
  <2>3. ~(ch \in {APOS, QUOT} /\ q \in {"none", ch})
    <3>1. ch = APOS => double /\ q = QUOT
      BY <1>1, <1>3, <1>6, <2>1 DEF Quote
    <3>2. ch = QUOT => single /\ q = APOS
      BY <1>1, <1>3, <1>6, <2>1 DEF Quote
    <3> QED BY <3>1, <3>2 DEF APOS, QUOT
  <2>4. ~(ch = BSL /\ q # APOS)
    BY <1>3, <1>6, <1>9, <2>1 DEF Quote
  <2>5. Plain(SoFar, ch) = Put(SoFar, ch)
    BY <1>6, <2>2, <2>3, <2>4 DEF Plain
  <2>6. Plain(SoFar, line[src]) = InWord(d, Append(v, ch), q, FALSE)
    BY <1>4, <1>6, <2>1, <2>5 DEF Put
  <2>7. src' = src + 1
    BY <1>1, <1>9
  <2>8. /\ SoFar' = InWord(d, Append(v, ch), q, FALSE)
        /\ Reading(line')[src' - 1].esc = FALSE /\ src' \in 1..Len(line') + 1
    BY <1>1, <1>4, <2>6, <2>7, GoneOn
  <2>9. Within'
    <3>1. SoFar' = InWord(SoFar.done, Append(SoFar.word, ch), SoFar.quote, FALSE)
      BY <1>6, <2>8
    <3> QED BY <1>9, <2>1, <3>1, CopyGoes
  <2> QED BY <2>8, <2>9
<1> QED BY <1>7, <1>8, <1>9

LEMMA StartSplits ==
  ASSUME NEW l \in Seq(Chars), Start(l), LineInv'
  PROVE  Splitting'
<1>1. /\ line' = l /\ src' = 1 /\ argv' = <<>> /\ at' = "outer"
      /\ single' = FALSE /\ double' = FALSE
  BY DEF Start
<1>2. Len(l) \in Nat /\ 1 - 1 = 0 /\ 1 \in 1..Len(l) + 1
  BY LenProperties
<1>3. Reading(line')[src' - 1] = Between(<<>>)
  BY <1>1, <1>2, ReadingSteps
<1>4. Between(<<>>).esc = FALSE /\ Between(<<>>).in = FALSE /\ Between(<<>>).done = <<>>
  BY DEF Between
<1>5. SoFar' = Between(<<>>)
  BY <1>3, <1>4 DEF SoFar, Settled
<1>6. Len(<<>>) = 0 /\ 1..0 = {}
  OBVIOUS
<1>7. Around'
  BY <1>1, <1>4, <1>5, <1>6 DEF Around, Kept
<1>8. argv' \in Seq(Nat) /\ Len(argv') <= ArgvCap
  BY <1>1, <1>6, EmptySeq, LineAssumption
<1> QED BY <1>1, <1>2, <1>3, <1>4, <1>7, <1>8 DEF Splitting

\* The words are stored as they are read, whatever the lines are.
THEOREM WordInvHolds == LineSpec => []WordInv
<1>1. LineInit => WordInv
  BY DEF LineInit, WordInv
<1>2. LineInv /\ LineInv' /\ WordInv /\ [LineNext]_lineVars => WordInv'
  <2> SUFFICES ASSUME LineInv, LineInv', WordInv, [LineNext]_lineVars,
                      (Len(line) < BufSize)', (at # "idle")'
               PROVE  Splitting'
    BY DEF WordInv
  <2>1. CASE ParseStep
    <3>1. at # "idle" /\ line' = line
      BY <2>1 DEF ParseStep, SkipBlank, EndParse, BeginWord, EndWord,
         ToggleQuote, CopyChar
    <3>2. Splitting /\ Len(line) < BufSize
      BY <3>1 DEF WordInv
    <3> QED BY <2>1, <3>2, SkipBlankSplits, EndParseSplits, BeginWordSplits,
              EndWordSplits, ToggleQuoteSplits, CopyCharSplits DEF ParseStep
  <2>2. CASE \E l \in Seq(Chars) : Start(l)
    BY <2>2, StartSplits
  <2>3. CASE Clear
    BY <2>3 DEF Clear
  <2>4. CASE UNCHANGED lineVars
    <3>1. Splitting
      BY <2>4 DEF WordInv, lineVars
    <3> QED BY <2>4, <3>1, SMTT(40) DEF lineVars, Splitting, Within, Around, AtEnd,
               SoFar, Quote,
              Kept, Stored, Begun
  <2> QED BY <2>1, <2>2, <2>3, <2>4 DEF LineNext
<1> QED BY <1>1, <1>2, LineInvHolds, PTL DEF LineSpec

\* A word that is stored is the string at its place.
LEMMA StoredIs ==
  ASSUME LineInv, NEW CONSTANT i, NEW CONSTANT w, Stored(i, w), dst <= BufSize + 1
  PROVE  StringAt(i) = w
<1>1. /\ i \in Nat \ {0} /\ w \in Seq(Chars) /\ i + Len(w) < dst
      /\ \A j \in 1..Len(w) : mem[i + j - 1] = w[j]
      /\ mem[i + Len(w)] = NUL
  BY DEF Stored, Begun
<1>2. Len(w) \in 0..BufSize /\ Len(w) \in Nat
  BY <1>1, LenProperties, LineAssumption DEF LineInv
<1>3. \A k \in 0..Len(w) - 1 : mem[i + k] # NUL
  <2> TAKE k \in 0..Len(w) - 1
  <2>1. k + 1 \in 1..Len(w) /\ i + (k + 1) - 1 = i + k
    BY <1>1, <1>2
  <2>2. w[k + 1] \in Chars /\ mem[i + (k + 1) - 1] = w[k + 1]
    BY <1>1, <2>1
  <2> QED BY <2>1, <2>2, LineAssumption
<1> DEFINE IsLen(n) == mem[i + n] = NUL /\ \A k \in 0..n - 1 : mem[i + k] # NUL
           len == CHOOSE n \in 0..BufSize : IsLen(n)
<1>4. IsLen(Len(w))
  BY <1>1, <1>3
<1>5. ASSUME NEW n \in 0..BufSize, IsLen(n) PROVE n = Len(w)
  <2>1. ~(n < Len(w))
    <3> SUFFICES ASSUME n < Len(w) PROVE FALSE
      OBVIOUS
    <3>1. n \in 0..Len(w) - 1
      BY <1>2
    <3> QED BY <1>3, <1>5, <3>1
  <2>2. ~(Len(w) < n)
    <3> SUFFICES ASSUME Len(w) < n PROVE FALSE
      OBVIOUS
    <3>1. Len(w) \in 0..n - 1
      BY <1>2
    <3> QED BY <1>1, <1>5, <3>1
  <2> QED BY <1>2, <2>1, <2>2
<1> HIDE DEF IsLen
<1>6. len = Len(w)
  BY <1>2, <1>4, <1>5
<1>7. StringAt(i) = [k \in 1..len |-> mem[i + k - 1]]
  BY DEF StringAt, IsLen
<1> HIDE DEF len
<1>8. [k \in 1..Len(w) |-> mem[i + k - 1]] = w
  <2>1. w = [k \in 1..Len(w) |-> w[k]]
    BY <1>1
  <2> QED BY <1>1, <2>1
<1> QED BY <1>6, <1>7, <1>8

LEMMA DoneIs ==
  ASSUME LineInv, Splitting, at = "done"
  PROVE  \/ Kept(Words(line), Len(argv))
         \/ /\ Len(argv) = ArgvCap /\ Kept(SoFar.done, Len(argv))
            /\ Extends(Words(line), SoFar.done)
<1>1. /\ line \in Seq(Chars) /\ Len(line) \in Nat /\ src - 1 \in 0..Len(line) /\ src \in Nat
  <2>1. line \in Seq(Chars) /\ Len(line) \in Nat /\ src \in Nat
    BY SoFarIs
  <2>2. src \in 1..Len(line) + 1
    BY DEF Splitting
  <2> QED BY <2>1, <2>2
<1>2. SoFar.done = Reading(line)[src - 1].done
  BY <1>1, SoFarIs, SettledIs DEF SoFar
<1>3. Extends(Words(line), SoFar.done)
  BY <1>1, <1>2, DoneStays
<1>4. Around /\ (AtEnd \/ Len(argv) = ArgvCap)
  BY DEF Splitting
<1>5. CASE AtEnd
  <2>1. src - 1 = Len(line)
    BY <1>1, <1>5 DEF AtEnd
  <2>2. Words(line) = IF SoFar.in THEN Append(SoFar.done, SoFar.word) ELSE SoFar.done
    BY <2>1 DEF Words, SoFar
  <2> QED BY <1>4, <2>2 DEF Around
<1>6. CASE ~AtEnd
  BY <1>3, <1>4, <1>6 DEF Around
<1> QED BY <1>5, <1>6

LEMMA WordsTyped ==
  ASSUME NEW l \in Seq(Chars) PROVE Words(l) \in Seq(Seq(Chars))
<1>1. Len(l) \in 0..Len(l)
  BY LenProperties
<1>2. IsRead(Settled(Reading(l)[Len(l)]))
  BY <1>1, ReadingIs, SettledIs
<1> DEFINE e == Settled(Reading(l)[Len(l)])
<1>3. e.done \in Seq(Seq(Chars)) /\ e.word \in Seq(Chars)
  BY <1>2, ReadIs
<1>4. Append(e.done, e.word) \in Seq(Seq(Chars))
  BY <1>3, AppendsIs
<1> QED BY <1>3, <1>4 DEF Words

\* The words the shell runs are the ones that were typed, for every line that
\* fits the buffer: quotes, escapes and the room of argv included (parse_argv).
THEOREM WordsAlwaysStored == LineSpec => [](Len(line) < BufSize => WordsAsTyped)
<1>1. LineInv /\ WordInv => (Len(line) < BufSize => WordsAsTyped)
  <2> SUFFICES ASSUME LineInv, WordInv, Len(line) < BufSize, at = "done"
               PROVE  Argv = SubSeq(Words(line), 1,
                        IF Len(Words(line)) <= ArgvCap THEN Len(Words(line)) ELSE ArgvCap)
    BY DEF WordsAsTyped
  <2>1. Splitting
    BY DEF WordInv
  <2>2. PICK W \in Seq(Seq(Chars)) : W = Words(line)
    BY WordsTyped DEF LineInv
  <2>3. argv \in Seq(Nat) /\ Len(argv) <= ArgvCap
    BY <2>1 DEF Splitting
  <2>4. PICK n \in Nat : n = Len(argv)
    BY <2>3, LenProperties
  <2>5. Len(W) \in Nat
    BY LenProperties
  <2>6. PICK ws : /\ Kept(ws, n) /\ \A k \in 1..n : ws[k] = W[k]
                  /\ n <= Len(W) /\ (Len(W) = n \/ n = ArgvCap)
    <3>1. CASE Kept(W, n)
      <4>1. Len(W) = n
        BY <3>1 DEF Kept
      <4> QED BY <2>5, <3>1, <4>1
    <3>2. CASE n = ArgvCap /\ Kept(SoFar.done, n) /\ Extends(W, SoFar.done)
      <4>1. Len(SoFar.done) = n
        BY <3>2 DEF Kept
      <4>2. n <= Len(W) /\ \A k \in 1..n : SoFar.done[k] = W[k]
        BY <3>2, <4>1 DEF Extends
      <4> QED BY <3>2, <4>2
    <3> QED BY <2>1, <2>2, <2>4, <3>1, <3>2, DoneIs
  <2>7. n = IF Len(W) <= ArgvCap THEN Len(W) ELSE ArgvCap
    BY <2>3, <2>4, <2>5, <2>6, LineAssumption
  <2>8. dst <= BufSize + 1
    BY LineAssumption DEF LineInv, Behind, Cells
  <2>9. \A k \in 1..n : StringAt(argv[k]) = W[k]
    <3> TAKE k \in 1..n
    <3>1. PICK i, w : i = argv[k] /\ w = ws[k]
      OBVIOUS
    <3>2. Stored(i, w)
      BY <2>6, <3>1 DEF Kept
    <3>3. StringAt(i) = w
      BY <2>8, <3>2, StoredIs
    <3> QED BY <2>6, <3>1, <3>3
  <2>10. Argv = [k \in 1..n |-> W[k]]
    BY <2>4, <2>9 DEF Argv
  <2>11. SubSeq(W, 1, n) = [k \in 1..n |-> W[k]]
    BY <2>5, <2>6
  <2> QED BY <2>2, <2>7, <2>10, <2>11
<1> QED BY <1>1, LineInvHolds, WordInvHolds, PTL
-----------------------------------------------------------------------------
(* The shell. *)

LEMMA CommandClears ==
  ASSUME RunLine
  PROVE  Clear
BY DEF RunLine, RunCd, CdGo, OnPath, RunLs, RunCat, RunWrite, RunRm, RunMkdir,
       RunRmdir, RunPasswd, RunLogout, RunOther, WrongUsage, NotFound, Refuse

LEMMA LinesAreChars ==
  ASSUME Type, setup \in DOMAIN Setups
  PROVE  \E l \in Seq(Chars) : Start(l)
BY ShellAssumption DEF Type

\* The shell runs one of its setups.
LEMMA SetupStays == Spec => [](setup \in DOMAIN Setups)
<1>1. Init => setup \in DOMAIN Setups
  BY DEF Init
<1>2. [Next]_vars => setup' = setup
  BY DEF Next, Type, Parse, Login, RunLine, RunCd, CdGo, OnPath, RunLs, RunCat,
         RunWrite, RunRm, RunMkdir, RunRmdir, RunPasswd, RunLogout, RunOther,
         WrongUsage, NotFound, Refuse, vars, shellVars, world
<1>3. ASSUME setup \in DOMAIN Setups, [Next]_vars
      PROVE  (setup \in DOMAIN Setups)'
  <2>1. setup' = setup
    BY <1>2, <1>3
  <2> QED BY <1>3, <2>1
<1> QED BY <1>1, <1>3, PTL DEF Spec

\* The shell implements the parser.
THEOREM ShellSplitsLines == Spec => LineSpec
<1>1. Init => LineInit
  BY DEF Init
<1>2. ASSUME setup \in DOMAIN Setups, [Next]_vars
      PROVE  [LineNext]_lineVars
  <2>1. CASE Type
    BY <1>2, <2>1, LinesAreChars DEF LineNext
  <2>2. CASE Parse
    BY <2>2 DEF Parse, LineNext
  <2>3. CASE RunLine
    BY <2>3, CommandClears DEF LineNext
  <2>4. CASE \E u \in DOMAIN Homes : Login(u)
    BY <2>4 DEF Login
  <2>5. CASE UNCHANGED vars
    BY <2>5 DEF vars
  <2> QED BY <1>2, <2>1, <2>2, <2>3, <2>4, <2>5 DEF Next
<1> QED BY <1>1, <1>2, SetupStays, PTL DEF Spec, LineSpec

\* A command line is split inside its buffer, and nothing of it is overwritten
\* before it is read, whatever lines are typed (parse_argv, run_buffer).
THEOREM ShellInPlace == Spec => []InPlace
BY ShellSplitsLines, AlwaysInPlace, PTL

\* The line editor takes INPUT_MAX - 1 characters: a line fits the buffer.
LEMMA LinesFit == Spec => [](Len(line) < BufSize)
<1>1. Init => Len(line) < BufSize
  BY LineAssumption DEF Init, LineInit
<1>2. ASSUME setup \in DOMAIN Setups, Len(line) < BufSize, [Next]_vars
      PROVE  (Len(line) < BufSize)'
  <2>1. CASE Type
    BY <1>2, <2>1, ShellAssumption DEF Type, Start
  <2>2. CASE Parse
    BY <1>2, <2>2 DEF Parse, ParseStep, SkipBlank, EndParse, BeginWord,
       EndWord,
         ToggleQuote, CopyChar
  <2>3. CASE RunLine
    BY <2>3, CommandClears, LineAssumption DEF Clear
  <2>4. CASE \E u \in DOMAIN Homes : Login(u)
    BY <1>2, <2>4 DEF Login, lineVars
  <2>5. CASE UNCHANGED vars
    BY <1>2, <2>5 DEF vars, lineVars
  <2> QED BY <1>2, <2>1, <2>2, <2>3, <2>4, <2>5 DEF Next
<1> QED BY <1>1, <1>2, SetupStays, PTL DEF Spec

\* The words the shell runs are the ones that were typed, as many as argv has
\* room for, whatever lines are typed one after another (parse_argv, run_buffer).
THEOREM ShellWordsAsTyped == Spec => []WordsAsTyped
BY ShellSplitsLines, LinesFit, WordsAlwaysStored, PTL
-----------------------------------------------------------------------------
(* Paths and the text of the current directory. *)

\* Where segments lead is found one segment after another.
LEMMA StopsSteps ==
  ASSUME NEW d, NEW segs, Len(segs) \in Nat
  PROVE  /\ Stops(d, segs)[0] = d
         /\ \A n \in 1..Len(segs) :
              Stops(d, segs)[n] = Into(Stops(d, segs)[n - 1], segs[n])
<1> DEFINE N == Len(segs)
           Now(k, g) == IF k = 0 THEN d ELSE Into(g[k - 1], segs[k])
           Sound(n, g) == /\ g = [k \in 0..n |-> g[k]]
                          /\ \A k \in 0..n : g[k] = Now(k, g)
           T == {n \in Nat : \E g : Sound(n, g)}
<1>1. 0 \in T
  <2> DEFINE g == [k \in 0..0 |-> d]
  <2>1. g[0] = d /\ \A k \in 0..0 : k = 0
    OBVIOUS
  <2>2. g = [k \in 0..0 |-> g[k]]
    OBVIOUS
  <2> HIDE DEF g
  <2>3. Sound(0, g)
    BY <2>1, <2>2
  <2> QED BY <2>3
<1>2. ASSUME NEW n \in Nat, n \in T PROVE n + 1 \in T
  <2>1. PICK g : Sound(n, g)
    BY <1>2
  <2> DEFINE x == Into(g[n], segs[n + 1])
             h == [k \in 0..n + 1 |-> IF k = n + 1 THEN x ELSE g[k]]
  <2> HIDE DEF x
  <2>2. \A k \in 0..n : h[k] = g[k]
    OBVIOUS
  <2>3. h[n + 1] = x
    OBVIOUS
  <2>4. h = [k \in 0..n + 1 |-> h[k]]
    OBVIOUS
  <2> HIDE DEF h
  <2>5. x = Into(h[n], segs[n + 1])
    <3>1. h[n] = g[n]
      BY <2>2
    <3> QED BY <3>1 DEF x
  <2>6. ASSUME NEW k \in 0..n + 1 PROVE h[k] = Now(k, h)
    <3>1. CASE k = n + 1
      <4>1. k # 0 /\ k - 1 = n
        BY <3>1
      <4> QED BY <3>1, <4>1, <2>3, <2>5
    <3>2. CASE k \in 0..n
      <4>1. g[k] = Now(k, g)
        BY <2>1, <3>2
      <4>2. k # 0 => h[k - 1] = g[k - 1]
        BY <2>2, <3>2
      <4>3. h[k] = g[k]
        BY <2>2, <3>2
      <4>4. CASE k = 0
        BY <4>1, <4>3, <4>4
      <4>5. CASE k # 0
        BY <4>1, <4>2, <4>3, <4>5
      <4> QED BY <4>4, <4>5
    <3> QED BY <3>1, <3>2
  <2> HIDE DEF Now
  <2>7. Sound(n + 1, h)
    BY <2>4, <2>6
  <2> HIDE DEF Sound
  <2> QED BY <2>7
<1> HIDE DEF T
<1>3. \A n \in Nat : n \in T
  BY <1>1, <1>2, NatSetInduction
<1>4. PICK g : Sound(N, g)
  BY <1>3 DEF T
<1>5. g = [k \in 0..N |-> Now(k, g)]
  <2> HIDE DEF Now
  <2> QED BY <1>4
<1> DEFINE C == CHOOSE c : c = [k \in 0..N |-> Now(k, c)]
<1>6. C = [k \in 0..N |-> Now(k, C)]
  <2> HIDE DEF Now
  <2> QED BY <1>5
<1>7. Stops(d, segs) = C
  BY DEF Stops
<1> HIDE DEF C, N, Now
<1>8. C[0] = d
  <2>1. C[0] = Now(0, C)
    BY <1>6 DEF N
  <2> QED BY <2>1 DEF Now
<1>9. ASSUME NEW n \in 1..N PROVE C[n] = Into(C[n - 1], segs[n])
  <2>1. n \in 0..N /\ n # 0
    BY DEF N
  <2>2. C[n] = Now(n, C)
    BY <1>6, <2>1
  <2> QED BY <2>1, <2>2 DEF Now
<1> QED BY <1>7, <1>8, <1>9 DEF N

LEMMA TextLensSteps ==
  ASSUME NEW segs, Len(segs) \in Nat
  PROVE  /\ TextLens(segs)[0] = 0
         /\ \A n \in 1..Len(segs) :
              TextLens(segs)[n] = TextLens(segs)[n - 1] + 1 + Len(segs[n])
<1> DEFINE N == Len(segs)
           Now(k, g) == IF k = 0 THEN 0 ELSE g[k - 1] + 1 + Len(segs[k])
           Sound(n, g) == /\ g = [k \in 0..n |-> g[k]]
                          /\ \A k \in 0..n : g[k] = Now(k, g)
           T == {n \in Nat : \E g : Sound(n, g)}
<1>1. 0 \in T
  <2> DEFINE g == [k \in 0..0 |-> 0]
  <2>1. g[0] = 0 /\ \A k \in 0..0 : k = 0
    OBVIOUS
  <2>2. g = [k \in 0..0 |-> g[k]]
    OBVIOUS
  <2> HIDE DEF g
  <2>3. Sound(0, g)
    BY <2>1, <2>2
  <2> QED BY <2>3
<1>2. ASSUME NEW n \in Nat, n \in T PROVE n + 1 \in T
  <2>1. PICK g : Sound(n, g)
    BY <1>2
  <2> DEFINE x == g[n] + 1 + Len(segs[n + 1])
             h == [k \in 0..n + 1 |-> IF k = n + 1 THEN x ELSE g[k]]
  <2> HIDE DEF x
  <2>2. \A k \in 0..n : h[k] = g[k]
    OBVIOUS
  <2>3. h[n + 1] = x
    OBVIOUS
  <2>4. h = [k \in 0..n + 1 |-> h[k]]
    OBVIOUS
  <2> HIDE DEF h
  <2>5. x = h[n] + 1 + Len(segs[n + 1])
    <3>1. h[n] = g[n]
      BY <2>2
    <3> QED BY <3>1 DEF x
  <2>6. ASSUME NEW k \in 0..n + 1 PROVE h[k] = Now(k, h)
    <3>1. CASE k = n + 1
      <4>1. k # 0 /\ k - 1 = n
        BY <3>1
      <4> QED BY <3>1, <4>1, <2>3, <2>5
    <3>2. CASE k \in 0..n
      <4>1. g[k] = Now(k, g)
        BY <2>1, <3>2
      <4>2. k # 0 => h[k - 1] = g[k - 1]
        BY <2>2, <3>2
      <4>3. h[k] = g[k]
        BY <2>2, <3>2
      <4>4. CASE k = 0
        BY <4>1, <4>3, <4>4
      <4>5. CASE k # 0
        BY <4>1, <4>2, <4>3, <4>5
      <4> QED BY <4>4, <4>5
    <3> QED BY <3>1, <3>2
  <2> HIDE DEF Now
  <2>7. Sound(n + 1, h)
    BY <2>4, <2>6
  <2> HIDE DEF Sound
  <2> QED BY <2>7
<1> HIDE DEF T
<1>3. \A n \in Nat : n \in T
  BY <1>1, <1>2, NatSetInduction
<1>4. PICK g : Sound(N, g)
  BY <1>3 DEF T
<1>5. g = [k \in 0..N |-> Now(k, g)]
  <2> HIDE DEF Now
  <2> QED BY <1>4
<1> DEFINE C == CHOOSE c : c = [k \in 0..N |-> Now(k, c)]
<1>6. C = [k \in 0..N |-> Now(k, C)]
  <2> HIDE DEF Now
  <2> QED BY <1>5
<1>7. TextLens(segs) = C
  BY DEF TextLens
<1> HIDE DEF C, N, Now
<1>8. C[0] = 0
  <2>1. C[0] = Now(0, C)
    BY <1>6 DEF N
  <2> QED BY <2>1 DEF Now
<1>9. ASSUME NEW n \in 1..N PROVE C[n] = C[n - 1] + 1 + Len(segs[n])
  <2>1. n \in 0..N /\ n # 0
    BY DEF N
  <2>2. C[n] = Now(n, C)
    BY <1>6, <2>1
  <2> QED BY <2>1, <2>2 DEF Now
<1> QED BY <1>7, <1>8, <1>9 DEF N
-----------------------------------------------------------------------------
(* Names. *)

\* A name as the text keeps it: what an 8.3 name may be, in upper case.
GoodName ==
  {s \in Segment : /\ s \notin {Dot, DotDot} /\ Is83(s)
                   /\ Upper(s) = s /\ Len(s) <= NameMax}
\* The names on the disk of the directory a text names.
Real(t) == [i \in DOMAIN t |-> Name83(t[i])]

LEMMA DotsAreSegments ==
  /\ Dot \in Segment /\ DotDot \in Segment
  /\ DOT \in Letters /\ "A" \in Letters /\ DOT # "a" /\ DOT # "A" /\ "A" # "a"
  /\ Len(Dot) = 1 /\ Dot[1] = DOT
  /\ Len(DotDot) = 2 /\ DotDot[1] = DOT /\ DotDot[2] = DOT
BY ShellAssumption DEF Segment, Dot, DotDot, DOT

LEMMA SegmentIs ==
  ASSUME NEW s \in Segment
  PROVE  /\ s \in Seq(Letters) /\ Len(s) \in Nat \ {0} /\ DOMAIN s = 1..Len(s)
         /\ \A i \in 1..Len(s) : s[i] \in Letters
         /\ s = [i \in 1..Len(s) |-> s[i]]
BY EmptySeq DEF Segment

LEMMA UpperIs ==
  ASSUME NEW s \in Segment
  PROVE  /\ Upper(s) \in Segment /\ Len(Upper(s)) = Len(s)
         /\ DOMAIN Upper(s) = DOMAIN s
         /\ \A i \in 1..Len(s) : /\ Upper(s)[i] = DOT <=> s[i] = DOT
                                 /\ Upper(s)[i] # "a"
         /\ Upper(Upper(s)) = Upper(s)
<1>1. /\ Len(s) \in Nat \ {0} /\ DOMAIN s = 1..Len(s)
      /\ \A i \in 1..Len(s) : s[i] \in Letters
  BY SegmentIs
<1> DEFINE u == Upper(s)
           n == Len(s)
<1>2. /\ u = [i \in 1..n |-> u[i]] /\ DOMAIN u = 1..n
      /\ \A i \in 1..n : u[i] = IF s[i] = "a" THEN "A" ELSE s[i]
  BY <1>1 DEF Upper
<1> HIDE DEF u
<1>3. \A i \in 1..n : u[i] \in Letters
  BY <1>1, <1>2, DotsAreSegments
<1> HIDE DEF n
<1>4. u \in Seq(Letters) /\ Len(u) = n
  BY <1>1, <1>2, <1>3 DEF n
<1>5. u # <<>>
  BY <1>1, <1>4 DEF n
<1>6. u \in Segment
  BY <1>4, <1>5 DEF Segment
<1>7. \A i \in 1..n : (u[i] = DOT <=> s[i] = DOT) /\ u[i] # "a"
  BY <1>2, DotsAreSegments
<1>8. Upper(u) = [i \in 1..n |-> u[i]]
  BY <1>2, <1>7 DEF Upper
<1> QED BY <1>1, <1>2, <1>4, <1>6, <1>7, <1>8 DEF u, n

LEMMA UpperDots ==
  ASSUME NEW s \in Segment
  PROVE  /\ Upper(s) = Dot <=> s = Dot
         /\ Upper(s) = DotDot <=> s = DotDot
<1>1. /\ s = [i \in 1..Len(s) |-> s[i]] /\ Len(s) \in Nat
      /\ Upper(s) = [i \in 1..Len(s) |-> Upper(s)[i]]
      /\ Len(Upper(s)) = Len(s)
      /\ \A i \in 1..Len(s) : Upper(s)[i] = DOT <=> s[i] = DOT
  BY SegmentIs, UpperIs
<1>2. \A t \in Segment : /\ t = Dot <=> Len(t) = 1 /\ t[1] = DOT
                         /\ t = DotDot <=> Len(t) = 2 /\ t[1] = DOT /\ t[2] = DOT
  BY DEF Dot, DotDot, Segment
<1>3. Upper(s) \in Segment
  BY UpperIs
<1>4. Len(s) >= 1 => 1 \in 1..Len(s)
  BY <1>1
<1>5. Len(s) >= 2 => 2 \in 1..Len(s)
  BY <1>1
<1> QED BY <1>1, <1>2, <1>3, <1>4, <1>5, SMTT(40)

LEMMA UpperIs83 ==
  ASSUME NEW s \in Segment
  PROVE  Is83(Upper(s)) = Is83(s)
<1> DEFINE dots == {i \in DOMAIN s : s[i] = DOT}
<1>1. {i \in DOMAIN Upper(s) : Upper(s)[i] = DOT} = dots
  BY UpperIs, SegmentIs
<1>2. Len(Upper(s)) = Len(s)
  BY UpperIs
<1> QED BY <1>1, <1>2 DEF Is83

LEMMA UpperName83 ==
  ASSUME NEW s \in Segment
  PROVE  Name83(Upper(s)) = Name83(s)
<1>1. Len(Upper(s)) = Len(s) /\ Len(s) \in 1..Len(s)
  BY UpperIs, SegmentIs
<1>2. Last(Upper(s)) = DOT <=> Last(s) = DOT
  BY <1>1, UpperIs DEF Last
<1>3. Upper(Upper(s)) = Upper(s)
  BY UpperIs
<1> QED BY <1>2, <1>3 DEF Name83

\* A name has one dot at most.
LEMMA OneDot ==
  ASSUME NEW s \in Segment, Is83(s),
         NEW i \in 1..Len(s), NEW j \in 1..Len(s), s[i] = DOT, s[j] = DOT
  PROVE  i = j
<1> DEFINE dots == {k \in DOMAIN s : s[k] = DOT}
<1>1. dots \subseteq 1..Len(s) /\ i \in dots /\ j \in dots /\ Len(s) \in Nat
  BY SegmentIs
<1>2. IsFiniteSet(dots)
  <2>1. IsFiniteSet(1..Len(s))
    BY <1>1, FS_Interval
  <2> QED BY <1>1, <2>1, FS_Subset
<1>3. Cardinality(dots) <= 1
  BY DEF Is83
<1> HIDE DEF dots
<1>4. Cardinality(dots) \in Nat /\ Cardinality(dots) # 0
  BY <1>1, <1>2, FS_CardinalityType, FS_EmptySet
<1>5. Cardinality(dots) = 1
  BY <1>3, <1>4
<1>6. \E x : dots = {x}
  BY <1>2, <1>5, FS_Singleton
<1> QED BY <1>1, <1>6

LEMMA Name83Is ==
  ASSUME NEW s \in Segment, s \notin {Dot, DotDot}, Is83(s)
  PROVE  Name83(s) \in Segment /\ Name83(s) \notin {Dot, DotDot}
<1> DEFINE n == Len(s)
           u == Upper(s)
<1>1. /\ n \in Nat /\ n # 0 /\ u \in Segment /\ Len(u) = n
      /\ \A i \in 1..n : u[i] = DOT <=> s[i] = DOT
  BY SegmentIs, UpperIs
<1>2. u # Dot /\ u # DotDot
  BY UpperDots
<1>3. Is83(u)
  BY UpperIs83
<1>4. Last(s) = s[n] /\ n \in 1..n
  BY <1>1 DEF Last
<1>5. u \in Seq(Letters) /\ \A i \in 1..n : u[i] \in Letters
  BY <1>1, SegmentIs
<1> HIDE DEF u, n
<1>6. \A t \in Segment : /\ t = Dot <=> Len(t) = 1 /\ t[1] = DOT
                         /\ t = DotDot <=> Len(t) = 2 /\ t[1] = DOT /\ t[2] = DOT
  BY DEF Dot, DotDot, Segment
<1>7. CASE s[n] = DOT
  <2>1. Name83(s) = SubSeq(u, 1, n - 1)
    BY <1>1, <1>4, <1>7 DEF Name83, Front, u
  <2>2. n # 1 /\ u[n] = DOT
    BY <1>1, <1>2, <1>4, <1>6, <1>7
  <2>3. PICK f : f = SubSeq(u, 1, n - 1)
    OBVIOUS
  <2>4. /\ f \in Seq(Letters) /\ Len(f) = n - 1 /\ \A i \in 1..n - 1 : f[i] = u[i]
    BY <1>1, <1>5, <2>2, <2>3
  <2>0. (Len(f) = 1 => n = 2) /\ (Len(f) = 2 => n = 3)
    BY <1>1, <2>4
  <2>5. f \in Segment
    BY <1>1, <2>2, <2>4 DEF Segment
  <2>6. f # Dot
    <3> SUFFICES ASSUME f = Dot PROVE FALSE
      OBVIOUS
    <3>1. Len(f) = 1 /\ f[1] = DOT
      BY <1>6, <2>5
    <3>2. n = 2
      BY <2>0, <3>1
    <3>3. u[1] = DOT
      BY <2>4, <3>1, <3>2
    <3> QED BY <1>1, <1>2, <1>6, <2>2, <3>2, <3>3
  <2>7. f # DotDot
    <3> SUFFICES ASSUME f = DotDot PROVE FALSE
      OBVIOUS
    <3>1. Len(f) = 2 /\ f[1] = DOT /\ f[2] = DOT
      BY <1>6, <2>5
    <3>2. n = 3
      BY <2>0, <3>1
    <3>3. u[1] = DOT /\ u[2] = DOT
      BY <2>4, <3>1, <3>2
    <3>4. 1 \in 1..Len(u) /\ 2 \in 1..Len(u)
      BY <1>1, <3>2
    <3>5. 1 = 2
      BY <1>1, <1>3, <3>3, <3>4, OneDot
    <3> QED BY <3>5
  <2> QED BY <2>1, <2>3, <2>5, <2>6, <2>7
<1>8. CASE s[n] # DOT
  <2>1. Name83(s) = u
    BY <1>4, <1>8 DEF Name83, u
  <2> QED BY <1>1, <1>2, <2>1
<1> QED BY <1>7, <1>8
-----------------------------------------------------------------------------
(* Walks. *)

LEMMA SeqIs ==
  ASSUME NEW S, NEW t \in Seq(S)
  PROVE  /\ Len(t) \in Nat /\ DOMAIN t = 1..Len(t)
         /\ \A i \in 1..Len(t) : t[i] \in S
         /\ t = [i \in 1..Len(t) |-> t[i]]
BY LenProperties

LEMMA FrontIs ==
  ASSUME NEW S, NEW t \in Seq(S), Len(t) # 0
  PROVE  /\ Len(t) - 1 \in Nat /\ Front(t) \in Seq(S) /\ Len(Front(t)) = Len(t) - 1
         /\ \A i \in 1..Len(t) - 1 : Front(t)[i] = t[i]
<1>1. Len(t) \in Nat /\ Len(t) - 1 \in Nat /\ \A i \in 1..Len(t) : t[i] \in S
  BY SeqIs
<1>2. PICK m \in Nat : m = Len(t) - 1
  BY <1>1
<1>3. Front(t) = SubSeq(t, 1, m) /\ \A i \in 1..m : t[i] \in S
  BY <1>1, <1>2 DEF Front
<1>4. Front(t) \in Seq(S) /\ Len(Front(t)) = m /\ \A i \in 1..m : Front(t)[i] = t[i]
  BY <1>3, SubSeqProperties
<1> QED BY <1>2, <1>4

LEMMA GoodNameIs ==
  ASSUME NEW s \in GoodName
  PROVE  /\ s \in Segment /\ s # Dot /\ s # DotDot /\ Is83(s)
         /\ Upper(s) = s /\ Len(s) <= NameMax
         /\ Name83(s) \in Segment /\ Name83(s) # Dot /\ Name83(s) # DotDot
<1>1. s \in Segment /\ s \notin {Dot, DotDot} /\ Is83(s)
      /\ Upper(s) = s /\ Len(s) <= NameMax
  BY DEF GoodName
<1> QED BY <1>1, Name83Is

LEMMA RealIs ==
  ASSUME NEW t \in Seq(GoodName)
  PROVE  /\ Real(t) \in Seq(Segment) /\ Len(Real(t)) = Len(t)
         /\ \A i \in 1..Len(t) : Real(t)[i] = Name83(t[i])
         /\ DOMAIN Real(t) = 1..Len(t)
<1>1. Len(t) \in Nat /\ DOMAIN t = 1..Len(t) /\ \A i \in 1..Len(t) : t[i] \in GoodName
  BY SeqIs
<1>2. \A i \in 1..Len(t) : Name83(t[i]) \in Segment
  BY <1>1, GoodNameIs
<1>3. PICK n \in Nat : n = Len(t)
  BY <1>1
<1>4. Real(t) = [i \in 1..n |-> Name83(t[i])]
  BY <1>1, <1>3 DEF Real
<1>5. Real(t) \in Seq(Segment) /\ Len(Real(t)) = n
  BY <1>2, <1>3, <1>4
<1> QED BY <1>3, <1>4, <1>5

LEMMA RealAppend ==
  ASSUME NEW t \in Seq(GoodName), NEW s \in GoodName
  PROVE  /\ Append(t, s) \in Seq(GoodName)
         /\ Real(Append(t, s)) = Append(Real(t), Name83(s))
<1>1. PICK n \in Nat : n = Len(t)
  BY SeqIs
<1>2. PICK a \in Seq(GoodName) : a = Append(t, s)
  BY AppendProperties
<1>3. Len(a) = n + 1 /\ a[n + 1] = s /\ \A i \in 1..n : a[i] = t[i]
  BY <1>1, <1>2
<1>4. PICK r \in Seq(Segment) : r = Real(t)
  BY RealIs
<1>5. Len(r) = n /\ \A i \in 1..n : r[i] = Name83(t[i])
  BY <1>1, <1>4, RealIs
<1>6. PICK b \in Seq(Segment) : b = Append(r, Name83(s))
  BY GoodNameIs, AppendProperties
<1>7. /\ Len(b) = n + 1 /\ b[n + 1] = Name83(s)
      /\ \A i \in 1..n : b[i] = r[i]
  BY <1>5, <1>6, GoodNameIs
<1>8. /\ Real(a) \in Seq(Segment) /\ Len(Real(a)) = n + 1
      /\ \A i \in 1..n + 1 : Real(a)[i] = Name83(a[i])
  BY <1>3, RealIs
<1>9. \A i \in 1..n + 1 : Real(a)[i] = b[i]
  <2> TAKE i \in 1..n + 1
  <2>1. CASE i = n + 1
    BY <1>3, <1>7, <1>8, <2>1
  <2>2. CASE i \in 1..n
    BY <1>3, <1>5, <1>7, <1>8, <2>2
  <2>3. i = n + 1 \/ i \in 1..n
    OBVIOUS
  <2> QED BY <2>1, <2>2, <2>3
<1>10. Real(a) = b
  <2> HIDE DEF Real
  <2> QED BY <1>7, <1>8, <1>9, SeqEqual
<1> QED BY <1>2, <1>4, <1>6, <1>10

LEMMA RealUp ==
  ASSUME NEW t \in Seq(GoodName)
  PROVE  /\ SubSeq(t, 1, Len(t) - 1) \in Seq(GoodName)
         /\ Real(SubSeq(t, 1, Len(t) - 1)) = SubSeq(Real(t), 1, Len(Real(t)) - 1)
<1>1. PICK n \in Nat : n = Len(t)
  BY SeqIs
<1>2. PICK r \in Seq(Segment) : r = Real(t)
  BY RealIs
<1>3. Len(r) = n /\ \A i \in 1..n : r[i] = Name83(t[i])
  BY <1>1, <1>2, RealIs
<1>4. CASE n = 0
  <2>1. t = <<>> /\ r = <<>>
    BY <1>1, <1>3, <1>4, EmptySeq
  <2>2. SubSeq(t, 1, 0 - 1) = <<>> /\ SubSeq(r, 1, 0 - 1) = <<>>
    BY SubSeqEmpty
  <2>3. <<>> \in Seq(GoodName)
    BY EmptySeq
  <2> QED BY <1>1, <1>2, <1>3, <1>4, <2>1, <2>2, <2>3
<1>5. CASE n # 0
  <2>1. PICK a : a = SubSeq(t, 1, n - 1)
    OBVIOUS
  <2>2. PICK b : b = SubSeq(r, 1, n - 1)
    OBVIOUS
  <2>3. PICK m \in Nat : m = n - 1
    BY <1>5
  <2>4. a \in Seq(GoodName) /\ Len(a) = m /\ \A i \in 1..m : a[i] = t[i]
    <3>1. \A i \in 1..m : t[i] \in GoodName
      BY <1>1, <2>3, SeqIs
    <3> QED BY <2>1, <2>3, <3>1, SubSeqProperties
  <2>5. b \in Seq(Segment) /\ Len(b) = m /\ \A i \in 1..m : b[i] = r[i]
    <3>1. \A i \in 1..m : r[i] \in Segment
      BY <1>3, <2>3, SeqIs
    <3> QED BY <2>2, <2>3, <3>1, SubSeqProperties
  <2>6. /\ Real(a) \in Seq(Segment) /\ Len(Real(a)) = m
        /\ \A i \in 1..m : Real(a)[i] = Name83(a[i])
    BY <2>4, RealIs
  <2>7. \A i \in 1..m : Real(a)[i] = b[i]
    BY <1>3, <2>3, <2>4, <2>5, <2>6
  <2>8. Real(a) = b
    BY <2>5, <2>6, <2>7, SeqEqual
  <2> QED BY <1>1, <1>2, <1>3, <2>1, <2>2, <2>3, <2>4, <2>8
<1> QED BY <1>4, <1>5

\* Found's names on the way.
OnDisk(s) == IF s \in {Dot, DotDot} THEN s ELSE Name83(s)

LEMMA StepDown ==
  ASSUME NEW t \in Seq(GoodName), NEW s \in Segment, Len(s) <= NameMax,
         s \notin {Dot, DotDot} => Is83(s)
  PROVE  /\ Into(t, Upper(s)) \in Seq(GoodName)
         /\ Real(Into(t, Upper(s))) = Into(Real(t), OnDisk(s))
<1>1. CASE s = Dot
  <2>1. Upper(s) = Dot /\ OnDisk(s) = Dot
    BY <1>1, UpperDots DEF OnDisk
  <2> QED BY <2>1 DEF Into
<1>2. CASE s # Dot /\ s = DotDot
  <2>1. Upper(s) = DotDot /\ Upper(s) # Dot /\ OnDisk(s) = DotDot /\ DotDot # Dot
    BY <1>2, UpperDots DEF OnDisk
  <2>2. /\ Into(t, Upper(s)) = SubSeq(t, 1, Len(t) - 1)
        /\ Into(Real(t), OnDisk(s)) = SubSeq(Real(t), 1, Len(Real(t)) - 1)
    BY <2>1 DEF Into
  <2> QED BY <2>2, RealUp
<1>3. CASE s # Dot /\ s # DotDot
  <2>1. /\ Upper(s) # Dot /\ Upper(s) # DotDot /\ Upper(s) \in Segment
        /\ Len(Upper(s)) = Len(s) /\ Upper(Upper(s)) = Upper(s)
    BY <1>3, UpperDots, UpperIs
  <2>2. Is83(Upper(s))
    BY <1>3, UpperIs83
  <2>3. Upper(s) \in GoodName
    BY <2>1, <2>2 DEF GoodName
  <2>4. /\ OnDisk(s) = Name83(s) /\ OnDisk(s) = Name83(Upper(s))
        /\ OnDisk(s) # Dot /\ OnDisk(s) # DotDot
    BY <1>3, UpperName83, Name83Is DEF OnDisk
  <2>5. Into(t, Upper(s)) = Append(t, Upper(s))
    BY <2>1 DEF Into
  <2>6. Into(Real(t), OnDisk(s)) = Append(Real(t), Name83(Upper(s)))
    BY <2>4 DEF Into
  <2> QED BY <2>3, <2>5, <2>6, RealAppend
<1> QED BY <1>1, <1>2, <1>3

\* The walk of the text and the walk of the clusters go the same way.
Ups(segs) == [i \in DOMAIN segs |-> Upper(segs[i])]
Names(segs) == [i \in DOMAIN segs |-> OnDisk(segs[i])]
Fit(segs) ==
  /\ segs \in Seq(Segment)
  /\ \A i \in DOMAIN segs : /\ Len(segs[i]) <= NameMax
                            /\ segs[i] \notin {Dot, DotDot} => Is83(segs[i])

LEMMA UpsIs ==
  ASSUME NEW segs \in Seq(Segment)
  PROVE  /\ Len(segs) \in Nat
         /\ Ups(segs) \in Seq(Segment) /\ Len(Ups(segs)) = Len(segs)
         /\ \A i \in 1..Len(segs) : Ups(segs)[i] = Upper(segs[i])
<1>1. PICK n \in Nat : n = Len(segs)
  BY SeqIs
<1>2. DOMAIN segs = 1..n /\ \A i \in 1..n : segs[i] \in Segment
  BY <1>1, SeqIs
<1>3. \A i \in 1..n : Upper(segs[i]) \in Segment
  BY <1>2, UpperIs
<1>4. Ups(segs) = [i \in 1..n |-> Upper(segs[i])]
  BY <1>2 DEF Ups
<1>5. Ups(segs) \in Seq(Segment) /\ Len(Ups(segs)) = n
  BY <1>3, <1>4
<1> QED BY <1>1, <1>4, <1>5

LEMMA NamesIs ==
  ASSUME NEW segs \in Seq(Segment)
  PROVE  /\ Len(Names(segs)) = Len(segs) /\ Len(segs) \in Nat
         /\ \A i \in 1..Len(segs) : Names(segs)[i] = OnDisk(segs[i])
<1>1. PICK n \in Nat : n = Len(segs)
  BY SeqIs
<1>2. DOMAIN segs = 1..n
  BY <1>1, SeqIs
<1>4. Names(segs) = [i \in 1..n |-> OnDisk(segs[i])]
  BY <1>2 DEF Names
<1>5. Len(Names(segs)) = n
  BY <1>4
<1> QED BY <1>1, <1>4, <1>5

LEMMA SameWay ==
  ASSUME NEW base \in Seq(GoodName), NEW segs, Fit(segs)
  PROVE  \A n \in 0..Len(segs) :
           /\ Stops(base, Ups(segs))[n] \in Seq(GoodName)
           /\ Real(Stops(base, Ups(segs))[n]) = Stops(Real(base), Names(segs))[n]
<1>1. segs \in Seq(Segment)
  BY DEF Fit
<1>2. PICK N \in Nat : N = Len(segs)
  BY <1>1, SeqIs
<1>3. DOMAIN segs = 1..N
  BY <1>1, <1>2, SeqIs
<1>4. PICK f : f = Stops(base, Ups(segs))
  OBVIOUS
<1>5. PICK g : g = Stops(Real(base), Names(segs))
  OBVIOUS
<1>6. /\ f[0] = base
      /\ \A n \in 1..N : f[n] = Into(f[n - 1], Upper(segs[n]))
  BY <1>1, <1>2, <1>4, UpsIs, StopsSteps
<1>7. /\ g[0] = Real(base)
      /\ \A n \in 1..N : g[n] = Into(g[n - 1], OnDisk(segs[n]))
  BY <1>1, <1>2, <1>5, NamesIs, StopsSteps
<1> DEFINE S == {n \in Nat : n <= N => f[n] \in Seq(GoodName) /\ Real(f[n]) = g[n]}
<1>8. 0 \in S
  BY <1>6, <1>7
<1>9. ASSUME NEW n \in Nat, n \in S PROVE n + 1 \in S
  <2> SUFFICES ASSUME n + 1 <= N
               PROVE  f[n + 1] \in Seq(GoodName) /\ Real(f[n + 1]) = g[n + 1]
    OBVIOUS
  <2>1. n + 1 \in 1..N /\ (n + 1) - 1 = n /\ n <= N
    BY <1>2
  <2>2. f[n] \in Seq(GoodName) /\ Real(f[n]) = g[n]
    BY <1>9, <2>1
  <2>3. f[n + 1] = Into(f[n], Upper(segs[n + 1]))
    BY <1>6, <2>1
  <2>4. g[n + 1] = Into(g[n], OnDisk(segs[n + 1]))
    BY <1>7, <2>1
  <2>5. segs[n + 1] \in Segment
    BY <1>1, <1>2, <2>1, SeqIs
  <2>6. /\ Len(segs[n + 1]) <= NameMax
        /\ segs[n + 1] \notin {Dot, DotDot} => Is83(segs[n + 1])
    BY <1>3, <2>1 DEF Fit
  <2> QED BY <2>2, <2>3, <2>4, <2>5, <2>6, StepDown
<1> HIDE DEF S
<1>10. \A n \in Nat : n \in S
  BY <1>8, <1>9, NatSetInduction
<1>11. \A n \in 0..N : n \in Nat /\ n <= N
  BY <1>2
<1> QED BY <1>2, <1>4, <1>5, <1>10, <1>11 DEF S
-----------------------------------------------------------------------------
(* What is found. *)

LEMMA WalkIs ==
  ASSUME NEW segs \in Seq(Segment)
  PROVE  /\ Walk(segs) \in Seq(Segment)
         /\ \A i \in 1..Len(Walk(segs)) : Len(Walk(segs)[i]) <= NameMax
         /\ TooLong(segs) = {} => Walk(segs) = segs
<1>1. PICK n \in Nat : n = Len(segs)
  BY SeqIs
<1>2. /\ DOMAIN segs = 1..n
      /\ \A i \in 1..n : segs[i] \in Segment /\ Len(segs[i]) \in Nat
  BY <1>1, SeqIs, SegmentIs
<1>3. NameMax \in Nat
  BY ShellAssumption DEF NameMax
<1>4. TooLong(segs) = {i \in 1..n : Len(segs[i]) > NameMax}
  BY <1>2 DEF TooLong
<1>5. CASE TooLong(segs) = {}
  <2>1. Walk(segs) = segs
    BY <1>5 DEF Walk
  <2>2. \A i \in 1..n : Len(segs[i]) <= NameMax
    BY <1>2, <1>3, <1>4, <1>5
  <2> QED BY <1>1, <2>1, <2>2
<1>6. CASE TooLong(segs) # {}
  <2>1. \E x \in TooLong(segs) : \A y \in TooLong(segs) : x <= y
    BY <1>4, <1>6, LeastNat, SMTT(40)
  <2>2. PICK m : m = Min(TooLong(segs))
    OBVIOUS
  <2>3. m \in TooLong(segs) /\ \A y \in TooLong(segs) : m <= y
    BY <2>1, <2>2 DEF Min
  <2>4. m \in 1..n
    BY <1>4, <2>3
  <2>5. PICK k \in Nat : k = m - 1
    BY <2>4
  <2>6. Walk(segs) = SubSeq(segs, 1, k)
    BY <1>6, <2>2, <2>5 DEF Walk
  <2>7. \A i \in 1..k : i \in 1..n /\ i < m
    BY <2>4, <2>5
  <2>8. \A i \in 1..k : segs[i] \in Segment /\ Len(segs[i]) <= NameMax
    <3> TAKE i \in 1..k
    <3>1. i \in 1..n /\ i \notin TooLong(segs)
      BY <2>3, <2>4, <2>7
    <3> QED BY <1>2, <1>3, <1>4, <3>1
  <2>9. /\ Walk(segs) \in Seq(Segment) /\ Len(Walk(segs)) = k
        /\ \A i \in 1..k : Walk(segs)[i] = segs[i]
    BY <2>6, <2>8, SubSeqProperties
  <2> QED BY <1>6, <2>8, <2>9
<1> QED BY <1>5, <1>6

LEMMA FoundIs ==
  ASSUME NEW d, NEW w \in Seq(Segment)
  PROVE  /\ \A x \in Found(d, w) :
              /\ x = Stops(d, Names(w))[Len(w)]
              /\ \A i \in 1..Len(w) : /\ w[i] \notin {Dot, DotDot} => Is83(w[i])
                                      /\ Stops(d, Names(w))[i] \in dirs
         /\ (\A i \in 1..Len(w) : /\ w[i] \notin {Dot, DotDot} => Is83(w[i])
                                  /\ Stops(d, Names(w))[i] \in dirs)
            => Found(d, w) = {Stops(d, Names(w))[Len(w)]}
<1>1. DOMAIN w = 1..Len(w) /\ Len(Names(w)) = Len(w)
  BY SeqIs, NamesIs
<1> DEFINE ok == \A i \in 1..Len(w) : /\ w[i] \notin {Dot, DotDot} => Is83(w[i])
                                      /\ Stops(d, Names(w))[i] \in dirs
<1>2. Names(w) = [i \in DOMAIN w |-> IF w[i] \in {Dot, DotDot} THEN w[i] ELSE Name83(w[i])]
  BY DEF Names, OnDisk
<1>3. Found(d, w) = IF ok THEN {Along(d, Names(w))} ELSE {}
  BY <1>1, <1>2 DEF Found
<1>4. Along(d, Names(w)) = Stops(d, Names(w))[Len(w)]
  BY <1>1 DEF Along
<1> HIDE DEF ok
<1>5. Found(d, w) = IF ok THEN {Stops(d, Names(w))[Len(w)]} ELSE {}
  BY <1>3, <1>4
<1>6. CASE ok
  BY <1>5, <1>6 DEF ok
<1>7. CASE ~ok
  BY <1>5, <1>7 DEF ok
<1> QED BY <1>6, <1>7

\* Where a walk from a directory the text names ends, is what the text says.
LEMMA FoundByText ==
  ASSUME NEW base \in Seq(GoodName), NEW w \in Seq(Segment),
         \A i \in 1..Len(w) : Len(w[i]) <= NameMax,
         NEW x \in Found(Real(base), w)
  PROVE  /\ Along(base, Ups(w)) \in Seq(GoodName)
         /\ x = Real(Along(base, Ups(w)))
         /\ Real(base) \in dirs => x \in dirs
<1>1. PICK n \in Nat : n = Len(w)
  BY SeqIs
<1>2. /\ x = Stops(Real(base), Names(w))[n]
      /\ \A i \in 1..n : /\ w[i] \notin {Dot, DotDot} => Is83(w[i])
                         /\ Stops(Real(base), Names(w))[i] \in dirs
  BY <1>1, FoundIs
<1>3. DOMAIN w = 1..n
  BY <1>1, SeqIs
<1>4. Fit(w)
  BY <1>1, <1>2, <1>3 DEF Fit
<1>5. n \in 0..n /\ Len(Ups(w)) = n
  BY <1>1, UpsIs
<1>6. /\ Stops(base, Ups(w))[n] \in Seq(GoodName)
      /\ Real(Stops(base, Ups(w))[n]) = Stops(Real(base), Names(w))[n]
  BY <1>1, <1>4, <1>5, SameWay
<1>7. Along(base, Ups(w)) = Stops(base, Ups(w))[n]
  BY <1>5 DEF Along
<1>8. Real(base) \in dirs => x \in dirs
  <2>1. CASE n = 0
    <3>1. Stops(Real(base), Names(w))[0] = Real(base)
      BY NamesIs, StopsSteps
    <3> QED BY <1>2, <2>1, <3>1
  <2>2. CASE n # 0
    <3>1. n \in 1..n
      BY <2>2
    <3> QED BY <1>2, <3>1
  <2> QED BY <2>1, <2>2
<1> QED BY <1>2, <1>6, <1>7, <1>8

\* The directories are a tree.
Closed ==
  /\ dirs \subseteq Seq(Segment) /\ Top \in dirs
  /\ \A d \in dirs : d = Top \/ Front(d) \in dirs

LEMMA AncestorsThere ==
  ASSUME Closed, NEW d \in dirs
  PROVE  \A i \in 0..Len(d) : SubSeq(d, 1, i) \in dirs
<1>1. d \in Seq(Segment)
  BY DEF Closed
<1>2. PICK N \in Nat : N = Len(d)
  BY <1>1, SeqIs
<1> DEFINE S == {k \in Nat : k <= N => SubSeq(d, 1, N - k) \in dirs}
<1>3. 0 \in S
  <2>1. N - 0 = N /\ SubSeq(d, 1, N) = d
    BY <1>1, <1>2, SubSeqFull
  <2> QED BY <2>1
<1>4. ASSUME NEW k \in Nat, k \in S PROVE k + 1 \in S
  <2> SUFFICES ASSUME k + 1 <= N PROVE SubSeq(d, 1, N - (k + 1)) \in dirs
    OBVIOUS
  <2>1. PICK m \in Nat : m = N - (k + 1)
    OBVIOUS
  <2>2. N - k = m + 1 /\ k <= N /\ m + 1 \in 1..N
    BY <2>1
  <2>3. PICK e : e = SubSeq(d, 1, m + 1)
    OBVIOUS
  <2>4. e \in dirs
    BY <1>4, <2>2, <2>3
  <2>5. \A i \in 1..m + 1 : d[i] \in Segment
    BY <1>1, <1>2, <2>2, SeqIs
  <2>6. e \in Seq(Segment) /\ Len(e) = m + 1 /\ \A i \in 1..m + 1 : e[i] = d[i]
    BY <2>3, <2>5, SubSeqProperties
  <2>7. e # Top
    BY <2>6 DEF Top
  <2>8. Front(e) \in dirs
    BY <2>4, <2>7 DEF Closed
  <2>9. /\ Front(e) \in Seq(Segment) /\ Len(Front(e)) = m
        /\ \A i \in 1..m : Front(e)[i] = e[i]
    BY <2>6, FrontIs
  <2>10. \A i \in 1..m : d[i] \in Segment
    BY <2>5
  <2>11. /\ SubSeq(d, 1, m) \in Seq(Segment) /\ Len(SubSeq(d, 1, m)) = m
         /\ \A i \in 1..m : SubSeq(d, 1, m)[i] = d[i]
    BY <2>10, SubSeqProperties
  <2>12. \A i \in 1..m : Front(e)[i] = SubSeq(d, 1, m)[i]
    BY <2>6, <2>9, <2>11
  <2>13. Front(e) = SubSeq(d, 1, m)
    BY <2>9, <2>11, <2>12, SeqEqual
  <2> QED BY <2>1, <2>8, <2>13
<1> HIDE DEF S
<1>5. \A k \in Nat : k \in S
  BY <1>3, <1>4, NatSetInduction
<1>6. ASSUME NEW i \in 0..N PROVE SubSeq(d, 1, i) \in dirs
  <2>1. N - i \in Nat /\ N - i <= N /\ N - (N - i) = i
    OBVIOUS
  <2>2. N - i \in S
    BY <1>5, <2>1
  <2> QED BY <2>1, <2>2 DEF S
<1> QED BY <1>2, <1>6

\* Walking the text from the root finds the directory it names.
LEMMA TextIsFound ==
  ASSUME Closed, NEW t \in Seq(GoodName), Real(t) \in dirs
  PROVE  Found(Top, t) = {Real(t)}
<1>1. PICK n \in Nat : n = Len(t)
  BY SeqIs
<1>2. PICK r \in Seq(Segment) : r = Real(t)
  BY RealIs
<1>3. Len(r) = n /\ \A i \in 1..n : r[i] = Name83(t[i])
  BY <1>1, <1>2, RealIs
<1>4. \A i \in 1..n : t[i] \in GoodName
  BY <1>1, SeqIs
<1>5. \A i \in 1..n : /\ t[i] \in Segment /\ t[i] \notin {Dot, DotDot} /\ Is83(t[i])
                      /\ r[i] \in Segment /\ r[i] # Dot /\ r[i] # DotDot
                      /\ OnDisk(t[i]) = r[i]
  BY <1>3, <1>4, GoodNameIs DEF OnDisk
<1>6. t \in Seq(Segment)
  <2>1. GoodName \subseteq Segment
    BY DEF GoodName
  <2> QED BY <2>1, SeqMonotonic
<1>7. PICK g : g = Stops(Top, Names(t))
  OBVIOUS
<1>8. g[0] = Top /\ \A i \in 1..n : g[i] = Append(g[i - 1], r[i])
  <2>1. g[0] = Top /\ \A i \in 1..n : g[i] = Into(g[i - 1], OnDisk(t[i]))
    BY <1>1, <1>6, <1>7, NamesIs, StopsSteps
  <2> QED BY <1>5, <2>1 DEF Into
<1> DEFINE S == {i \in Nat : i <= n => g[i] = SubSeq(r, 1, i)}
<1>9. 0 \in S
  <2>1. SubSeq(r, 1, 0) = <<>>
    BY SubSeqEmpty
  <2> QED BY <1>8, <2>1 DEF Top
<1>10. ASSUME NEW i \in Nat, i \in S PROVE i + 1 \in S
  <2> SUFFICES ASSUME i + 1 <= n PROVE g[i + 1] = SubSeq(r, 1, i + 1)
    OBVIOUS
  <2>1. i + 1 \in 1..n /\ (i + 1) - 1 = i /\ i <= n
    BY <1>1
  <2>2. g[i] = SubSeq(r, 1, i) /\ g[i + 1] = Append(g[i], r[i + 1])
    BY <1>8, <1>10, <2>1
  <2>3. \A j \in 1..i + 1 : j \in 1..n
    BY <2>1
  <2>4. \A j \in 1..i + 1 : r[j] \in Segment
    BY <1>5, <2>3
  <2>5. PICK a : a = SubSeq(r, 1, i)
    OBVIOUS
  <2>6. PICK b : b = SubSeq(r, 1, i + 1)
    OBVIOUS
  <2>7. a \in Seq(Segment) /\ Len(a) = i /\ \A j \in 1..i : a[j] = r[j]
    <3>1. \A j \in 1..i : r[j] \in Segment
      BY <2>4
    <3> QED BY <2>5, <3>1, SubSeqProperties
  <2>8. b \in Seq(Segment) /\ Len(b) = i + 1 /\ \A j \in 1..i + 1 : b[j] = r[j]
    BY <2>4, <2>6, SubSeqProperties
  <2>9. PICK c : c = Append(a, r[i + 1])
    OBVIOUS
  <2>10. r[i + 1] \in Segment
    BY <2>4
  <2>11. /\ c \in Seq(Segment) /\ Len(c) = i + 1 /\ c[i + 1] = r[i + 1]
         /\ \A j \in 1..i : c[j] = a[j]
    BY <2>7, <2>9, <2>10, AppendProperties
  <2>12. \A j \in 1..i + 1 : c[j] = b[j]
    <3> TAKE j \in 1..i + 1
    <3>1. j = i + 1 \/ j \in 1..i
      OBVIOUS
    <3> QED BY <2>7, <2>8, <2>11, <3>1
  <2>13. c = b
    BY <2>8, <2>11, <2>12, SeqEqual
  <2> QED BY <2>2, <2>5, <2>6, <2>9, <2>13
<1> HIDE DEF S
<1>11. \A i \in Nat : i \in S
  BY <1>9, <1>10, NatSetInduction
<1>12. ASSUME NEW i \in 0..n PROVE g[i] = SubSeq(r, 1, i) /\ g[i] \in dirs
  <2>1. g[i] = SubSeq(r, 1, i)
    BY <1>11 DEF S
  <2>2. SubSeq(r, 1, i) \in dirs
    BY <1>2, <1>3, AncestorsThere
  <2> QED BY <2>1, <2>2
<1>13. n \in 0..n /\ \A i \in 1..n : i \in 0..n
  BY <1>1
<1>14. g[n] = r
  BY <1>2, <1>3, <1>12, <1>13, SubSeqFull
<1>15. \A i \in 1..n : (t[i] \notin {Dot, DotDot} => Is83(t[i])) /\ g[i] \in dirs
  BY <1>5, <1>12, <1>13
<1>16. Found(Top, t) = {Stops(Top, Names(t))[n]}
  BY <1>1, <1>6, <1>7, <1>15, FoundIs
<1> QED BY <1>2, <1>7, <1>14, <1>16
-----------------------------------------------------------------------------
(* The text of the current directory, and what is where. *)

Base(p) == IF p.abs THEN <<>> ELSE path
FullText(p) == Along(Base(p), Ups(Walk(p.segs)))

PathInv ==
  /\ Closed /\ cwd \in dirs
  /\ path \in Seq(Segment) /\ lost \in BOOLEAN
  /\ prev = NoPath \/ prev \in PathType
  /\ ~lost => path \in Seq(GoodName) /\ cwd = Real(path)
  /\ who \in DOMAIN Homes \/ who = Nobody

LEMMA PathIs ==
  ASSUME NEW p \in PathType
  PROVE  p.segs \in Seq(Segment) /\ p.abs \in BOOLEAN
         /\ p = [abs |-> p.abs, segs |-> p.segs]
BY DEF PathType

LEMMA NewPathIs ==
  ASSUME NEW segs \in Seq(Segment)
  PROVE  /\ Abs(segs) \in PathType /\ Rel(segs) \in PathType
         /\ Abs(segs).segs = segs /\ Abs(segs).abs = TRUE
         /\ Rel(segs).segs = segs /\ Rel(segs).abs = FALSE
BY DEF Abs, Rel, PathType

LEMMA NoSegments == <<>> \in Seq(Segment) /\ <<>> \in Seq(GoodName) /\ Real(<<>>) = <<>>
<1>1. <<>> \in Seq(Segment) /\ <<>> \in Seq(GoodName)
  BY EmptySeq
<1>2. Real(<<>>) \in Seq(Segment) /\ Len(Real(<<>>)) = 0
  BY <1>1, RealIs, EmptySeq
<1>3. Real(<<>>) = <<>>
  <2> HIDE DEF Real
  <2> QED BY <1>2, EmptySeq
<1> QED BY <1>1, <1>3

LEMMA FoundThere ==
  ASSUME NEW d \in dirs, NEW w \in Seq(Segment), NEW x \in Found(d, w)
  PROVE  x \in dirs
<1>1. PICK n \in Nat : n = Len(w)
  BY SeqIs
<1>2. /\ x = Stops(d, Names(w))[n]
      /\ \A i \in 1..n : Stops(d, Names(w))[i] \in dirs
  BY <1>1, FoundIs
<1>3. CASE n = 0
  <2>1. Stops(d, Names(w))[0] = d
    BY NamesIs, StopsSteps
  <2> QED BY <1>2, <1>3, <2>1
<1>4. CASE n # 0
  <2>1. n \in 1..n
    BY <1>4
  <2> QED BY <1>2, <2>1
<1> QED BY <1>3, <1>4

LEMMA OriginThere ==
  ASSUME PathInv, NEW p
  PROVE  Origin(p) \in dirs
BY DEF PathInv, Closed, Origin

LEMMA OriginIsBase ==
  ASSUME PathInv, NEW p, p.abs \/ ~lost
  PROVE  Base(p) \in Seq(GoodName) /\ Origin(p) = Real(Base(p))
<1>1. CASE p.abs
  BY <1>1, NoSegments DEF Base, Origin, Top
<1>2. CASE ~p.abs
  BY <1>2 DEF Base, Origin, PathInv
<1> QED BY <1>1, <1>2

LEMMA AlongTyped ==
  ASSUME NEW base \in Seq(Segment), NEW w \in Seq(Segment)
  PROVE  Along(base, w) \in Seq(Segment)
<1>1. PICK N \in Nat : N = Len(w)
  BY SeqIs
<1>2. PICK f : f = Stops(base, w)
  OBVIOUS
<1>3. f[0] = base /\ \A n \in 1..N : f[n] = Into(f[n - 1], w[n])
  BY <1>1, <1>2, StopsSteps
<1> DEFINE S == {n \in Nat : n <= N => f[n] \in Seq(Segment)}
<1>4. 0 \in S
  BY <1>3
<1>5. ASSUME NEW n \in Nat, n \in S PROVE n + 1 \in S
  <2> SUFFICES ASSUME n + 1 <= N PROVE f[n + 1] \in Seq(Segment)
    OBVIOUS
  <2>1. n + 1 \in 1..N /\ (n + 1) - 1 = n /\ n <= N
    BY <1>1
  <2>2. PICK a \in Seq(Segment) : a = f[n]
    BY <1>5, <2>1
  <2>3. PICK s \in Segment : s = w[n + 1]
    BY <1>1, <2>1, SeqIs
  <2>4. f[n + 1] = Into(a, s)
    BY <1>3, <2>1, <2>2, <2>3
  <2>5. Append(a, s) \in Seq(Segment)
    BY AppendProperties
  <2>6. SubSeq(a, 1, Len(a) - 1) \in Seq(Segment)
    <3>1. Len(a) - 1 \in Int /\ \A i \in 1..Len(a) - 1 : i \in 1..Len(a)
      BY SeqIs
    <3>2. \A i \in 1..Len(a) - 1 : a[i] \in Segment
      BY <3>1, SeqIs
    <3> QED BY <3>1, <3>2, SubSeqProperties
  <2> QED BY <2>2, <2>4, <2>5, <2>6 DEF Into
<1> HIDE DEF S
<1>6. \A n \in Nat : n \in S
  BY <1>4, <1>5, NatSetInduction
<1>7. f[N] \in Seq(Segment)
  BY <1>6 DEF S
<1> QED BY <1>1, <1>2, <1>7 DEF Along

LEMMA TextLensTyped ==
  ASSUME NEW segs \in Seq(Segment)
  PROVE  \A n \in 0..Len(segs) : TextLens(segs)[n] \in Nat
<1>1. PICK N \in Nat : N = Len(segs)
  BY SeqIs
<1>2. PICK f : f = TextLens(segs)
  OBVIOUS
<1>3. f[0] = 0 /\ \A n \in 1..N : f[n] = f[n - 1] + 1 + Len(segs[n])
  BY <1>1, <1>2, TextLensSteps
<1> DEFINE S == {n \in Nat : n <= N => f[n] \in Nat}
<1>4. 0 \in S
  BY <1>3
<1>5. ASSUME NEW n \in Nat, n \in S PROVE n + 1 \in S
  <2> SUFFICES ASSUME n + 1 <= N PROVE f[n + 1] \in Nat
    OBVIOUS
  <2>1. n + 1 \in 1..N /\ (n + 1) - 1 = n /\ n <= N
    BY <1>1
  <2>2. PICK a \in Nat : a = f[n]
    BY <1>5, <2>1
  <2>3. PICK b \in Nat : b = Len(segs[n + 1])
    BY <1>1, <2>1, SeqIs, SegmentIs
  <2>4. f[n + 1] = a + 1 + b
    BY <1>3, <2>1, <2>2, <2>3
  <2> QED BY <2>4
<1> HIDE DEF S
<1>6. \A n \in Nat : n \in S
  BY <1>4, <1>5, NatSetInduction
<1>7. \A n \in 0..N : f[n] \in Nat
  BY <1>6 DEF S
<1> QED BY <1>1, <1>2, <1>7

LEMMA CutIs ==
  ASSUME NEW segs \in Seq(Segment)
  PROVE  Cut(segs) \in Seq(Segment)
<1>1. PICK N \in Nat : N = Len(segs)
  BY SeqIs
<1>2. PICK f : f = TextLens(segs)
  OBVIOUS
<1>3. f[0] = 0 /\ \A n \in 1..N : f[n] = f[n - 1] + 1 + Len(segs[n])
  BY <1>1, <1>2, TextLensSteps
<1>4. \A n \in 0..N : f[n] \in Nat
  BY <1>1, <1>2, TextLensTyped
<1>5. PathMax \in Nat /\ PathMax > 0
  BY ShellAssumption
<1> DEFINE fit == {n \in 0..N : f[n] < PathMax}
<1>6. 0 \in fit /\ fit \subseteq Nat /\ \A n \in fit : n <= N
  BY <1>1, <1>3, <1>5
<1>7. \E x \in fit : \A y \in fit : x >= y
  <2> HIDE DEF fit
  <2> QED BY <1>1, <1>6, GreatestNat
<1>8. PICK n : n = Max(fit)
  OBVIOUS
<1>9. n \in fit /\ \A y \in fit : n >= y
  BY <1>7, <1>8 DEF Max
<1>10. n \in 0..N /\ f[n] \in Nat /\ f[n] < PathMax
  BY <1>4, <1>9
<1>11. PICK rest \in Int : rest = PathMax - 2 - f[n]
  BY <1>5, <1>10
<1>12. Cut(segs) = IF n = N \/ rest <= 0 THEN SubSeq(segs, 1, n)
                   ELSE Append(SubSeq(segs, 1, n), SubSeq(segs[n + 1], 1, rest))
  BY <1>1, <1>2, <1>8, <1>11 DEF Cut
<1>13. SubSeq(segs, 1, n) \in Seq(Segment)
  <2>1. \A i \in 1..n : segs[i] \in Segment
    BY <1>1, <1>10, SeqIs
  <2> QED BY <1>10, <2>1, SubSeqProperties
<1>14. CASE n = N \/ rest <= 0
  BY <1>12, <1>13, <1>14
<1>15. CASE ~(n = N \/ rest <= 0)
  <2>1. n + 1 \in 1..N /\ (n + 1) - 1 = n /\ n + 1 \in 0..N
    BY <1>1, <1>10, <1>15
  <2>2. PICK s \in Segment : s = segs[n + 1]
    BY <1>1, <2>1, SeqIs
  <2>3. Len(s) \in Nat /\ s \in Seq(Letters)
    BY SegmentIs
  <2>4. ~(f[n + 1] < PathMax)
    <3>1. n + 1 \notin fit
      BY <1>9, <1>10
    <3> QED BY <2>1, <3>1
  <2>5. f[n + 1] = f[n] + 1 + Len(s)
    BY <1>3, <2>1, <2>2
  <2>6. rest \in Nat /\ rest >= 1 /\ rest <= Len(s)
    BY <1>5, <1>10, <1>11, <1>15, <2>3, <2>4, <2>5
  <2>7. \A i \in 1..rest : s[i] \in Letters
    BY <2>3, <2>6, SeqIs
  <2>8. SubSeq(s, 1, rest) \in Seq(Letters) /\ Len(SubSeq(s, 1, rest)) = rest
    BY <2>6, <2>7, SubSeqProperties
  <2>9. SubSeq(s, 1, rest) \in Segment
    <3>1. PICK z : z = SubSeq(s, 1, rest)
      OBVIOUS
    <3>2. z # <<>>
      BY <2>6, <2>8, <3>1
    <3> QED BY <2>8, <3>1, <3>2 DEF Segment
  <2> QED BY <1>12, <1>13, <1>15, <2>2, <2>9, AppendProperties
<1> QED BY <1>14, <1>15

LEMMA NormalizeIs ==
  ASSUME NEW p \in PathType, path \in Seq(Segment)
  PROVE  /\ Normalize(p).text \in Seq(Segment) /\ Normalize(p).whole \in BOOLEAN
         /\ Normalize(p).whole => Normalize(p).text = FullText(p)
         /\ Normalize(p).whole => Normalize(p).ok
<1>1. PICK w \in Seq(Segment) : w = Walk(p.segs)
  BY PathIs, WalkIs
<1>2. PICK base \in Seq(Segment) : base = Base(p)
  BY NoSegments DEF Base
<1>3. PICK full : full = Along(base, Ups(w))
  OBVIOUS
<1>4. full \in Seq(Segment)
  BY <1>3, UpsIs, AlongTyped
<1>5. PICK deep \in BOOLEAN :
        deep = (\E i \in DOMAIN Ups(w) : Len(Stops(base, Ups(w))[i]) > MaxDepth)
  OBVIOUS
<1>6. Ups(w) = [i \in DOMAIN Walk(p.segs) |-> Upper(Walk(p.segs)[i])]
  BY <1>1 DEF Ups
<1>7. Normalize(p) = [ok |-> ~deep, text |-> Cut(full), whole |-> ~deep /\ Cut(full) = full]
  BY <1>2, <1>3, <1>5, <1>6 DEF Normalize, Base
<1>8. full = FullText(p)
  BY <1>1, <1>2, <1>3 DEF FullText
<1>9. Cut(full) \in Seq(Segment)
  BY <1>4, CutIs
<1>10. PICK whole \in BOOLEAN : whole = (~deep /\ Cut(full) = full)
  OBVIOUS
<1>11. Normalize(p) = [ok |-> ~deep, text |-> Cut(full), whole |-> whole]
  BY <1>7, <1>10
<1>12. /\ Normalize(p).ok = ~deep /\ Normalize(p).text = Cut(full)
       /\ Normalize(p).whole = whole
  BY <1>11
<1> QED BY <1>8, <1>9, <1>10, <1>12

\* fs_cd keeps the text the name of the directory, or notes that it does not.
Sound(r) ==
  /\ r.cwd \in dirs /\ r.path \in Seq(Segment) /\ r.lost \in BOOLEAN
  /\ ~r.lost => r.path \in Seq(GoodName) /\ r.cwd = Real(r.path)

LEMMA ResolvedByText ==
  ASSUME PathInv, NEW p \in PathType, p.abs \/ ~lost, NEW d \in ResolveDir(p)
  PROVE  FullText(p) \in Seq(GoodName) /\ d = Real(FullText(p))
<1>1. PICK w \in Seq(Segment) : w = Walk(p.segs)
  BY PathIs, WalkIs
<1>2. \A i \in 1..Len(w) : Len(w[i]) <= NameMax
  BY <1>1, PathIs, WalkIs
<1>3. Base(p) \in Seq(GoodName) /\ d \in Found(Real(Base(p)), w)
  BY <1>1, OriginIsBase DEF ResolveDir
<1>4. FullText(p) = Along(Base(p), Ups(w))
  BY <1>1 DEF FullText
<1> QED BY <1>2, <1>3, <1>4, FoundByText

LEMMA ResolvedThere ==
  ASSUME PathInv, NEW p \in PathType, NEW d \in ResolveDir(p)
  PROVE  d \in dirs
<1>1. Walk(p.segs) \in Seq(Segment)
  BY PathIs, WalkIs
<1> QED BY <1>1, OriginThere, FoundThere DEF ResolveDir

LEMMA StaySound == PathInv => Sound(Stay) /\ Sound([Stay EXCEPT !.ok = TRUE]) /\ Sound(GoTop)
<1> SUFFICES ASSUME PathInv PROVE Sound(Stay) /\ Sound([Stay EXCEPT !.ok = TRUE]) /\ Sound(GoTop)
  OBVIOUS
<1>1. Sound(Stay)
  BY DEF PathInv, Sound, Stay
<1>2. Sound([Stay EXCEPT !.ok = TRUE])
  BY DEF PathInv, Sound, Stay
<1>3. Sound(GoTop)
  BY NoSegments DEF PathInv, Closed, Sound, GoTop, Top
<1> QED BY <1>1, <1>2, <1>3

LEMMA CdSound ==
  ASSUME PathInv, NEW p \in PathType
  PROVE  Sound(FsCd(p))
<1>1. CASE p \in {Rel(<<>>), Rel(<<Dot>>)}
  BY <1>1, StaySound DEF FsCd
<1>2. CASE p \notin {Rel(<<>>), Rel(<<Dot>>)} /\ p = Abs(<<>>)
  <2>1. FsCd(p) = GoTop
    BY <1>2 DEF FsCd
  <2> QED BY <2>1, StaySound
<1>3. CASE p \notin {Rel(<<>>), Rel(<<Dot>>)} /\ p # Abs(<<>>) /\ ResolveDir(p) = {}
  <2>1. FsCd(p) = Stay
    BY <1>3 DEF FsCd
  <2> QED BY <2>1, StaySound
<1>4. CASE p \notin {Rel(<<>>), Rel(<<Dot>>)} /\ p # Abs(<<>>) /\ ResolveDir(p) # {}
  <2>1. PICK d : d = CHOOSE x \in ResolveDir(p) : TRUE
    OBVIOUS
  <2>2. d \in ResolveDir(p)
    BY <1>4, <2>1
  <2>3. PICK n : n = Normalize(p)
    OBVIOUS
  <2>4. /\ n.text \in Seq(Segment) /\ n.whole \in BOOLEAN
        /\ n.whole => n.text = FullText(p) /\ n.ok
    BY <2>3, NormalizeIs DEF PathInv
  <2>5. PICK t : t = IF n.ok THEN n.text ELSE <<>>
    OBVIOUS
  <2>6. t \in Seq(Segment) /\ (n.whole => t = FullText(p))
    BY <2>4, <2>5, NoSegments
  <2>7. PICK l \in BOOLEAN : l = (~n.whole \/ (lost /\ ~p.abs))
    OBVIOUS
  <2>8. FsCd(p) = [ok |-> TRUE, cwd |-> d, path |-> t, lost |-> l]
    BY <1>4, <2>1, <2>3, <2>5, <2>7 DEF FsCd
  <2>9. d \in dirs
    BY <2>2, ResolvedThere
  <2>10. ASSUME ~l PROVE t \in Seq(GoodName) /\ d = Real(t)
    <3>1. n.whole /\ (p.abs \/ ~lost)
      BY <2>4, <2>7, <2>10
    <3> QED BY <2>2, <2>6, <3>1, ResolvedByText
  <2> QED BY <2>6, <2>8, <2>9, <2>10 DEF Sound
<1> QED BY <1>1, <1>2, <1>3, <1>4

\* What a path names, as an entry of a directory.
LEMMA NamedIs ==
  ASSUME PathInv, NEW p \in PathType, NEW o \in Named(p)
  PROVE  /\ p.segs # <<>> /\ TooLong(p.segs) = {}
         /\ Last(p.segs) \in Segment
         /\ Last(p.segs) \notin {Dot, DotDot} /\ Is83(Last(p.segs))
         /\ \E d \in Found(Origin(p), Front(p.segs)) :
              d \in dirs /\ o = Append(d, Name83(Last(p.segs)))
         /\ Front(p.segs) \in Seq(Segment) /\ Len(p.segs) \in Nat \ {0}
<1>1. /\ p.segs # <<>> /\ TooLong(p.segs) = {}
      /\ Last(p.segs) \notin {Dot, DotDot} /\ Is83(Last(p.segs))
      /\ \E d \in Found(Origin(p), Front(p.segs)) : o = Append(d, Name83(Last(p.segs)))
  <2>1. CASE p.segs = <<>> \/ TooLong(p.segs) # {}
    BY <2>1 DEF Named
  <2>2. CASE ~(p.segs = <<>> \/ TooLong(p.segs) # {})
    BY <2>2 DEF Named
  <2> QED BY <2>1, <2>2
<1>2. p.segs \in Seq(Segment) /\ Len(p.segs) \in Nat \ {0}
  BY <1>1, PathIs, EmptySeq
<1>3. Last(p.segs) \in Segment /\ Front(p.segs) \in Seq(Segment)
  BY <1>2, SeqIs, FrontIs DEF Last
<1> QED BY <1>1, <1>2, <1>3, OriginThere, FoundThere

LEMMA NamedIsOne ==
  ASSUME PathInv, NEW p \in PathType, NEW o \in Named(p), NEW e \in Named(p)
  PROVE  o = e
<1>1. PICK w \in Seq(Segment) : w = Front(p.segs)
  BY NamedIs
<1>2. PICK d \in Found(Origin(p), w) : o = Append(d, Name83(Last(p.segs)))
  BY <1>1, NamedIs
<1>3. PICK c \in Found(Origin(p), w) : e = Append(c, Name83(Last(p.segs)))
  BY <1>1, NamedIs
<1>4. d = c
  BY FoundIs
<1> QED BY <1>2, <1>3, <1>4

LEMMA NamedThere ==
  ASSUME PathInv, NEW p \in PathType, NEW o \in Named(p)
  PROVE  o \in Seq(Segment) /\ o # Top /\ Front(o) \in dirs
<1>1. PICK d \in dirs : o = Append(d, Name83(Last(p.segs)))
  BY NamedIs
<1>2. PICK s \in Segment : s = Name83(Last(p.segs))
  BY NamedIs, Name83Is
<1>3. d \in Seq(Segment)
  BY DEF PathInv, Closed
<1>4. PICK n \in Nat : n = Len(d)
  BY <1>3, SeqIs
<1>5. /\ o \in Seq(Segment) /\ Len(o) = n + 1 /\ o # <<>>
      /\ \A i \in 1..n : o[i] = d[i]
  BY <1>1, <1>2, <1>3, <1>4, AppendProperties
<1>6. /\ Front(o) \in Seq(Segment) /\ Len(Front(o)) = n
      /\ \A i \in 1..n : Front(o)[i] = o[i]
  <2>1. (n + 1) - 1 = n /\ n + 1 # 0
    OBVIOUS
  <2> QED BY <1>5, <2>1, FrontIs
<1>7. Front(o) = d
  BY <1>3, <1>4, <1>5, <1>6, SeqEqual
<1> QED BY <1>5, <1>7 DEF Top
-----------------------------------------------------------------------------
(* The invariant of the current directory. *)

LEMMA WordsRun ==
  ASSUME LineInv, WordsAsTyped, at = "done"
  PROVE  Argv \in Seq(Seq(Chars))
<1>1. PICK W \in Seq(Seq(Chars)) : W = Words(line)
  BY WordsTyped DEF LineInv
<1>2. PICK n \in Nat : n = Len(W)
  BY SeqIs
<1>3. PICK m \in Nat : m = (IF n <= ArgvCap THEN n ELSE ArgvCap) /\ m <= n
  BY LineAssumption
<1>4. Argv = SubSeq(W, 1, m)
  BY <1>1, <1>2, <1>3 DEF WordsAsTyped
<1>5. \A i \in 1..m : W[i] \in Seq(Chars)
  BY <1>2, <1>3, SeqIs
<1> QED BY <1>4, <1>5, SubSeqProperties

LEMMA ArgIs ==
  ASSUME LineInv, WordsAsTyped, at = "done"
  PROVE  Arg \in Seq(Chars)
<1>1. Argv \in Seq(Seq(Chars))
  BY WordsRun
<1>2. Len(Argv) > 1 => Argv[2] \in Seq(Chars)
  <2>1. Len(Argv) \in Nat
    BY <1>1, SeqIs
  <2>2. Len(Argv) > 1 => 2 \in 1..Len(Argv)
    BY <2>1
  <2> QED BY <1>1, <2>2, SeqIs
<1> QED BY <1>2, EmptySeq DEF Arg

LEMMA PathTyped ==
  ASSUME LineInv, WordsAsTyped, at = "done"
  PROVE  Path \in PathType
<1>1. Arg \in Seq(Chars)
  BY ArgIs
<1>2. CASE Arg = <<>>
  BY <1>2, NoSegments, NewPathIs DEF Path
<1>3. CASE Arg # <<>> /\ Arg[1] \in DOMAIN Paths
  BY <1>3, ShellAssumption DEF Path
<1>4. CASE Arg # <<>> /\ Arg[1] \notin DOMAIN Paths
  <2>1. Chars \subseteq Letters
    BY ShellAssumption
  <2>2. Arg \in Segment
    BY <1>1, <1>4, <2>1, SeqMonotonic DEF Segment
  <2>3. <<Arg>> \in Seq(Segment)
    BY <2>2
  <2> QED BY <1>4, <2>3, NewPathIs DEF Path
<1> QED BY <1>2, <1>3, <1>4

LEMMA HomeIs == PathInv => HOME \in Seq(Segment)
BY ShellAssumption, NoSegments DEF PathInv, HOME, Top

LEMMA ExpandIs ==
  ASSUME PathInv, NEW p \in PathType
  PROVE  Expand(p) \in PathType
<1>1. CASE ~p.abs /\ p.segs # <<>> /\ p.segs[1] = Tilde
  <2>1. Tail(p.segs) \in Seq(Segment)
    BY <1>1, PathIs, HeadTailProperties
  <2>2. HOME \o Tail(p.segs) \in Seq(Segment)
    BY <2>1, HomeIs, ConcatProperties
  <2> QED BY <1>1, <2>2, NewPathIs DEF Expand
<1>2. CASE ~(~p.abs /\ p.segs # <<>> /\ p.segs[1] = Tilde)
  BY <1>2 DEF Expand
<1> QED BY <1>1, <1>2

LEMMA TargetIs ==
  ASSUME PathInv, LineInv, WordsAsTyped, at = "done",
         ~(Arg = <<"-">> /\ prev = NoPath)
  PROVE  CdTarget \in PathType
<1>1. CASE Arg = <<>>
  <2>1. Abs(HOME) \in PathType
    BY HomeIs, NewPathIs
  <2> QED BY <1>1, <2>1, ExpandIs DEF CdTarget
<1>2. CASE Arg # <<>> /\ Arg = <<"-">>
  <2>1. prev \in PathType
    BY <1>2 DEF PathInv
  <2> QED BY <1>2, <2>1, ExpandIs DEF CdTarget
<1>3. CASE Arg # <<>> /\ Arg # <<"-">>
  BY <1>3, PathTyped, ExpandIs DEF CdTarget
<1> QED BY <1>1, <1>2, <1>3

LEMMA MoveKeeps ==
  ASSUME PathInv, NEW r, Sound(r), Move(r), dirs' = dirs,
         prev' = NoPath \/ prev' \in PathType,
         who' \in DOMAIN Homes \/ who' = Nobody
  PROVE  PathInv'
<1>1. Closed'
  BY DEF PathInv, Closed
<1>2. /\ cwd' \in dirs' /\ path' \in Seq(Segment) /\ lost' \in BOOLEAN
      /\ ~lost' => path' \in Seq(GoodName) /\ cwd' = Real(path')
  BY DEF Sound, Move
<1> QED BY <1>1, <1>2 DEF PathInv, Real

LEMMA DirsKeep ==
  ASSUME PathInv, Closed', cwd \in dirs', UNCHANGED <<place, prev, who>>
  PROVE  PathInv'
<1>1. /\ cwd' \in dirs' /\ path' \in Seq(Segment) /\ lost' \in BOOLEAN
      /\ ~lost' => path' \in Seq(GoodName) /\ cwd' = Real(path')
      /\ prev' = NoPath \/ prev' \in PathType
      /\ who' \in DOMAIN Homes \/ who' = Nobody
  BY DEF PathInv, place
<1> QED BY <1>1 DEF PathInv, Real

LEMMA SameDirs ==
  ASSUME PathInv, dirs' = dirs, UNCHANGED <<place, prev, who>>
  PROVE  PathInv'
<1>1. Closed' /\ cwd \in dirs'
  BY DEF PathInv, Closed
<1> QED BY <1>1, DirsKeep

\* A directory that is made is an entry of one that is there.
LEMMA MkdirKeeps ==
  ASSUME PathInv, NEW p \in PathType, dirs' = dirs \cup Named(p),
         UNCHANGED <<place, prev, who>>
  PROVE  PathInv'
<1>1. ASSUME NEW d \in dirs' PROVE d \in Seq(Segment) /\ (d = Top \/ Front(d) \in dirs')
  <2>1. CASE d \in dirs
    BY <2>1 DEF PathInv, Closed
  <2>2. CASE d \in Named(p)
    BY <2>2, NamedThere
  <2> QED BY <2>1, <2>2
<1>2. Top \in dirs' /\ cwd \in dirs'
  BY DEF PathInv, Closed
<1>3. Closed'
  BY <1>1, <1>2 DEF Closed
<1> QED BY <1>2, <1>3, DirsKeep

\* One that is removed is empty, and nobody's place.
LEMMA RmdirKeeps ==
  ASSUME PathInv, NEW p \in PathType, dirs' = dirs \ Named(p),
         NEW e \in Named(p), e \in dirs, e # cwd, Empty(e),
         UNCHANGED <<place, prev, who>>
  PROVE  PathInv'
<1>1. \A d \in Named(p) : d = e /\ d # Top
  BY NamedIsOne, NamedThere
<1>2. Top \in dirs' /\ cwd \in dirs'
  BY <1>1 DEF PathInv, Closed
<1>3. ASSUME NEW d \in dirs' PROVE d \in Seq(Segment) /\ (d = Top \/ Front(d) \in dirs')
  <2>1. d \in dirs /\ d \in Seq(Segment) /\ (d = Top \/ Front(d) \in dirs)
    BY DEF PathInv, Closed
  <2>2. d # Top => Front(d) # e
    BY <2>1 DEF Empty
  <2>3. d # Top => Front(d) \notin Named(p)
    BY <1>1, <2>2
  <2> QED BY <2>1, <2>3
<1>4. Closed'
  BY <1>2, <1>3 DEF Closed
<1> QED BY <1>2, <1>4, DirsKeep

LEMMA RefuseKeeps ==
  ASSUME PathInv, Refuse PROVE PathInv'
BY SameDirs DEF Refuse, world, place

LEMMA GoHomeSound ==
  ASSUME PathInv, NEW h \in Seq(Segment) PROVE Sound(GoHome(h))
<1>1. Sound(FsCd(Abs(h)))
  BY NewPathIs, CdSound
<1> QED BY <1>1, StaySound DEF GoHome

LEMMA CdKeeps ==
  ASSUME PathInv, LineInv, WordsAsTyped, RunCd PROVE PathInv'
<1>1. CASE Refuse
  BY <1>1, RefuseKeeps
<1>2. CASE ~(Arg = <<"-">> /\ prev = NoPath) /\ CdGo
  <2>1. at = "done"
    BY DEF RunCd, Run
  <2>2. Sound(FsCd(CdTarget))
    BY <1>2, <2>1, TargetIs, CdSound
  <2>3. Abs(path) \in PathType
    BY NewPathIs DEF PathInv
  <2>4. /\ Move(FsCd(CdTarget)) /\ dirs' = dirs /\ who' = who /\ prev' = Abs(path)
    BY <1>2 DEF CdGo, world
  <2>5. who' \in DOMAIN Homes \/ who' = Nobody
    BY <2>4 DEF PathInv
  <2> QED BY <2>2, <2>3, <2>4, <2>5, MoveKeeps
<1> QED BY <1>1, <1>2 DEF RunCd

LEMMA OnPathKeeps ==
  ASSUME PathInv, LineInv, WordsAsTyped,
         RunLs \/ RunCat \/ RunWrite \/ RunRm \/ RunMkdir \/ RunRmdir
  PROVE  PathInv'
<1>1. CASE Refuse
  BY <1>1, RefuseKeeps
<1>2. CASE dirs' = dirs /\ UNCHANGED <<who, place, prev>>
  BY <1>2, SameDirs
<1>3. CASE at = "done" /\ dirs' = dirs \cup Named(Path) /\ UNCHANGED <<who, place, prev>>
  BY <1>3, PathTyped, MkdirKeeps
<1>4. CASE /\ at = "done" /\ dirs' = dirs \ Named(Path) /\ UNCHANGED <<who, place, prev>>
           /\ \E d \in Named(Path) \cap dirs : d # cwd /\ Empty(d)
  BY <1>4, PathTyped, RmdirKeeps
<1> QED BY <1>1, <1>2, <1>3, <1>4
        DEF RunLs, RunCat, RunWrite, RunRm, RunMkdir, RunRmdir, OnPath, Run

LEMMA AccountKeeps ==
  ASSUME PathInv, RunPasswd \/ RunLogout \/ \E u \in DOMAIN Homes : Login(u)
  PROVE  PathInv'
<1>1. CASE Refuse
  BY <1>1, RefuseKeeps
<1>2. CASE Move(GoHome(HOME)) /\ UNCHANGED <<world, prev>>
  <2>1. Sound(GoHome(HOME))
    BY HomeIs, GoHomeSound
  <2>2. dirs' = dirs /\ who' = who /\ prev' = prev
    BY <1>2 DEF world
  <2>3. (who' \in DOMAIN Homes \/ who' = Nobody) /\ (prev' = NoPath \/ prev' \in PathType)
    BY <2>2 DEF PathInv
  <2> QED BY <1>2, <2>1, <2>2, <2>3, MoveKeeps
<1>3. CASE Move(GoTop) /\ who' = Nobody /\ UNCHANGED <<dirs, prev>>
  <2>1. Sound(GoTop)
    BY StaySound
  <2>2. prev' = NoPath \/ prev' \in PathType
    BY <1>3 DEF PathInv
  <2> QED BY <1>3, <2>1, <2>2, MoveKeeps
<1>4. ASSUME NEW u \in DOMAIN Homes, Login(u) PROVE PathInv'
  <2>1. Sound(GoHome(Homes[u]))
    BY ShellAssumption, GoHomeSound
  <2>2. who' = u /\ Move(GoHome(Homes[u])) /\ dirs' = dirs /\ prev' = prev
    BY <1>4 DEF Login
  <2>3. prev' = NoPath \/ prev' \in PathType
    BY <2>2 DEF PathInv
  <2> QED BY <2>1, <2>2, <2>3, MoveKeeps
<1> QED BY <1>1, <1>2, <1>3, <1>4 DEF RunPasswd, RunLogout

\* The text of the current directory names it, unless it was lost.
THEOREM PathInvHolds == Spec => []PathInv
<1>1. Init => PathInv
  <2> SUFFICES ASSUME Init PROVE PathInv
    OBVIOUS
  <2>1. /\ setup \in DOMAIN Setups /\ dirs = Setups[setup].dirs
        /\ who = Nobody /\ cwd = Top /\ path = <<>> /\ lost = FALSE /\ prev = NoPath
    BY DEF Init
  <2>2. /\ Top \in dirs
        /\ \A d \in dirs : d \in Seq(Segment) /\ (d = Top \/ Front(d) \in dirs)
    BY <2>1, ShellAssumption
  <2>3. Closed
    BY <2>2 DEF Closed
  <2> QED BY <2>1, <2>2, <2>3, NoSegments DEF PathInv, Top
<1>2. ASSUME PathInv, LineInv, WordsAsTyped, [Next]_vars PROVE PathInv'
  <2>1. CASE Type \/ Parse \/ UNCHANGED vars
    <3>1. dirs' = dirs /\ UNCHANGED <<place, prev, who>>
      BY <2>1 DEF Type, Parse, vars, shellVars, world
    <3> QED BY <1>2, <3>1, SameDirs
  <2>2. CASE \E u \in DOMAIN Homes : Login(u)
    BY <1>2, <2>2, AccountKeeps
  <2>3. CASE RunLine
    <3>1. CASE RunCd
      BY <1>2, <3>1, CdKeeps
    <3>2. CASE RunLs \/ RunCat \/ RunWrite \/ RunRm \/ RunMkdir \/ RunRmdir
      BY <1>2, <3>2, OnPathKeeps
    <3>3. CASE RunPasswd \/ RunLogout
      BY <1>2, <3>3, AccountKeeps
    <3>4. CASE RunOther \/ WrongUsage \/ NotFound
      BY <1>2, <3>4, RefuseKeeps DEF RunOther, WrongUsage, NotFound
    <3> QED BY <2>3, <3>1, <3>2, <3>3, <3>4 DEF RunLine
  <2> QED BY <1>2, <2>1, <2>2, <2>3 DEF Next
<1>3. Spec => []LineInv
  BY ShellSplitsLines, LineInvHolds, PTL
<1> QED BY <1>1, <1>2, <1>3, ShellWordsAsTyped, PTL DEF Spec
-----------------------------------------------------------------------------
(* What the text is good for. *)

LEMMA GoodWalk ==
  ASSUME NEW t \in Seq(GoodName)
  PROVE  t \in Seq(Segment) /\ TooLong(t) = {} /\ Walk(t) = t
<1>1. GoodName \subseteq Segment
  BY DEF GoodName
<1>2. t \in Seq(Segment)
  BY <1>1, SeqMonotonic
<1>3. NameMax \in Nat
  BY ShellAssumption DEF NameMax
<1>4. \A i \in DOMAIN t : Len(t[i]) \in Nat /\ Len(t[i]) <= NameMax
  BY SeqIs, GoodNameIs, SegmentIs
<1>5. TooLong(t) = {}
  BY <1>3, <1>4 DEF TooLong
<1> QED BY <1>2, <1>5 DEF Walk

LEMMA TextResolves ==
  ASSUME PathInv, NEW t \in Seq(GoodName), Real(t) \in dirs
  PROVE  ResolveDir(Abs(t)) = {Real(t)}
<1>1. Abs(t).segs = t /\ Abs(t).abs = TRUE
  BY DEF Abs
<1>2. ResolveDir(Abs(t)) = Found(Top, t)
  BY <1>1, GoodWalk DEF ResolveDir, Origin
<1> QED BY <1>2, TextIsFound DEF PathInv

\* An entry: its directory is walked to as far as the name, and so is the text.
LEMMA TextNames ==
  ASSUME PathInv, ~lost, NEW p \in PathType, NEW o \in Named(p)
  PROVE  Named(Abs(FullText(p))) = {o}
<1>1. PICK w \in Seq(Segment) : w = p.segs
  BY PathIs
<1>2. PICK n \in Nat : n = Len(w)
  BY <1>1, SeqIs
<1>3. PICK f \in Seq(Segment) : f = Front(w)
  BY <1>1, NamedIs
<1>4. n # 0 /\ TooLong(w) = {} /\ Walk(w) = w
  BY <1>1, <1>2, NamedIs, WalkIs
<1>5. PICK m \in Nat : m = n - 1
  BY <1>4
<1>6. Len(f) = m /\ \A i \in 1..m : f[i] = w[i]
  BY <1>2, <1>3, <1>4, <1>5, FrontIs
<1>7. PICK s \in Segment : s = w[n] /\ s \notin {Dot, DotDot} /\ Is83(s)
  BY <1>1, <1>2, NamedIs DEF Last
<1>8. PICK d \in dirs : d \in Found(Origin(p), f) /\ o = Append(d, Name83(s))
  BY <1>1, <1>2, <1>3, <1>7, NamedIs DEF Last
<1>9. PICK base \in Seq(GoodName) : base = Base(p) /\ Origin(p) = Real(base)
  BY OriginIsBase
<1>10. \A i \in 1..n : Len(w[i]) <= NameMax
  BY <1>1, <1>2, <1>4, PathIs, WalkIs
<1>11. n \in 1..n /\ m \in 0..n /\ \A i \in 1..m : i \in 1..n
  BY <1>4, <1>5
<1>12. \A i \in 1..Len(f) : Len(f[i]) <= NameMax
  BY <1>6, <1>10, <1>11
<1>13. PICK t \in Seq(GoodName) : t = Along(base, Ups(f)) /\ d = Real(t)
  BY <1>8, <1>9, <1>12, FoundByText
\* The text goes on from there by the name.
<1>14. FullText(p) = Append(t, Upper(s))
  <2>1. FullText(p) = Stops(base, Ups(w))[n]
    BY <1>1, <1>2, <1>4, <1>9, UpsIs DEF FullText, Along
  <2>2. t = Stops(base, Ups(f))[m]
    BY <1>6, <1>13, UpsIs DEF Along
  <2>3. PICK a : a = Stops(base, Ups(w))
    OBVIOUS
  <2>4. PICK b : b = Stops(base, Ups(f))
    OBVIOUS
  <2>5. a[0] = base /\ \A i \in 1..n : a[i] = Into(a[i - 1], Upper(w[i]))
    BY <1>2, <2>3, UpsIs, StopsSteps
  <2>6. b[0] = base /\ \A i \in 1..m : b[i] = Into(b[i - 1], Upper(f[i]))
    <3>1. Len(Ups(f)) = m /\ \A i \in 1..m : Ups(f)[i] = Upper(f[i])
      BY <1>6, UpsIs
    <3>2. PICK uf : uf = Ups(f)
      OBVIOUS
    <3>3. Len(uf) = m /\ \A i \in 1..m : uf[i] = Upper(f[i])
      BY <3>1, <3>2
    <3>4. b[0] = base /\ \A i \in 1..m : b[i] = Into(b[i - 1], uf[i])
      <4>1. b = Stops(base, uf) /\ Len(uf) \in Nat
        BY <2>4, <3>2, <3>3
      <4>2. /\ Stops(base, uf)[0] = base
            /\ \A i \in 1..Len(uf) : Stops(base, uf)[i] = Into(Stops(base, uf)[i - 1], uf[i])
        BY <4>1, StopsSteps
      <4> QED BY <3>3, <4>1, <4>2
    <3> QED BY <3>3, <3>4
  <2> DEFINE S == {i \in Nat : i <= m => a[i] = b[i]}
  <2>7. 0 \in S
    BY <2>5, <2>6
  <2>8. ASSUME NEW i \in Nat, i \in S PROVE i + 1 \in S
    <3> SUFFICES ASSUME i + 1 <= m PROVE a[i + 1] = b[i + 1]
      OBVIOUS
    <3>1. i + 1 \in 1..m /\ (i + 1) - 1 = i /\ i <= m
      BY <1>5
    <3>2. a[i + 1] = Into(a[i], Upper(w[i + 1]))
      BY <1>11, <2>5, <3>1
    <3>3. b[i + 1] = Into(b[i], Upper(f[i + 1]))
      BY <2>6, <3>1
    <3>4. f[i + 1] = w[i + 1] /\ a[i] = b[i]
      BY <1>6, <2>8, <3>1
    <3> QED BY <3>2, <3>3, <3>4
  <2> HIDE DEF S
  <2>9. \A i \in Nat : i \in S
    BY <2>7, <2>8, NatSetInduction
  <2>10. a[m] = b[m]
    BY <2>9 DEF S
  <2>11. a[n] = Into(t, Upper(s))
    BY <1>5, <1>7, <1>11, <2>2, <2>4, <2>5, <2>10
  <2>12. Upper(s) # Dot /\ Upper(s) # DotDot
    BY <1>7, UpperDots
  <2> QED BY <2>1, <2>3, <2>11, <2>12 DEF Into
<1>15. PICK u \in GoodName : u = Upper(s)
  <2>1. Upper(s) \in Segment /\ Len(Upper(s)) = Len(s) /\ Upper(Upper(s)) = Upper(s)
    BY UpperIs
  <2>2. Upper(s) # Dot /\ Upper(s) # DotDot /\ Is83(Upper(s))
    BY <1>7, UpperDots, UpperIs83
  <2>3. Len(s) <= NameMax
    BY <1>7, <1>10, <1>11
  <2> QED BY <2>1, <2>2, <2>3 DEF GoodName
<1>16. PICK full \in Seq(GoodName) : full = Append(t, u)
  BY AppendProperties
<1>17. PICK k \in Nat : k = Len(t)
  BY SeqIs
<1>18. /\ Len(full) = k + 1 /\ full[k + 1] = u /\ full # <<>>
       /\ \A i \in 1..k : full[i] = t[i]
  BY <1>16, <1>17, AppendProperties
<1>19. Last(full) = u
  BY <1>18 DEF Last
<1>20. Front(full) = t
  <2>1. Len(full) - 1 = k /\ Len(full) # 0
    BY <1>18
  <2>2. /\ Front(full) \in Seq(GoodName) /\ Len(Front(full)) = k
        /\ \A i \in 1..k : Front(full)[i] = full[i]
    BY <2>1, FrontIs
  <2>3. \A i \in 1..k : Front(full)[i] = t[i]
    BY <1>18, <2>2
  <2> QED BY <1>17, <2>2, <2>3, SeqEqual
<1>21. u \notin {Dot, DotDot} /\ Is83(u) /\ Name83(u) = Name83(s)
  BY <1>15, GoodNameIs, UpperName83
<1>22. Found(Top, t) = {d}
  BY <1>8, <1>13, TextIsFound DEF PathInv
<1>23. TooLong(full) = {}
  BY GoodWalk
<1>24. Abs(full).segs = full /\ Origin(Abs(full)) = Top
  BY DEF Abs, Origin
<1>25. Named(Abs(full)) = {Append(x, Name83(u)) : x \in {d}}
  BY <1>18, <1>19, <1>20, <1>21, <1>22, <1>23, <1>24 DEF Named
<1> QED BY <1>8, <1>14, <1>15, <1>16, <1>21, <1>25

\* The text that permissions are asked for names what the call then acts on,
\* for every tree, every path and wherever the shell is, unless texts were cut
\* (perm_allow_path, fs_make_abs_path, fat_resolve_dir).
THEOREM TextAlwaysNamesObject == Spec => []TextNamesObject
<1>1. PathInv => TextNamesObject
  <2> SUFFICES ASSUME PathInv, ~lost, NEW c \in DOMAIN Paths,
                      Normalize(Paths[c]).whole
               PROVE  /\ \A d \in ResolveDir(Paths[c]) :
                           ResolveDir(Abs(Normalize(Paths[c]).text)) = {d}
                      /\ \A o \in Named(Paths[c]) :
                           Named(Abs(Normalize(Paths[c]).text)) = {o}
    BY DEF TextNamesObject
  <2>1. PICK p \in PathType : p = Paths[c]
    BY ShellAssumption
  <2>2. Normalize(p).text = FullText(p)
    BY <2>1, NormalizeIs DEF PathInv
  <2>3. \A d \in ResolveDir(p) : ResolveDir(Abs(FullText(p))) = {d}
    <3> TAKE d \in ResolveDir(p)
    <3>1. FullText(p) \in Seq(GoodName) /\ d = Real(FullText(p)) /\ d \in dirs
      BY ResolvedByText, ResolvedThere
    <3> QED BY <3>1, TextResolves
  <2>4. \A o \in Named(p) : Named(Abs(FullText(p))) = {o}
    BY TextNames
  <2> QED BY <2>1, <2>2, <2>3, <2>4
<1> QED BY <1>1, PathInvHolds, PTL

\* Where HOME is a prefix of the text, "~" and the rest are the text again.
LEMMA ShownIs ==
  ASSUME PathInv
  PROVE  Expand(Shown) = Abs(path)
<1>1. path \in Seq(Segment)
  BY DEF PathInv
<1>2. CASE ~Shortened
  BY <1>2 DEF Shown, Expand, Abs
<1>3. CASE Shortened
  <2>1. PICK h \in Seq(Segment) : h = HOME
    BY HomeIs
  <2>2. PICK k \in Nat : k = Len(h)
    BY SeqIs
  <2>3. PICK n \in Nat : n = Len(path)
    BY <1>1, SeqIs
  <2>4. k <= n /\ SubSeq(h, 1, k) = SubSeq(path, 1, k)
    <3>1. h # <<>> /\ IsPrefix(h, path)
      BY <1>3, <2>1 DEF Shortened, Under, Top
    <3> QED BY <2>2, <2>3, <3>1 DEF IsPrefix
  <2>5. \A i \in 1..k : i \in 1..n /\ h[i] = path[i]
    <3>1. \A i \in 1..k : i \in 1..n
      BY <2>4
    <3>2. \A i \in 1..k : path[i] \in Segment
      BY <1>1, <2>3, <3>1, SeqIs
    <3>3. \A i \in 1..k : SubSeq(path, 1, k)[i] = path[i]
      BY <3>2, SubSeqProperties
    <3>4. SubSeq(h, 1, k) = h
      BY <2>2, SubSeqFull
    <3> QED BY <2>4, <3>1, <3>3, <3>4
  <2>6. PICK rest : rest = SubSeq(path, k + 1, n)
    OBVIOUS
  <2>7. /\ rest \in Seq(Segment) /\ Len(rest) = n - k
        /\ \A i \in 1..n - k : rest[i] = path[k + i]
    <3>1. \A i \in (k + 1)..n : i \in 1..n
      OBVIOUS
    <3>2. \A i \in (k + 1)..n : path[i] \in Segment
      BY <1>1, <2>3, <3>1, SeqIs
    <3>3. /\ k + 1 \in Int /\ n \in Int /\ n - (k + 1) + 1 = n - k
          /\ (IF k + 1 <= n THEN n - (k + 1) + 1 ELSE 0) = n - k
      BY <2>4
    <3>4. /\ rest \in Seq(Segment) /\ Len(rest) = n - k
          /\ \A i \in 1..n - k : rest[i] = path[(k + 1) + i - 1]
      BY <2>6, <3>2, <3>3, SubSeqProperties
    <3>5. \A i \in 1..n - k : (k + 1) + i - 1 = k + i
      OBVIOUS
    <3> QED BY <3>4, <3>5
  <2>8. h \o rest = path
    <3>1. /\ h \o rest \in Seq(Segment) /\ Len(h \o rest) = k + (n - k)
          /\ \A i \in 1..k + (n - k) : (h \o rest)[i] = IF i <= k THEN h[i] ELSE rest[i - k]
      BY <2>2, <2>7, ConcatProperties
    <3>2. k + (n - k) = n
      OBVIOUS
    <3>3. \A i \in 1..n : (h \o rest)[i] = path[i]
      <4> TAKE i \in 1..n
      <4>1. CASE i <= k
        BY <2>5, <3>1, <3>2, <4>1
      <4>2. CASE ~(i <= k)
        <5>1. i - k \in 1..n - k /\ k + (i - k) = i
          BY <4>2
        <5> QED BY <2>7, <3>1, <3>2, <4>2, <5>1
      <4> QED BY <4>1, <4>2
    <3> QED BY <1>1, <2>3, <3>1, <3>2, <3>3, SeqEqual
  <2>9. PICK q : q = <<Tilde>> \o rest
    OBVIOUS
  <2>10. q # <<>> /\ q[1] = Tilde /\ Tail(q) = rest
    <3>1. Tilde \in Segment
      BY ShellAssumption DEF Tilde, Segment
    <3>2. <<Tilde>> \in Seq(Segment) /\ Len(<<Tilde>>) = 1 /\ <<Tilde>>[1] = Tilde
      BY <3>1
    <3>3. PICK l \in Nat : l = Len(rest)
      BY <2>7, SeqIs
    <3>4. PICK z \in Seq(Segment) : z = <<Tilde>>
      BY <3>2
    <3>5. Len(z) = 1 /\ z[1] = Tilde /\ q = z \o rest
      BY <2>9, <3>2, <3>4
    <3>6. /\ q \in Seq(Segment) /\ Len(q) = 1 + l
          /\ \A i \in 1..1 + l : q[i] = IF i <= 1 THEN z[i] ELSE rest[i - 1]
      <4>1. rest \in Seq(Segment)
        BY <2>7
      <4>2. /\ z \o rest \in Seq(Segment) /\ Len(z \o rest) = Len(z) + Len(rest)
            /\ \A i \in 1..Len(z) + Len(rest) :
                 (z \o rest)[i] = IF i <= Len(z) THEN z[i] ELSE rest[i - Len(z)]
        BY <4>1, ConcatProperties
      <4> QED BY <3>3, <3>5, <4>2
    <3>7. q # <<>> /\ q[1] = Tilde
      <4>1. 1 \in 1..1 + l
        OBVIOUS
      <4> QED BY <3>5, <3>6, <4>1, EmptySeq
    <3>8. /\ Tail(q) \in Seq(Segment) /\ Len(Tail(q)) = l
          /\ \A i \in 1..l : Tail(q)[i] = q[i + 1]
      <4>1. (1 + l) - 1 = l
        OBVIOUS
      <4> QED BY <3>6, <3>7, <4>1, HeadTailProperties
    <3>9. \A i \in 1..l : Tail(q)[i] = rest[i]
      <4> TAKE i \in 1..l
      <4>1. i + 1 \in 1..1 + l /\ ~(i + 1 <= 1) /\ (i + 1) - 1 = i
        OBVIOUS
      <4> QED BY <3>6, <3>8, <4>1
    <3>10. Tail(q) = rest
      BY <2>7, <3>3, <3>8, <3>9, SeqEqual
    <3> QED BY <3>7, <3>10
  <2>11. Shown = Rel(q)
    BY <1>3, <2>1, <2>2, <2>3, <2>6, <2>9 DEF Shown
  <2>12. Rel(q).segs = q /\ Rel(q).abs = FALSE
    BY DEF Rel
  <2> QED BY <2>1, <2>8, <2>10, <2>11, <2>12 DEF Expand
<1> QED BY <1>2, <1>3

\* Typing cd and what the prompt shows changes nothing, for every home and
\* every directory, as long as its text was not lost (build_prompt,
\* cd_expand_user, fs_cd).
THEOREM PromptAlwaysLeadsHere == Spec => []PromptLeadsHere
<1>1. PathInv => PromptLeadsHere
  <2> SUFFICES ASSUME PathInv, ~lost PROVE ResolveDir(Expand(Shown)) = {cwd}
    BY DEF PromptLeadsHere
  <2>1. path \in Seq(GoodName) /\ cwd = Real(path) /\ cwd \in dirs
    BY DEF PathInv
  <2> QED BY <2>1, ShownIs, TextResolves
<1> QED BY <1>1, PathInvHolds, PTL

\* What "cd -" goes by: the text of the directory the last cd came from.
BackInv ==
  prev # NoPath /\ ~left.lost =>
    \E t \in Seq(GoodName) : prev = Abs(t) /\ left.dir = Real(t)

THEOREM BackInvHolds == Spec => []BackInv
<1>1. Init => BackInv
  BY DEF Init, BackInv
<1>2. ASSUME PathInv, BackInv, [Next]_vars PROVE BackInv'
  <2>1. CASE UNCHANGED <<prev, left>>
    BY <1>2, <2>1 DEF BackInv, Real
  <2>2. CASE CdGo
    <3>1. prev' = Abs(path) /\ left'.dir = cwd /\ left'.lost = lost
      BY <2>2 DEF CdGo
    <3>2. ~lost => path \in Seq(GoodName) /\ cwd = Real(path)
      BY <1>2 DEF PathInv
    <3> QED BY <3>1, <3>2 DEF BackInv, Real
  <2>3. UNCHANGED <<prev, left>> \/ CdGo
    BY <1>2 DEF Next, Type, Parse, Login, RunLine, RunCd, OnPath, RunLs, RunCat,
       RunWrite, RunRm, RunMkdir, RunRmdir, RunPasswd, RunLogout, RunOther,
       WrongUsage, NotFound, Refuse, vars, shellVars
  <2> QED BY <2>1, <2>2, <2>3
<1> QED BY <1>1, <1>2, PathInvHolds, PTL DEF Spec

LEMMA CdBack ==
  ASSUME PathInv, BackInv, RunCd, Argv = <<<<"cd">>, <<"-">>>>,
         prev # NoPath, ~left.lost, left.dir \in dirs, ~Denied(prev)
  PROVE  cwd' = left.dir
<1>1. PICK t \in Seq(GoodName) : prev = Abs(t) /\ left.dir = Real(t)
  BY DEF BackInv
<1>2. Arg = <<"-">> /\ Arg # <<>>
  BY DEF Arg
<1>3. Abs(t).abs = TRUE /\ Abs(t).segs = t
  BY DEF Abs
<1>4. CdTarget = prev
  <2>1. CdTarget = Expand(prev)
    BY <1>2 DEF CdTarget
  <2> QED BY <1>1, <1>3, <2>1 DEF Expand
<1>5. ResolveDir(prev) = {left.dir}
  BY <1>1, TextResolves
<1>6. prev \notin {Rel(<<>>), Rel(<<Dot>>)}
  BY <1>1, <1>3 DEF Rel
<1>7. FsCd(prev).ok /\ FsCd(prev).cwd = left.dir
  <2>1. CASE prev = Abs(<<>>)
    <3>1. t = <<>>
      BY <1>1, <1>3, <2>1 DEF Abs
    <3>2. left.dir = Top
      BY <1>1, <3>1, NoSegments DEF Top
    <3>3. FsCd(prev) = GoTop
      BY <1>6, <2>1 DEF FsCd
    <3> QED BY <3>2, <3>3 DEF GoTop
  <2>2. CASE prev # Abs(<<>>)
    <3>1. PICK d : d = CHOOSE x \in ResolveDir(prev) : TRUE
      OBVIOUS
    <3>2. d = left.dir
      BY <1>5, <3>1
    <3>3. FsCd(prev).ok = TRUE /\ FsCd(prev).cwd = d
      BY <1>5, <1>6, <2>2, <3>1 DEF FsCd
    <3> QED BY <3>2, <3>3
  <2> QED BY <2>1, <2>2
<1>8. CdGo
  BY <1>2, <1>4, <1>7 DEF RunCd
<1> QED BY <1>4, <1>7, <1>8 DEF CdGo, Move

\* "cd -" goes back where the last cd came from, whatever was done between
\* them, if that is still there and its text is not forbidden (run_cd).
THEOREM CdBackAlwaysReturns == Spec => CdBackReturns
<1>1. ASSUME PathInv, BackInv, [Next]_vars,
             at = "done", Argv = <<<<"cd">>, <<"-">>>>,
             prev # NoPath, ~left.lost, left.dir \in dirs, ~Denied(prev)
      PROVE  cwd' = left.dir \/ UNCHANGED vars
  <2>1. Argv # <<>> /\ Len(Argv[1]) = 1 /\ Cmd = "cd" /\ Len(Argv) = 2
    BY <1>1 DEF Cmd
  <2>2. "cd" \in DOMAIN Arities /\ Arities["cd"] = {1, 2} /\ "cd" \in Here
    BY DEF Arities, Here
  <2>3. Known /\ Len(Argv) \in Arities[Cmd]
    BY <2>1, <2>2 DEF Known
  <2>4. ~Type /\ ~Parse /\ \A u \in DOMAIN Homes : ~Login(u)
    BY <1>1 DEF Type, Parse, ParseStep, SkipBlank, EndParse, BeginWord, EndWord,
       ToggleQuote, CopyChar, Login
  <2>5. RunLine => RunCd
    BY <2>1, <2>2, <2>3 DEF RunLine, RunLs, RunCat, RunWrite, RunRm, RunMkdir,
       RunRmdir, RunPasswd, RunLogout, RunOther, WrongUsage, NotFound, OnPath, Run
  <2>6. RunCd \/ UNCHANGED vars
    BY <1>1, <2>4, <2>5 DEF Next
  <2> QED BY <1>1, <2>6, CdBack
<1>2. PathInv /\ BackInv /\ [Next]_vars =>
        [( /\ at = "done" /\ Argv = <<<<"cd">>, <<"-">>>>
           /\ prev # NoPath /\ ~left.lost
           /\ left.dir \in dirs /\ ~Denied(prev) ) => cwd' = left.dir]_vars
  BY <1>1
<1> QED BY <1>2, PathInvHolds, BackInvHolds, PTL DEF Spec, CdBackReturns
=============================================================================
