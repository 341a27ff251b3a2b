--------------------------- MODULE KeyboardProofs ---------------------------
(***************************************************************************)
(* The keyboard ring, of any size, is a first-in first-out queue, although *)
(* the handler writes at its head between any two instructions of          *)
(* _read_key that run with interrupts on.  And the handler that fills it:  *)
(* what the controller sent is what was typed, byte for byte, so no key    *)
(* stays held and each press is one event.                                 *)
(***************************************************************************)
EXTENDS Keyboard, SequenceTheorems, FiniteSetTheorems, TLAPS

Stored == Event \cup {NoEvent}

\* Between its two reads of the tail _read_key holds the oldest event, and the
\* ring still has it.
FetchedIsOldest == pc = "step" => head # tail /\ ax = queue[tail]

KeyInv == TypeOK /\ FetchedIsOldest
-----------------------------------------------------------------------------
LEMMA InitInv == Init => KeyInv
<1> SUFFICES ASSUME Init PROVE KeyInv
  OBVIOUS
<1>1. TypeOK
  <2>1. pend \in Seq(Byte)
    BY DEF Init
  <2>2. codes \in 0..MaxCodes /\ head \in Slots /\ tail \in Slots
    BY KeyboardAssumption DEF Init, Slots
  <2> QED
    BY <2>1, <2>2 DEF Init, TypeOK
<1>2. FetchedIsOldest
  BY DEF Init, FetchedIsOldest
<1> QED
  BY <1>1, <1>2 DEF KeyInv

LEMMA SuccInSlots == \A i \in Slots : Succ(i) \in Slots
  BY KeyboardAssumption DEF Slots, Succ

LEMMA TypistKeeps ==
  ASSUME KeyInv, Typist
  PROVE  KeyInv'
<1> PICK k \in Keys \cup Modifiers : Press(k) \/ Release(k) \/ Repeat(k)
  BY DEF Typist
<1>1. k[1] \in Codes
  BY KeyboardAssumption DEF Codes
<1>2. Make(k[1]) \in Byte /\ Break(k[1]) \in Byte /\ Prefix \in Byte
  BY <1>1 DEF Byte
<1>3. PICK byte \in Byte : Send(k, byte)
  BY <1>2 DEF Press, Release, Repeat
<1>4. pend' \in Seq(Byte) /\ codes' \in 0..MaxCodes
  <2>1. <<Prefix, byte>> \in Seq(Byte) /\ <<byte>> \in Seq(Byte)
    BY <1>2
  <2> QED
    BY <1>3, <2>1, KeyboardAssumption DEF KeyInv, TypeOK, Send
<1>5. held' \subseteq Keys \cup Modifiers /\ presses' \in [Keys -> Nat]
  BY DEF Press, Release, Repeat, KeyInv, TypeOK
<1>6. TypeOK'
  BY <1>3, <1>4, <1>5
  DEF KeyInv, TypeOK, Send, cpu, reader, ring, decode
<1>7. FetchedIsOldest'
  BY <1>3 DEF KeyInv, FetchedIsOldest, Send, reader, ring
<1> QED
  BY <1>6, <1>7 DEF KeyInv

LEMMA PresentKeeps ==
  ASSUME KeyInv, Present
  PROVE  KeyInv'
<1>1. out' \in Byte /\ pend' \in Seq(Byte)
  BY DEF KeyInv, TypeOK, Present
<1>2. TypeOK'
  BY <1>1 DEF KeyInv, TypeOK, Present, typist, cpu, reader, ring, decode
<1>3. FetchedIsOldest'
  BY DEF KeyInv, FetchedIsOldest, Present, reader, ring
<1> QED
  BY <1>2, <1>3 DEF KeyInv

LEMMA HeardCounts ==
  ASSUME KeyInv, NEW s, Heard(s)
  PROVE  heard' \in [Keys -> Nat]
  BY DEF KeyInv, TypeOK, Heard

\* Queueing keeps the oldest event: the ring never fills its last slot.
LEMMA EnqueueKeeps ==
  ASSUME KeyInv, NEW s \in Scans, Enqueue(Translate(s)), UNCHANGED reader
  PROVE  /\ queue' \in [Slots -> Stored] /\ head' \in Slots /\ tail' = tail
         /\ lost' \in BOOLEAN
         /\ FetchedIsOldest'
<1>1. Translate(s) \in Event
  BY DEF Translate, Event
<1>2. queue' \in [Slots -> Stored] /\ head' \in Slots /\ tail' = tail
      /\ lost' \in BOOLEAN
  BY <1>1, SuccInSlots DEF KeyInv, TypeOK, Enqueue, Stored
<1>3. FetchedIsOldest'
  BY DEF KeyInv, TypeOK, FetchedIsOldest, Enqueue, Full, reader
<1> QED
  BY <1>2, <1>3

LEMMA DrainKeeps ==
  ASSUME KeyInv, Drain
  PROVE  KeyInv'
<1>1. /\ UNCHANGED <<typist, pend, irr, cpu, reader>> /\ out' = NoByte
      /\ \/ HandlePrefix
         \/ HandleModifier
         \/ \E s \in Scans : HandleBreak(s) \/ HandleMake(s)
  BY DEF Drain
<1>2. CASE UNCHANGED ring
  <2>1. {shift', ctrl', ext'} \subseteq BOOLEAN
    BY <1>1
    DEF KeyInv, TypeOK, HandlePrefix, HandleModifier, HandleBreak, HandleMake
  <2>2. down' \subseteq Scans
    BY <1>1
    DEF KeyInv, TypeOK, HandlePrefix, HandleModifier, HandleBreak, HandleMake
  <2>3. heard' \in [Keys -> Nat]
    <3>1. heard' = heard \/ \E s \in Scans : Heard(s)
      BY <1>1 DEF HandlePrefix, HandleModifier, HandleBreak, HandleMake
    <3> QED
      BY <3>1, HeardCounts DEF KeyInv, TypeOK
  <2>4. TypeOK'
    BY <1>1, <1>2, <2>1, <2>2, <2>3
    DEF KeyInv, TypeOK, typist, cpu, reader, ring
  <2>5. FetchedIsOldest'
    BY <1>1, <1>2 DEF KeyInv, FetchedIsOldest, reader, ring
  <2> QED
    BY <2>4, <2>5 DEF KeyInv
<1>3. CASE ~UNCHANGED ring
  <2>1. PICK s \in Scans : HandleMake(s)
    BY <1>1, <1>3 DEF HandlePrefix, HandleModifier, HandleBreak
  <2>2. Enqueue(Translate(s)) /\ ~Repeats(s)
    BY <1>3, <2>1 DEF HandleMake, ring
  <2>3. UNCHANGED <<typist, pend, irr, cpu, reader>>
    BY <1>1
  <2>4. /\ queue' \in [Slots -> Stored] /\ head' \in Slots /\ tail' = tail
        /\ lost' \in BOOLEAN
        /\ FetchedIsOldest'
    BY <2>2, <2>3, EnqueueKeeps
  <2>5. /\ UNCHANGED <<shift, ctrl>> /\ ext' = FALSE
        /\ down' = down \cup {s} /\ Heard(s)
    BY <2>1, <2>2 DEF HandleMake
  <2>6. TypeOK'
    BY <1>1, <2>3, <2>4, <2>5, HeardCounts
    DEF KeyInv, TypeOK, typist, cpu, reader, Stored
  <2> QED
    BY <2>4, <2>6 DEF KeyInv
<1> QED
  BY <1>2, <1>3

LEMMA HandlerKeeps ==
  ASSUME KeyInv, Handler
  PROVE  KeyInv'
<1>1. CASE Interrupt \/ Drained \/ EndInterrupt
  <2>1. TypeOK'
    BY <1>1
    DEF KeyInv, TypeOK, Interrupt, Drained, EndInterrupt, typist, wire, reader,
        ring, decode
  <2>2. FetchedIsOldest'
    BY <1>1 DEF KeyInv, FetchedIsOldest, Interrupt, Drained, EndInterrupt,
                reader, ring
  <2> QED
    BY <2>1, <2>2 DEF KeyInv
<1> QED
  BY <1>1, DrainKeeps DEF Handler

LEMMA ReaderKeeps ==
  ASSUME KeyInv, Call \/ Reader
  PROVE  KeyInv'
<1>1. PICK label : Runs(label)
  BY DEF Call, Reader, Restart, Cli, Empty, Loop, Fetch, StepTail, Leave
<1>2. TypeOK'
  <2>1. CASE Fetch
    BY <2>1, <1>1 DEF KeyInv, TypeOK, Runs, Fetch, typist, wire, decode
  <2>2. CASE StepTail
    BY <2>2, <1>1, SuccInSlots
    DEF KeyInv, TypeOK, Runs, StepTail, typist, wire, decode
  <2>3. CASE Call \/ Restart \/ Cli \/ Empty \/ Loop \/ Leave
    BY <2>3, <1>1 DEF KeyInv, TypeOK, Runs, Call, Restart, Cli, Empty, Loop,
                      Leave, typist, wire, decode
  <2> QED
    BY <2>1, <2>2, <2>3 DEF Reader
<1>3. FetchedIsOldest'
  BY <1>1 DEF KeyInv, FetchedIsOldest, Runs, Call, Reader, Restart, Cli, Empty,
              Loop, Fetch, StepTail, Leave
<1> QED
  BY <1>2, <1>3 DEF KeyInv

LEMMA NextInv ==
  ASSUME KeyInv, [Next]_vars
  PROVE  KeyInv'
<1>1. CASE UNCHANGED vars
  BY <1>1 DEF vars, KeyInv, TypeOK, FetchedIsOldest
<1> QED
  BY <1>1, TypistKeeps, PresentKeeps, HandlerKeeps, ReaderKeeps DEF Next

\* In every behaviour, for a ring of any size, any keys and any typing, the
\* state of the keyboard driver has its type: the indices stay in the ring.
THEOREM TypeAlwaysOK == Spec => []TypeOK
<1>1. KeyInv => TypeOK
  BY DEF KeyInv
<1> QED
  BY <1>1, InitInv, NextInv, PTL DEF Spec
-----------------------------------------------------------------------------
(* The ring as a sequence. *)

LEMMA CountBounds ==
  ASSUME TypeOK
  PROVE  /\ Count \in 0..Size - 1
         /\ Count = 0 <=> head = tail
         /\ Count = Size - 1 <=> Full
  BY KeyboardAssumption, SMTT(30) DEF TypeOK, Slots, Count, Full, Succ

LEMMA AtInSlots ==
  ASSUME TypeOK
  PROVE  \A i \in Slots : At(i) \in Slots
  BY KeyboardAssumption DEF TypeOK, Slots, At

RingIsSeq ==
  /\ Contents \in Seq(Stored)
  /\ Len(Contents) = Count
  /\ \A i \in 1..Count : Contents[i] = queue[At(i - 1)]

LEMMA ContentsIsSeq == TypeOK => RingIsSeq
<1> SUFFICES ASSUME TypeOK PROVE RingIsSeq
  OBVIOUS
<1>1. Count \in Nat /\ Count < Size
  BY CountBounds, KeyboardAssumption
<1>2. \A i \in 1..Count : queue[At(i - 1)] \in Stored
  <2> SUFFICES ASSUME NEW i \in 1..Count PROVE queue[At(i - 1)] \in Stored
    OBVIOUS
  <2>1. i - 1 \in Slots
    BY <1>1, KeyboardAssumption DEF Slots
  <2> QED
    BY <2>1, AtInSlots DEF TypeOK, Stored
<1>3. Contents \in [1..Count -> Stored]
  BY <1>2 DEF Contents
<1>4. Contents \in Seq(Stored)
  BY <1>1, <1>3, SeqDef
<1>5. Len(Contents) = Count
  BY <1>1, <1>3, <1>4, LenProperties
<1> QED
  BY <1>4, <1>5 DEF Contents, RingIsSeq

LEMMA ContentsIsSeqNext == TypeOK' => RingIsSeq'
  BY ContentsIsSeq, PTL

\* Queueing an event appends it.
LEMMA RingPut ==
  ASSUME TypeOK, TypeOK', NEW e \in Event, ~Full,
         queue' = [queue EXCEPT ![head] = e], head' = Succ(head), tail' = tail
  PROVE  Len(Contents) < Size - 1 /\ Contents' = Append(Contents, e)
<1>1. /\ Count \in Nat /\ Count < Size - 1 /\ Count' = Count + 1
      /\ At(Count) = head
      /\ \A i \in 1..Count : At(i - 1) # head
  BY KeyboardAssumption DEF TypeOK, Slots, Count, Full, Succ, At
<1>2. \A i : At(i)' = At(i)
  BY DEF At
<1>3. /\ Contents' \in Seq(Stored)
      /\ Len(Contents') = Count'
      /\ \A i \in 1..Count' : Contents'[i] = queue'[At(i - 1)]
  BY ContentsIsSeqNext, <1>2 DEF RingIsSeq
<1>4. e \in Stored
  BY DEF Stored
<1>5. /\ Append(Contents, e) \in Seq(Stored)
      /\ Len(Append(Contents, e)) = Count + 1
      /\ \A i \in 1..Count : Append(Contents, e)[i] = Contents[i]
      /\ Append(Contents, e)[Count + 1] = e
  BY <1>4, ContentsIsSeq, AppendProperties DEF RingIsSeq
<1>6. \A i \in 1..Count + 1 : Contents'[i] = Append(Contents, e)[i]
  <2> SUFFICES ASSUME NEW i \in 1..Count + 1
               PROVE  Contents'[i] = Append(Contents, e)[i]
    OBVIOUS
  <2>1. Contents'[i] = queue'[At(i - 1)]
    BY <1>1, <1>3
  <2>2. CASE i = Count + 1
    BY <2>1, <2>2, <1>1, <1>5 DEF TypeOK
  <2>3. CASE i # Count + 1
    <3>1. i \in 1..Count
      BY <2>3, <1>1
    <3>2. i - 1 \in Slots
      BY <3>1, <1>1, KeyboardAssumption DEF Slots
    <3>3. queue'[At(i - 1)] = queue[At(i - 1)]
      BY <3>1, <3>2, <1>1, AtInSlots DEF TypeOK
    <3> QED
      BY <2>1, <3>1, <3>3, <1>5, ContentsIsSeq DEF RingIsSeq
  <2> QED
    BY <2>2, <2>3
<1> QED
  BY <1>1, <1>3, <1>5, <1>6, ContentsIsSeq, SeqEqual DEF RingIsSeq

\* Stepping the tail takes the oldest event off.
LEMMA RingGet ==
  ASSUME TypeOK, TypeOK', head # tail,
         queue' = queue, head' = head, tail' = Succ(tail)
  PROVE  /\ Contents # <<>>
         /\ Head(Contents) = queue[tail]
         /\ Contents' = Tail(Contents)
<1>1. /\ Count \in Nat /\ Count > 0 /\ Count < Size /\ Count' = Count - 1
      /\ At(0) = tail
      /\ \A i \in 1..Count - 1 : At(i - 1)' = At(i)
  BY KeyboardAssumption DEF TypeOK, Slots, Count, Succ, At
<1>2. Contents # <<>> /\ Head(Contents) = queue[tail]
  <2>1. Contents # <<>>
    BY <1>1, ContentsIsSeq, EmptySeq DEF RingIsSeq
  <2>2. Contents[1] = queue[tail]
    BY <1>1, ContentsIsSeq DEF RingIsSeq
  <2>3. Head(Contents) = Contents[1]
    BY <2>1, ContentsIsSeq DEF RingIsSeq
  <2> QED
    BY <2>1, <2>2, <2>3
<1>3. /\ Contents' \in Seq(Stored)
      /\ Len(Contents') = Count'
      /\ \A i \in 1..Count' : Contents'[i] = queue'[At(i - 1)']
  BY ContentsIsSeqNext DEF RingIsSeq
<1>4. /\ Tail(Contents) \in Seq(Stored)
      /\ Len(Tail(Contents)) = Count - 1
      /\ \A i \in 1..Count - 1 : Tail(Contents)[i] = Contents[i + 1]
  BY <1>2, ContentsIsSeq, HeadTailProperties DEF RingIsSeq
<1>5. \A i \in 1..Count - 1 : Contents'[i] = Tail(Contents)[i]
  <2> SUFFICES ASSUME NEW i \in 1..Count - 1
               PROVE  Contents'[i] = Tail(Contents)[i]
    OBVIOUS
  <2>1. Contents'[i] = queue[At(i)]
    BY <1>1, <1>3
  <2>2. i + 1 \in 1..Count /\ (i + 1) - 1 = i
    BY <1>1
  <2> QED
    BY <2>1, <2>2, <1>4, ContentsIsSeq DEF RingIsSeq
<1>6. Contents' = Tail(Contents)
  BY <1>1, <1>3, <1>4, <1>5, SeqEqual
<1> QED
  BY <1>2, <1>6
-----------------------------------------------------------------------------
(* Every step of the driver is a step of the queue or leaves it alone. *)

LEMMA RingUntouched ==
  ASSUME UNCHANGED <<ring, got>>
  PROVE  UNCHANGED <<Contents, got, lost>>
  BY DEF ring, Contents, Count, At

LEMMA EnqueueRefines ==
  ASSUME TypeOK, TypeOK', NEW e \in Event, Enqueue(e), got' = got
  PROVE  Fifo!Put(e)
<1>1. CASE Full
  <2>1. Len(Contents) = Size - 1
    BY <1>1, CountBounds, ContentsIsSeq DEF RingIsSeq
  <2>2. lost' = TRUE /\ UNCHANGED Contents
    BY <1>1 DEF Enqueue, Contents, Count, At
  <2>3. ~(Len(Contents) < Size - 1)
    BY <2>1, KeyboardAssumption
  <2> QED
    BY <2>2, <2>3 DEF Fifo!Put
<1>2. CASE ~Full
  <2>1. Len(Contents) < Size - 1 /\ Contents' = Append(Contents, e)
    BY <1>2, RingPut DEF Enqueue
  <2> QED
    BY <2>1, <1>2 DEF Fifo!Put, Enqueue
<1> QED
  BY <1>1, <1>2

LEMMA DrainRefines ==
  ASSUME TypeOK, TypeOK', Drain
  PROVE  Fifo!Next \/ UNCHANGED <<Contents, got, lost>>
<1>1. got' = got
  BY DEF Drain, reader
<1>2. CASE UNCHANGED ring
  BY <1>1, <1>2, RingUntouched
<1>3. CASE ~UNCHANGED ring
  <2>1. PICK s \in Scans : Enqueue(Translate(s))
    BY <1>3 DEF Drain, HandlePrefix, HandleModifier, HandleBreak, HandleMake
  <2>2. Translate(s) \in Event
    BY DEF Translate, Event
  <2> QED
    BY <1>1, <2>1, <2>2, EnqueueRefines DEF Fifo!Next
<1> QED
  BY <1>2, <1>3

LEMMA StepRefines ==
  ASSUME KeyInv, KeyInv', [Next]_vars
  PROVE  Fifo!Next \/ UNCHANGED <<Contents, got, lost>>
<1>1. CASE Drain
  BY <1>1, DrainRefines DEF KeyInv
<1>2. CASE StepTail
  <2>1. head # tail /\ ax = queue[tail]
    BY <1>2 DEF KeyInv, FetchedIsOldest, StepTail, Runs
  <2>2. /\ queue' = queue /\ head' = head /\ tail' = Succ(tail)
        /\ lost' = lost /\ got' = ax
    BY <1>2 DEF StepTail, Runs
  <2>3. Fifo!Get
    BY <2>1, <2>2, RingGet DEF KeyInv, Fifo!Get
  <2> QED
    BY <2>3 DEF Fifo!Next
<1>3. CASE Typist \/ Present \/ Interrupt \/ Drained \/ EndInterrupt
           \/ UNCHANGED vars
  <2>1. UNCHANGED <<ring, got>>
    BY <1>3 DEF Typist, Press, Release, Repeat, Send, Present, Interrupt,
                Drained, EndInterrupt, vars, ring, reader
  <2> QED
    BY <2>1, RingUntouched
<1>4. CASE Call \/ Restart \/ Cli \/ Empty \/ Loop \/ Fetch \/ Leave
  <2>1. UNCHANGED <<ring, got>>
    BY <1>4 DEF Call, Restart, Cli, Empty, Loop, Fetch, Leave, Runs, ring
  <2> QED
    BY <2>1, RingUntouched
<1> QED
  BY <1>1, <1>2, <1>3, <1>4 DEF Next, Handler, Reader

LEMMA InitRefines == Init => Fifo!Init
<1> SUFFICES ASSUME Init PROVE Fifo!Init
  OBVIOUS
<1>1. Count = 0
  BY DEF Init, Count
<1>2. TypeOK
  BY InitInv DEF KeyInv
<1>3. Contents = <<>>
  BY <1>1, <1>2, ContentsIsSeq, EmptySeq DEF RingIsSeq
<1> QED
  BY <1>3 DEF Init, Fifo!Init, NoEvent

\* In every behaviour read_key returns the events in the order in which the
\* handler queued them, each once, and only an event that finds the ring full
\* is lost: the ring of any size implements the queue KeyFifo.
THEOREM RingIsFifo == Spec => IsFifo
<1>1. KeyInv /\ KeyInv' /\ [Next]_vars => [Fifo!Next]_<<Contents, got, lost>>
  BY StepRefines
<1> QED
  BY <1>1, InitInv, NextInv, InitRefines, PTL DEF Spec, IsFifo, Fifo!Spec

-----------------------------------------------------------------------------
(* The bytes on their way from the keyboard to the handler.  A key, a shift   *)
(* or the CTRL key is a latch that some bytes set and others reset: the       *)
(* invariant says what each latch will be once the bytes under way are        *)
(* handled, and how many presses they hold that are not heard yet.            *)

\* The bytes not yet handled, the controller's first.
Bytes == IF out = NoByte THEN pend ELSE <<out>> \o pend
CodesOf(k) == {Make(k[1]), Break(k[1])}

\* Every byte of W is a prefix with the code of an extended key after it, or a
\* code of a key, extended if a prefix comes before it (before W if x).
Prefixed(W, x, i) == IF i = 1 THEN x ELSE W[i - 1] = Prefix
WellSent(W, x) ==
  /\ x => W # <<>>
  /\ \A i \in 1..Len(W) :
       IF W[i] = Prefix THEN ~Prefixed(W, x, i) /\ i < Len(W)
       ELSE \E k \in Keys \cup Modifiers :
              k[2] = Prefixed(W, x, i) /\ W[i] \in CodesOf(k)

\* A latch that the bytes of on set and those of off reset, once the first n
\* bytes of W are handled.
After(W, n, on, off, latch) ==
  \/ \E i \in 1..n : W[i] \in on /\ \A j \in i + 1..n : W[j] \notin off
  \/ latch /\ \A j \in 1..n : W[j] \notin off

\* Before any byte the latch is as it is now.
LEMMA AfterNone == \A W, on, off, latch : After(W, 0, on, off, latch) <=> latch
  BY DEF After

\* One byte more sets it, resets it or leaves it.
LEMMA AfterOne ==
  ASSUME NEW W, NEW n \in Nat, NEW on, NEW off, NEW latch, on \cap off = {}
  PROVE  After(W, n + 1, on, off, latch)
           <=> \/ W[n + 1] \in on
               \/ W[n + 1] \notin off /\ After(W, n, on, off, latch)
<1>1. 1..n + 1 = 1..n \cup {n + 1}
  OBVIOUS
<1>2. \A i \in 1..n : i + 1..n + 1 = (i + 1..n) \cup {n + 1}
  OBVIOUS
<1>3. \A i \in 1..n : i + 1..n + 1 # {}
  OBVIOUS
<1>4. (n + 1) + 1..n + 1 = {}
  OBVIOUS
<1>5. CASE W[n + 1] \in on
  BY <1>1, <1>4, <1>5 DEF After
<1>6. CASE W[n + 1] \notin on /\ W[n + 1] \in off
  BY <1>1, <1>2, <1>6 DEF After
<1>7. CASE W[n + 1] \notin on /\ W[n + 1] \notin off
  BY <1>1, <1>2, <1>7 DEF After
<1> QED
  BY <1>5, <1>6, <1>7

\* It depends on the bytes handled alone.
LEMMA AfterSame ==
  ASSUME NEW V, NEW W, NEW n \in Nat, NEW on, NEW off, NEW latch,
         \A i \in 1..n : V[i] = W[i]
  PROVE  After(V, n, on, off, latch) <=> After(W, n, on, off, latch)
<1>1. \A i \in 1..n : i + 1..n \subseteq 1..n
  OBVIOUS
<1> QED
  BY <1>1 DEF After

\* Handling the first byte moves the latch along.
LEMMA AfterPop ==
  ASSUME NEW V, NEW W, NEW n \in Nat, NEW on, NEW off, NEW latch, NEW next,
         on \cap off = {}, \A i \in 1..n : V[i] = W[i + 1],
         next <=> (W[1] \in on \/ (W[1] \notin off /\ latch))
  PROVE  After(V, n, on, off, next) <=> After(W, n + 1, on, off, latch)
<1>1. \A i \in 0..n : (\A j \in i + 1..n : V[j] \notin off)
                        <=> \A j \in i + 2..n + 1 : W[j] \notin off
  <2> SUFFICES ASSUME NEW i \in 0..n
               PROVE  (\A j \in i + 1..n : V[j] \notin off)
                        <=> \A j \in i + 2..n + 1 : W[j] \notin off
    OBVIOUS
  <2>1. \A j \in i + 1..n : j \in 1..n /\ j + 1 \in i + 2..n + 1
    OBVIOUS
  <2>2. \A j \in i + 2..n + 1 : j - 1 \in i + 1..n /\ j - 1 \in 1..n /\ (j - 1) + 1 = j
    OBVIOUS
  <2> QED BY <2>1, <2>2
<1>2. (\A j \in 1..n : V[j] \notin off) <=> \A j \in 2..n + 1 : W[j] \notin off
  BY <1>1
<1>3. 1..n + 1 = {1} \cup 2..n + 1
  OBVIOUS
<1>4. (\E i \in 1..n : V[i] \in on /\ \A j \in i + 1..n : V[j] \notin off)
        <=> \E i \in 2..n + 1 : W[i] \in on /\ \A j \in i + 1..n + 1 : W[j] \notin off
  <2>1. \A i \in 1..n : i + 1 \in 2..n + 1 /\ (i + 1) + 1 = i + 2 /\ i \in 0..n
    OBVIOUS
  <2>2. \A i \in 2..n + 1 : i - 1 \in 1..n /\ (i - 1) + 1 = i /\ (i - 1) + 2 = i + 1
    OBVIOUS
  <2>3. ASSUME NEW i \in 1..n
        PROVE  (V[i] \in on /\ \A j \in i + 1..n : V[j] \notin off)
                 <=> (W[i + 1] \in on /\ \A j \in (i + 1) + 1..n + 1 : W[j] \notin off)
    BY <2>1, <1>1
  <2> QED BY <2>1, <2>2, <2>3, SMTT(40)
<1>5. After(W, n + 1, on, off, latch)
        <=> \/ W[1] \in on /\ \A j \in 2..n + 1 : W[j] \notin off
            \/ \E i \in 2..n + 1 : W[i] \in on /\ \A j \in i + 1..n + 1 : W[j] \notin off
            \/ latch /\ W[1] \notin off /\ \A j \in 2..n + 1 : W[j] \notin off
  BY <1>3 DEF After
<1> QED
  BY <1>2, <1>4, <1>5 DEF After

DownAfter(s, n) == After(Bytes, n, {Make(s)}, {Break(s)}, s \in down)
ShiftMakes == {Make(s) : s \in Shifts}
ShiftBreaks == {Break(s) : s \in Shifts}

\* Handling all the bytes under way leaves down the keys that are held, and a
\* modifier only while one of its keys is.
HeldInTheEnd ==
  /\ \A k \in Keys : k \in held <=> DownAfter(k[1], Len(Bytes))
  /\ down \subseteq {k[1] : k \in Keys}
  /\ After(Bytes, Len(Bytes), ShiftMakes, ShiftBreaks, shift)
       => \E k \in held : k[1] \in Shifts
  /\ After(Bytes, Len(Bytes), {Make(Ctrl)}, {Break(Ctrl)}, ctrl)
       => \E k \in held : k[1] = Ctrl

\* The presses under way: makes of a key that is up by then.
Strokes(k) ==
  {i \in 1..Len(Bytes) : Bytes[i] = Make(k[1]) /\ ~DownAfter(k[1], i - 1)}
PressesCounted ==
  \A k \in Keys : presses[k] = heard[k] + Cardinality(Strokes(k))

\* A scan code is that of one key: _kbd_down knows a key by its code alone, so
\* two keys that differ in the prefix only, held at once, are one key to it.
DistinctScans == \A k, l \in Keys : k[1] = l[1] => k = l

SentInv == KeyInv /\ WellSent(Bytes, ext) /\ HeldInTheEnd

Appended(V, W, ext0, byte) ==
  V = W \o IF ext0 THEN <<Prefix, byte>> ELSE <<byte>>

\* The stream is one of bytes.
LEMMA BytesType == KeyInv => Bytes \in Seq(Byte)
  BY DEF KeyInv, TypeOK, Bytes

\* A byte says which key, and which way.
LEMMA CodesDiffer ==
  /\ \A s : Make(s) # Prefix /\ Break(s) # Prefix
  /\ \A s, t : Make(s) # Break(t) /\ (Make(s) = Make(t) => s = t)
               /\ (Break(s) = Break(t) => s = t)
  /\ \A s : Make(s) # NoByte /\ Break(s) # NoByte
  /\ NoByte \notin Byte
  BY DEF Make, Break, Prefix, NoByte, Byte

\* An action of the typist adds one code, with its prefix.
LEMMA SentBytes ==
  ASSUME KeyInv, NEW k \in Keys \cup Modifiers,
         NEW byte \in CodesOf(k), Send(k, byte)
  PROVE  Bytes' \in Seq(Byte) /\ Appended(Bytes', Bytes, k[2], byte)
<1>1. k[1] \in Codes
  BY KeyboardAssumption DEF Codes
<1>2. byte \in Byte /\ Prefix \in Byte
  BY <1>1 DEF Byte, CodesOf
<1>3. <<Prefix, byte>> \in Seq(Byte) /\ <<byte>> \in Seq(Byte)
  BY <1>2
<1>4. pend' = pend \o (IF k[2] THEN <<Prefix, byte>> ELSE <<byte>>) /\ out' = out
  BY DEF Send
<1>5. pend \in Seq(Byte) /\ out \in Byte \cup {NoByte}
  BY DEF KeyInv, TypeOK
<1>6. CASE k[2]
  <2>1. Bytes' = Bytes \o <<Prefix, byte>>
    BY <1>3, <1>4, <1>5, <1>6 DEF Bytes
  <2> QED BY <1>3, <1>6, <2>1, BytesType DEF Appended
<1>7. CASE ~k[2]
  <2>1. Bytes' = Bytes \o <<byte>>
    BY <1>3, <1>4, <1>5, <1>7 DEF Bytes
  <2> QED BY <1>3, <1>7, <2>1, BytesType DEF Appended
<1> QED BY <1>6, <1>7

\* The new bytes come behind the others.
LEMMA AppendedBytes ==
  ASSUME NEW W \in Seq(Byte), NEW V \in Seq(Byte), NEW x \in BOOLEAN,
         NEW byte \in Byte, Appended(V, W, x, byte)
  PROVE  /\ Len(V) = Len(W) + (IF x THEN 2 ELSE 1)
         /\ \A i \in 1..Len(W) : V[i] = W[i]
         /\ x => V[Len(W) + 1] = Prefix /\ V[Len(W) + 2] = byte
         /\ ~x => V[Len(W) + 1] = byte
<1>1. Prefix \in Byte
  BY DEF Byte
<1> QED BY <1>1 DEF Appended

\* What the latch is once the new bytes are handled too.
LEMMA AfterAppended ==
  ASSUME NEW W \in Seq(Byte), NEW V \in Seq(Byte), NEW x \in BOOLEAN,
         NEW byte \in Byte, Appended(V, W, x, byte),
         NEW on, NEW off, NEW latch, on \cap off = {}, Prefix \notin on \cup off
  PROVE  /\ \A n \in 0..Len(W) : After(V, n, on, off, latch)
                                   <=> After(W, n, on, off, latch)
         /\ After(V, Len(V) - 1, on, off, latch)
              <=> After(W, Len(W), on, off, latch)
         /\ After(V, Len(V), on, off, latch)
              <=> \/ byte \in on
                  \/ byte \notin off /\ After(W, Len(W), on, off, latch)
<1> DEFINE m == Len(W)
           A(n) == After(V, n, on, off, latch)
<1>1. m \in Nat
  OBVIOUS
<1>2. \A n \in 0..Len(W) : After(V, n, on, off, latch)
                                   <=> After(W, n, on, off, latch)
  <2> SUFFICES ASSUME NEW n \in 0..Len(W)
               PROVE  After(V, n, on, off, latch) <=> After(W, n, on, off, latch)
    OBVIOUS
  <2>1. n \in Nat /\ \A i \in 1..n : V[i] = W[i]
    BY AppendedBytes
  <2> QED BY <2>1, AfterSame
<1>3. \A n \in Nat : A(n + 1) <=> V[n + 1] \in on \/ (V[n + 1] \notin off /\ A(n))
  BY AfterOne
<1>4. A(m) <=> After(W, Len(W), on, off, latch)
  BY <1>1, <1>2
<1>5. CASE x
  <2>0. Len(V) = m + 2 /\ V[m + 1] = Prefix /\ V[m + 2] = byte
    <3>1. Len(V) = Len(W) + (IF x THEN 2 ELSE 1)
      BY AppendedBytes
    <3>2. V[Len(W) + 1] = Prefix /\ V[Len(W) + 2] = byte
      BY <1>5, AppendedBytes
    <3> QED BY <1>5, <3>1, <3>2
  <2> HIDE DEF m, A
  <2>1. Len(V) = m + 2 /\ V[m + 1] = Prefix /\ V[m + 2] = byte /\ (m + 1) + 1 = m + 2
        /\ m + 1 \in Nat /\ (m + 2) - 1 = m + 1
    BY <1>1, <2>0
  <2>2. A(m + 1) <=> A(m)
    BY <1>1, <1>3, <2>1
  <2>3. A(m + 2) <=> byte \in on \/ (byte \notin off /\ A(m + 1))
    BY <1>3, <2>1
  <2> QED BY <1>2, <1>4, <2>1, <2>2, <2>3 DEF A
<1>6. CASE ~x
  <2>1. Len(V) = m + 1 /\ V[m + 1] = byte /\ (m + 1) - 1 = m
    BY <1>1, <1>6, AppendedBytes
  <2> HIDE DEF m, A
  <2>2. A(m + 1) <=> byte \in on \/ (byte \notin off /\ A(m))
    BY <1>1, <1>3, <2>1
  <2> QED BY <1>2, <1>4, <2>1, <2>2 DEF A
<1> QED BY <1>5, <1>6

\* The codes of keys and modifiers differ.
LEMMA KeyCodes ==
  ASSUME NEW k \in Keys \cup Modifiers, NEW byte \in CodesOf(k)
  PROVE  /\ k = <<k[1], k[2]>> /\ k[2] \in BOOLEAN
         /\ byte \in Byte /\ byte # Prefix
         /\ k \in Keys => k[1] \in Scans
         /\ k \notin Keys => k[1] \in Shifts \cup {Ctrl}
         /\ k[1] \in Scans => k \in Keys
<1>1. k[1] \in Codes
  BY KeyboardAssumption DEF Codes
<1>2. byte \in Byte
  BY <1>1 DEF CodesOf, Byte
<1>3. byte # Prefix
  BY CodesDiffer DEF CodesOf
<1> QED BY <1>2, <1>3, KeyboardAssumption

\* A stream stays well formed at its end, and at its front.
LEMMA WellSentAppended ==
  ASSUME NEW W \in Seq(Byte), NEW V \in Seq(Byte), NEW x \in BOOLEAN,
         NEW k \in Keys \cup Modifiers, NEW byte \in CodesOf(k),
         Appended(V, W, k[2], byte), WellSent(W, x)
  PROVE  WellSent(V, x)
<1> DEFINE m == Len(W)
<1>1. k[2] \in BOOLEAN /\ byte \in Byte /\ byte # Prefix
  BY KeyCodes
<1>2. /\ Len(V) = m + (IF k[2] THEN 2 ELSE 1)
      /\ \A i \in 1..m : V[i] = W[i]
      /\ k[2] => V[m + 1] = Prefix /\ V[m + 2] = byte
      /\ ~k[2] => V[m + 1] = byte
  BY <1>1, AppendedBytes
<1>3. m \in Nat /\ (x => m # 0)
  BY DEF WellSent
<1>4. \A i \in 1..m : IF W[i] = Prefix THEN ~Prefixed(W, x, i) /\ i < m
       ELSE \E l \in Keys \cup Modifiers :
              l[2] = Prefixed(W, x, i) /\ W[i] \in CodesOf(l)
  BY DEF WellSent
<1>5. m # 0 => W[m] # Prefix
  BY <1>3, <1>4
<1> HIDE DEF m
<1>6. \A i \in 1..m : Prefixed(V, x, i) = Prefixed(W, x, i)
  BY <1>2, <1>3 DEF Prefixed
<1>7. Prefixed(V, x, m + 1) = FALSE
  <2>1. CASE m = 0 BY <2>1, <1>3 DEF Prefixed
  <2>2. CASE m # 0
    <3>1. m \in 1..m /\ (m + 1) - 1 = m /\ m + 1 # 1 BY <2>2, <1>3
    <3> QED BY <3>1, <2>2, <1>2, <1>5 DEF Prefixed
  <2> QED BY <2>1, <2>2
<1>8. k[2] => Prefixed(V, x, m + 2) = TRUE
  <2>1. (m + 2) - 1 = m + 1 /\ m + 2 # 1 BY <1>3
  <2> QED BY <2>1, <1>2 DEF Prefixed
<1>9. Len(V) # 0
  BY <1>2, <1>3
<1>10. ASSUME NEW i \in 1..Len(V)
       PROVE  IF V[i] = Prefix THEN ~Prefixed(V, x, i) /\ i < Len(V)
              ELSE \E l \in Keys \cup Modifiers :
                     l[2] = Prefixed(V, x, i) /\ V[i] \in CodesOf(l)
  <2>1. CASE i \in 1..m
    <3>1. V[i] = W[i] /\ Prefixed(V, x, i) = Prefixed(W, x, i)
      BY <2>1, <1>2, <1>6
    <3>2. m < Len(V)
      BY <1>2, <1>3
    <3> QED BY <2>1, <3>1, <3>2, <1>3, <1>4
  <2>2. CASE i = m + 1 /\ k[2]
    <3>1. m + 1 < Len(V) BY <2>2, <1>2, <1>3
    <3> QED BY <2>2, <3>1, <1>2, <1>7
  <2>3. CASE i = m + 1 /\ ~k[2]
    BY <2>3, <1>1, <1>2, <1>7
  <2>4. CASE i = m + 2 /\ k[2]
    BY <2>4, <1>1, <1>2, <1>8
  <2> QED BY <2>1, <2>2, <2>3, <2>4, <1>2, <1>3
<1> QED BY <1>9, <1>10 DEF WellSent

\* W without its first byte.
Popped(V, W) ==
  /\ Len(W) = Len(V) + 1
  /\ \A i \in 1..Len(V) : V[i] = W[i + 1]

\* So it is when the handler takes a byte.
LEMMA WellSentPopped ==
  ASSUME NEW W \in Seq(Byte), NEW V \in Seq(Byte), NEW x \in BOOLEAN,
         Popped(V, W), WellSent(W, x), NEW y \in BOOLEAN, y <=> W[1] = Prefix
  PROVE  WellSent(V, y)
<1> DEFINE m == Len(V)
<1>1. m \in Nat /\ Len(W) = m + 1 /\ \A i \in 1..m : V[i] = W[i + 1]
  BY DEF Popped
<1>2. \A i \in 1..m + 1 : IF W[i] = Prefix THEN ~Prefixed(W, x, i) /\ i < m + 1
       ELSE \E l \in Keys \cup Modifiers :
              l[2] = Prefixed(W, x, i) /\ W[i] \in CodesOf(l)
  BY <1>1 DEF WellSent
<1> HIDE DEF m
<1>3. ASSUME NEW i \in 1..m PROVE Prefixed(V, y, i) = Prefixed(W, x, i + 1)
  <2>1. i + 1 # 1 /\ (i + 1) - 1 = i
    BY <1>1
  <2>2. CASE i = 1
    BY <2>1, <2>2 DEF Prefixed
  <2>3. CASE i # 1
    <3>1. i - 1 \in 1..m /\ (i - 1) + 1 = i BY <2>3, <1>1
    <3> QED BY <3>1, <2>1, <2>3, <1>1 DEF Prefixed
  <2> QED BY <2>2, <2>3
<1>4. y => m # 0
  <2>1. 1 \in 1..m + 1 BY <1>1
  <2> QED BY <2>1, <1>1, <1>2
<1>5. ASSUME NEW i \in 1..m
      PROVE  IF V[i] = Prefix THEN ~Prefixed(V, y, i) /\ i < m
             ELSE \E l \in Keys \cup Modifiers :
                    l[2] = Prefixed(V, y, i) /\ V[i] \in CodesOf(l)
  <2>1. i + 1 \in 1..m + 1 /\ (i + 1 < m + 1 => i < m)
    BY <1>1
  <2> QED BY <2>1, <1>1, <1>2, <1>3
<1> QED BY <1>4, <1>5 DEF WellSent, m

\* The code that an action of the typist sends, and the key it leaves up or
\* down.
Typed(k, byte) ==
  /\ Send(k, byte)
  /\ \/ byte = Make(k[1]) /\ held' = held \cup {k}
     \/ byte = Break(k[1]) /\ held' = held \ {k} /\ k \in held
  /\ presses' = IF k \in Keys \ held THEN [presses EXCEPT ![k] = @ + 1] ELSE presses

\* What the typist can do.
LEMMA TypistSends ==
  ASSUME Typist
  PROVE  \E k \in Keys \cup Modifiers : \E byte \in CodesOf(k) : Typed(k, byte)
<1> PICK k \in Keys \cup Modifiers : Press(k) \/ Release(k) \/ Repeat(k)
  BY DEF Typist
<1>1. CASE Press(k) \/ Repeat(k)
  BY <1>1 DEF Press, Repeat, Typed, CodesOf
<1>2. CASE Release(k)
  BY <1>2 DEF Release, Typed, CodesOf
<1> QED BY <1>1, <1>2

\* A press, a repeat or a release keeps the invariant.
LEMMA SendSent ==
  ASSUME SentInv, DistinctScans, NEW k \in Keys \cup Modifiers,
         NEW byte \in CodesOf(k), Typed(k, byte)
  PROVE  WellSent(Bytes', ext') /\ HeldInTheEnd'
<1> DEFINE W == Bytes
           V == Bytes'
<1>1. W \in Seq(Byte) /\ V \in Seq(Byte) /\ Appended(V, W, k[2], byte)
  BY BytesType, SentBytes DEF SentInv, Typed
<1>2. UNCHANGED <<shift, ctrl, ext, down>>
  BY DEF Typed, Send, decode
<1>3. k[2] \in BOOLEAN /\ byte \in Byte /\ byte # Prefix
  BY KeyCodes
<1>4. ext \in BOOLEAN /\ WellSent(W, ext)
  BY DEF SentInv, KeyInv, TypeOK
<1>5. WellSent(V, ext)
  BY <1>1, <1>4, WellSentAppended
<1>6. ASSUME NEW on, NEW off, NEW latch, on \cap off = {}, Prefix \notin on \cup off
      PROVE  After(V, Len(V), on, off, latch)
               <=> \/ byte \in on
                   \/ byte \notin off /\ After(W, Len(W), on, off, latch)
  <2> HIDE DEF V, W
  <2> QED BY <1>1, <1>3, <1>6, AfterAppended
<1>7. (byte = Make(k[1]) /\ held' = held \cup {k})
        \/ (byte = Break(k[1]) /\ held' = held \ {k})
  BY DEF Typed
<1>8. /\ \A l \in Keys : l \in held
           <=> After(W, Len(W), {Make(l[1])}, {Break(l[1])}, l[1] \in down)
      /\ down \subseteq {l[1] : l \in Keys}
      /\ After(W, Len(W), ShiftMakes, ShiftBreaks, shift)
           => \E l \in held : l[1] \in Shifts
      /\ After(W, Len(W), {Make(Ctrl)}, {Break(Ctrl)}, ctrl)
           => \E l \in held : l[1] = Ctrl
  BY DEF SentInv, HeldInTheEnd, DownAfter
<1> HIDE DEF V, W
<1>9. ASSUME NEW l \in Keys
      PROVE  l \in held'
               <=> After(V, Len(V), {Make(l[1])}, {Break(l[1])}, l[1] \in down)
  <2>1. After(V, Len(V), {Make(l[1])}, {Break(l[1])}, l[1] \in down)
          <=> \/ byte = Make(l[1])
              \/ byte # Break(l[1])
                 /\ After(W, Len(W), {Make(l[1])}, {Break(l[1])}, l[1] \in down)
    <3>1. {Make(l[1])} \cap {Break(l[1])} = {} /\ Prefix \notin {Make(l[1])} \cup {Break(l[1])}
      BY CodesDiffer
    <3> DEFINE d == l[1] \in down
               on == {Make(l[1])}
               off == {Break(l[1])}
    <3>2. After(V, Len(V), on, off, d)
            <=> \/ byte \in on
                \/ byte \notin off /\ After(W, Len(W), on, off, d)
      <4> HIDE DEF d, on, off
      <4>1. on \cap off = {} /\ Prefix \notin on \cup off
        BY <3>1 DEF on, off
      <4> QED BY <1>6, <4>1, Zenon
    <3> QED BY <3>2
  <2>2. l[1] \in Scans BY KeyboardAssumption
  <2>3. l # k => l[1] # k[1]
    BY <2>2, KeyCodes DEF DistinctScans
  <2> QED BY <2>1, <2>3, <1>7, <1>8, CodesDiffer
<1>10. ASSUME After(V, Len(V), ShiftMakes, ShiftBreaks, shift)
       PROVE  \E l \in held' : l[1] \in Shifts
  <2>1. byte \in ShiftMakes \/ (byte \notin ShiftBreaks /\ After(W, Len(W), ShiftMakes, ShiftBreaks, shift))
    <3>1. ShiftMakes \cap ShiftBreaks = {} /\ Prefix \notin ShiftMakes \cup ShiftBreaks
      BY CodesDiffer DEF ShiftMakes, ShiftBreaks
    <3> QED BY <1>6, <1>10, <3>1
  <2>2. CASE k[1] \in Shifts
    BY <2>1, <2>2, <1>7, CodesDiffer DEF ShiftMakes, ShiftBreaks
  <2>3. CASE k[1] \notin Shifts
    <3>1. byte \notin ShiftMakes
      BY <2>3, <1>7, CodesDiffer DEF ShiftMakes
    <3> QED BY <2>1, <2>3, <3>1, <1>7, <1>8
  <2> QED BY <2>2, <2>3
<1>11. ASSUME After(V, Len(V), {Make(Ctrl)}, {Break(Ctrl)}, ctrl)
       PROVE  \E l \in held' : l[1] = Ctrl
  <2>1. byte = Make(Ctrl) \/ (byte # Break(Ctrl) /\ After(W, Len(W), {Make(Ctrl)}, {Break(Ctrl)}, ctrl))
    <3>1. {Make(Ctrl)} \cap {Break(Ctrl)} = {} /\ Prefix \notin {Make(Ctrl)} \cup {Break(Ctrl)}
      BY CodesDiffer
    <3> QED BY <1>6, <1>11, <3>1
  <2>2. CASE k[1] = Ctrl
    BY <2>1, <2>2, <1>7, CodesDiffer
  <2>3. CASE k[1] # Ctrl
    <3>1. byte # Make(Ctrl)
      BY <2>3, <1>7, CodesDiffer
    <3> QED BY <2>1, <2>3, <3>1, <1>7, <1>8
  <2> QED BY <2>2, <2>3
<1> QED BY <1>2, <1>5, <1>8, <1>9, <1>10, <1>11 DEF HeldInTheEnd, DownAfter, V

\* The handler takes the first byte, and moves every latch along.
LEMMA DrainPops ==
  ASSUME SentInv, Drain
  PROVE  /\ Bytes \in Seq(Byte) /\ Bytes' \in Seq(Byte) /\ Popped(Bytes', Bytes)
         /\ Bytes[1] = out /\ Len(Bytes) # 0
<1>1. out \in Byte /\ pend \in Seq(Byte) /\ out # NoByte /\ pend' = pend /\ out' = NoByte
  BY DEF SentInv, KeyInv, TypeOK, Drain
<1>2. Bytes = <<out>> \o pend /\ Bytes' = pend
  BY <1>1 DEF Bytes
<1> QED BY <1>1, <1>2 DEF Popped

\* What the handler of a byte does to the prefix, the keys and the modifiers.
LEMMA DrainLatches ==
  ASSUME SentInv, Drain
  PROVE  /\ ext' <=> out = Prefix
         /\ \A s \in Scans : s \in down' <=> (out = Make(s) \/ (out # Break(s) /\ s \in down))
         /\ down' \subseteq down \cup {s \in Scans : out = Make(s)}
         /\ shift' <=> (out \in ShiftMakes \/ (out \notin ShiftBreaks /\ shift))
         /\ ctrl' <=> (out = Make(Ctrl) \/ (out # Break(Ctrl) /\ ctrl))
         /\ held' = held /\ presses' = presses
<1>0. held' = held /\ presses' = presses /\ {shift, ctrl, ext, shift', ctrl', ext'} \subseteq BOOLEAN
  <2>1. TypeOK'
    BY DrainKeeps DEF SentInv, KeyInv
  <2> QED BY <2>1 DEF Drain, typist, SentInv, KeyInv, TypeOK
<1>1. CASE HandlePrefix
  BY <1>0, <1>1, CodesDiffer DEF HandlePrefix, ShiftMakes, ShiftBreaks
<1>2. CASE HandleModifier
  BY <1>0, <1>2, CodesDiffer, KeyboardAssumption DEF HandleModifier,
     ShiftMakes, ShiftBreaks
<1>3. CASE \E s \in Scans : HandleBreak(s)
  BY <1>0, <1>3, CodesDiffer, KeyboardAssumption DEF HandleBreak, ShiftMakes,
     ShiftBreaks
<1>4. CASE \E s \in Scans : HandleMake(s)
  BY <1>0, <1>4, CodesDiffer, KeyboardAssumption DEF HandleMake, Repeats,
     ShiftMakes, ShiftBreaks
<1> QED BY <1>1, <1>2, <1>3, <1>4 DEF Drain

\* The handler keeps the invariant.
LEMMA DrainSent ==
  ASSUME SentInv, Drain
  PROVE  WellSent(Bytes', ext') /\ HeldInTheEnd'
<1> DEFINE W == Bytes
           V == Bytes'
<1>1. W \in Seq(Byte) /\ V \in Seq(Byte) /\ Popped(V, W) /\ W[1] = out /\ Len(W) # 0
  BY DrainPops
<1>2. ext \in BOOLEAN /\ ext' \in BOOLEAN /\ WellSent(W, ext)
  BY DrainKeeps DEF SentInv, KeyInv, TypeOK
<1>3. WellSent(V, ext')
  BY <1>1, <1>2, DrainLatches, WellSentPopped
<1>4. /\ \A l \in Keys : l \in held
           <=> After(W, Len(W), {Make(l[1])}, {Break(l[1])}, l[1] \in down)
      /\ down \subseteq {l[1] : l \in Keys}
      /\ After(W, Len(W), ShiftMakes, ShiftBreaks, shift)
           => \E l \in held : l[1] \in Shifts
      /\ After(W, Len(W), {Make(Ctrl)}, {Break(Ctrl)}, ctrl)
           => \E l \in held : l[1] = Ctrl
  BY DEF SentInv, HeldInTheEnd, DownAfter
<1> HIDE DEF V, W
<1>5. ASSUME NEW on, NEW off, NEW latch, NEW next, on \cap off = {},
             next <=> (out \in on \/ (out \notin off /\ latch))
      PROVE  After(V, Len(V), on, off, next) <=> After(W, Len(W), on, off, latch)
  <2>1. Len(V) \in Nat /\ Len(W) = Len(V) + 1 /\ \A i \in 1..Len(V) : V[i] = W[i + 1]
    BY <1>1 DEF Popped
  <2> DEFINE n == Len(V)
  <2>2. n \in Nat /\ Len(W) = n + 1 /\ \A i \in 1..n : V[i] = W[i + 1]
    BY <2>1
  <2>3. next <=> (W[1] \in on \/ (W[1] \notin off /\ latch))
    BY <1>1, <1>5
  <2> HIDE DEF n
  <2>4. After(V, n, on, off, next) <=> After(W, n + 1, on, off, latch)
    BY <2>2, <2>3, <1>5, AfterPop
  <2> QED BY <2>2, <2>4 DEF n
<1>6. ASSUME NEW l \in Keys
      PROVE  l \in held'
               <=> After(V, Len(V), {Make(l[1])}, {Break(l[1])}, l[1] \in down')
  <2>1. l[1] \in Scans BY KeyboardAssumption
  <2> DEFINE d == l[1] \in down
             next == l[1] \in down'
             on == {Make(l[1])}
             off == {Break(l[1])}
  <2>2. next <=> (out \in on \/ (out \notin off /\ d))
    BY <2>1, DrainLatches
  <2>3. on \cap off = {}
    BY CodesDiffer
  <2>4. After(V, Len(V), on, off, next) <=> After(W, Len(W), on, off, d)
    <3> HIDE DEF on, off, d, next
    <3> QED BY <2>2, <2>3, <1>5, Zenon
  <2> QED BY <2>4, <1>4, DrainLatches
<1>7. After(V, Len(V), ShiftMakes, ShiftBreaks, shift')
        => \E l \in held' : l[1] \in Shifts
  <2>1. ShiftMakes \cap ShiftBreaks = {}
    BY CodesDiffer DEF ShiftMakes, ShiftBreaks
  <2>2. shift' <=> (out \in ShiftMakes \/ (out \notin ShiftBreaks /\ shift))
    BY DrainLatches
  <2>3. After(V, Len(V), ShiftMakes, ShiftBreaks, shift')
          <=> After(W, Len(W), ShiftMakes, ShiftBreaks, shift)
    BY <2>1, <2>2, <1>5
  <2> QED BY <2>3, <1>4, DrainLatches
<1>8. After(V, Len(V), {Make(Ctrl)}, {Break(Ctrl)}, ctrl')
        => \E l \in held' : l[1] = Ctrl
  <2>1. {Make(Ctrl)} \cap {Break(Ctrl)} = {}
    BY CodesDiffer
  <2>2. ctrl' <=> (out \in {Make(Ctrl)} \/ (out \notin {Break(Ctrl)} /\ ctrl))
    BY DrainLatches
  <2>3. After(V, Len(V), {Make(Ctrl)}, {Break(Ctrl)}, ctrl')
          <=> After(W, Len(W), {Make(Ctrl)}, {Break(Ctrl)}, ctrl)
    BY <2>1, <2>2, <1>5
  <2> QED BY <2>3, <1>4, DrainLatches
<1>9. down' \subseteq {l[1] : l \in Keys}
  <2>1. ASSUME NEW s \in Scans, out = Make(s) PROVE \E l \in Keys : s = l[1]
    <3>1. 1 \in 1..Len(W) /\ W[1] # Prefix
      BY <1>1, <2>1, CodesDiffer
    <3>2. PICK l \in Keys \cup Modifiers : W[1] \in CodesOf(l)
      BY <3>1, <1>2 DEF WellSent
    <3>3. l[1] = s
      BY <3>2, <1>1, <2>1, CodesDiffer DEF CodesOf
    <3> QED BY <3>2, <3>3, KeyCodes
  <2> QED BY <2>1, <1>4, DrainLatches
<1> QED BY <1>3, <1>6, <1>7, <1>8, <1>9 DEF HeldInTheEnd, DownAfter, V

decoded == <<held, presses, shift, ctrl, ext, down, heard>>

\* No other step touches the stream or what was decoded.
LEMMA OtherSteps ==
  ASSUME SentInv, [Next]_vars, ~Typist, ~Drain
  PROVE  Bytes' = Bytes /\ UNCHANGED decoded
<1>1. CASE Present
  <2>1. pend \in Seq(Byte) /\ pend # <<>> /\ out = NoByte
        /\ out' = Head(pend) /\ pend' = Tail(pend)
    BY <1>1 DEF Present, SentInv, KeyInv, TypeOK
  <2>2. out' # NoByte
    BY <2>1, CodesDiffer
  <2>3. <<Head(pend)>> \o Tail(pend) = pend
    BY <2>1
  <2>4. Bytes' = Bytes
    BY <2>1, <2>2, <2>3 DEF Bytes
  <2> QED BY <1>1, <2>4 DEF Present, typist, decode, decoded
<1>2. CASE Interrupt \/ Drained \/ EndInterrupt
  BY <1>2 DEF Interrupt, Drained, EndInterrupt, typist, wire, decode, decoded,
     Bytes
<1>3. CASE Call \/ Reader
  <2>1. PICK label : Runs(label)
    BY <1>3 DEF Call, Reader, Restart, Cli, Empty, Loop, Fetch, StepTail, Leave
  <2> QED BY <2>1 DEF Runs, typist, wire, decode, decoded, Bytes
<1>4. CASE UNCHANGED vars
  BY <1>4 DEF vars, decoded, Bytes
<1> QED BY <1>1, <1>2, <1>3, <1>4 DEF Next, Handler

\* Every step keeps the invariant.
LEMMA SentNext ==
  ASSUME SentInv, DistinctScans, [Next]_vars
  PROVE  SentInv'
<1>1. KeyInv'
  BY NextInv DEF SentInv
<1>2. WellSent(Bytes', ext') /\ HeldInTheEnd'
  <2>1. CASE Typist
    BY <2>1, TypistSends, SendSent
  <2>2. CASE Drain
    BY <2>2, DrainSent
  <2>3. CASE ~Typist /\ ~Drain
    BY <2>3, OtherSteps DEF SentInv, HeldInTheEnd, DownAfter, decoded
  <2> QED BY <2>1, <2>2, <2>3
<1> QED BY <1>1, <1>2 DEF SentInv

\* A key is down now if it is in _kbd_down.
LEMMA DownAfterNone ==
  ASSUME NEW s
  PROVE  DownAfter(s, 0) <=> s \in down
<1>1. 1..0 = {}
  OBVIOUS
<1> QED BY <1>1 DEF DownAfter, After

\* It holds at first.
LEMMA SentInit == Init => SentInv
<1> SUFFICES ASSUME Init PROVE SentInv
  OBVIOUS
<1>1. Bytes = <<>> /\ Len(Bytes) = 0
  BY DEF Init, Bytes
<1>2. WellSent(Bytes, ext)
  BY <1>1 DEF WellSent, Init
<1>3. HeldInTheEnd
  <2>1. held = {} /\ down = {} /\ ~shift /\ ~ctrl
    BY DEF Init
  <2>2. \A k \in Keys : k \in held <=> DownAfter(k[1], Len(Bytes))
    BY <1>1, <2>1, DownAfterNone
  <2> QED BY <1>1, <2>1, <2>2, AfterNone DEF HeldInTheEnd
<1> QED BY <1>2, <1>3, InitInv DEF SentInv

\* When everything is handled the stream is empty.
LEMMA QuietBytes == Quiet => Bytes = <<>> /\ Len(Bytes) = 0
  BY DEF Quiet, Bytes

\* On an empty stream it says that nothing is stuck.
LEMMA SentImplies == SentInv => NothingStuck
<1> SUFFICES ASSUME SentInv, Quiet
             PROVE  /\ down = {k[1] : k \in held \cap Keys}
                    /\ shift => \E k \in held : k[1] \in Shifts
                    /\ ctrl => \E k \in held : k[1] = Ctrl
                    /\ ~ext
  BY DEF NothingStuck
<1>1. Bytes = <<>> /\ Len(Bytes) = 0
  BY QuietBytes
<1>2. \A k \in Keys : k \in held <=> k[1] \in down
  BY <1>1, DownAfterNone DEF SentInv, HeldInTheEnd
<1>3. down \subseteq {k[1] : k \in Keys}
  BY DEF SentInv, HeldInTheEnd
<1>4. down = {k[1] : k \in held \cap Keys}
  BY <1>2, <1>3
<1>5. ~ext
  BY <1>1 DEF SentInv, WellSent
<1> QED
  BY <1>1, <1>4, <1>5, AfterNone DEF SentInv, HeldInTheEnd

\* Whatever is typed, by however many keys and modifiers of different scan
\* codes, and whenever the handler runs: once everything typed is handled, no
\* key, modifier or prefix is left over.
THEOREM NothingEverStuck ==
  ASSUME DistinctScans
  PROVE  Spec => []NothingStuck
<1>1. SentInv /\ [Next]_vars => SentInv'
  BY SentNext
<1> QED
  BY <1>1, SentInit, SentImplies, PTL DEF Spec

CountInv == SentInv /\ PressesCounted

\* The presses under way can be counted.
LEMMA StrokesFinite ==
  ASSUME SentInv, NEW k
  PROVE  IsFiniteSet(Strokes(k)) /\ Cardinality(Strokes(k)) \in Nat
<1>1. Len(Bytes) \in Nat
  BY BytesType DEF SentInv
<1>2. IsFiniteSet(1..Len(Bytes))
  BY <1>1, FS_Interval
<1>3. Strokes(k) \in SUBSET (1..Len(Bytes))
  BY DEF Strokes
<1> QED BY <1>2, <1>3, FS_Subset, FS_CardinalityType

\* Taking the first position away moves the others down by one.
LEMMA ShiftedCount ==
  ASSUME NEW S, S \subseteq Nat \ {0}, IsFiniteSet(S),
         NEW T, T \subseteq Nat \ {0}, \A i \in Nat \ {0} : i \in T <=> i + 1 \in S
  PROVE  Cardinality(S) = Cardinality(T) + (IF 1 \in S THEN 1 ELSE 0)
<1> DEFINE U == S \ {1}
           g == [j \in U |-> j - 1]
<1>1. IsFiniteSet(U) /\ Cardinality(U) = IF 1 \in S THEN Cardinality(S) - 1
                                         ELSE Cardinality(S)
  BY FS_RemoveElement
<1>2. ASSUME NEW j \in U PROVE j - 1 \in T
  <2>1. j - 1 \in Nat \ {0} /\ (j - 1) + 1 = j BY <1>2
  <2> QED BY <2>1
<1>3. g \in [U -> T]
  BY <1>2
<1>4. \A i, j \in U : g[i] = g[j] => i = j
  OBVIOUS
<1>5. ASSUME NEW i \in T PROVE \E j \in U : g[j] = i
  <2>1. i + 1 \in U /\ (i + 1) - 1 = i BY <1>5
  <2> QED BY <2>1
<1> HIDE DEF U, g
<1>6. g \in Bijection(U, T)
  BY <1>3, <1>4, <1>5 DEF Bijection, Injection, Surjection, IsInjective
<1>7. ExistsBijection(U, T)
  BY <1>6 DEF ExistsBijection
<1>8. Cardinality(T) = Cardinality(U)
  BY <1>1, <1>7, FS_Bijection
<1>9. Cardinality(S) \in Nat
  BY FS_CardinalityType
<1> QED BY <1>1, <1>8, <1>9

\* A press adds one, a repeat or a release none.
LEMMA SendCounted ==
  ASSUME CountInv, DistinctScans, NEW k \in Keys \cup Modifiers,
         NEW byte \in CodesOf(k), Typed(k, byte)
  PROVE  PressesCounted'
<1> DEFINE W == Bytes
           V == Bytes'
<1>1. W \in Seq(Byte) /\ V \in Seq(Byte) /\ Appended(V, W, k[2], byte)
  BY BytesType, SentBytes DEF CountInv, SentInv, Typed
<1>2. UNCHANGED <<down, heard>>
  BY DEF Typed, Send, decode
<1>3. k[2] \in BOOLEAN /\ byte \in Byte /\ byte # Prefix
  BY KeyCodes
<1> SUFFICES ASSUME NEW l \in Keys
             PROVE  presses'[l] = heard'[l] + Cardinality(Strokes(l)')
  BY DEF PressesCounted
<1> DEFINE s == l[1]
           on == {Make(s)}
           off == {Break(s)}
           d == s \in down
           S == Strokes(l)
           T == Strokes(l)'
<1>4. /\ presses[l] = heard[l] + Cardinality(S) /\ heard[l] \in Nat
      /\ presses \in [Keys -> Nat]
      /\ IsFiniteSet(S) /\ Cardinality(S) \in Nat
  BY StrokesFinite DEF CountInv, PressesCounted, SentInv, KeyInv, TypeOK
<1>5. /\ \A i \in 1..Len(W) : i \in S <=> W[i] = Make(s) /\ ~After(W, i - 1, on, off, d)
      /\ S \subseteq 1..Len(W)
  BY DEF Strokes, DownAfter
<1>6. /\ \A i \in 1..Len(V) : i \in T <=> V[i] = Make(s) /\ ~After(V, i - 1, on, off, d)
      /\ T \subseteq 1..Len(V)
  BY <1>2 DEF Strokes, DownAfter
<1>7. on \cap off = {} /\ Prefix \notin on \cup off
  BY CodesDiffer
<1>8. l \in held <=> After(W, Len(W), on, off, d)
  BY DEF CountInv, SentInv, HeldInTheEnd, DownAfter
<1>9. s \in Scans /\ (l # k => s # k[1])
  BY KeyboardAssumption, KeyCodes DEF DistinctScans
<1> HIDE DEF V, W, on, off, d, S, T
<1>10. /\ Len(V) = Len(W) + (IF k[2] THEN 2 ELSE 1)
       /\ \A i \in 1..Len(W) : V[i] = W[i]
       /\ k[2] => V[Len(W) + 1] = Prefix /\ V[Len(W) + 2] = byte
       /\ ~k[2] => V[Len(W) + 1] = byte
  BY <1>1, <1>3, AppendedBytes
<1>11. Len(W) \in Nat
  BY <1>1
<1>12. /\ \A n \in 0..Len(W) : After(V, n, on, off, d) <=> After(W, n, on, off, d)
       /\ After(V, Len(V) - 1, on, off, d) <=> After(W, Len(W), on, off, d)
  <2>0. ASSUME NEW n \in 0..Len(W)
        PROVE  After(V, n, on, off, d) <=> After(W, n, on, off, d)
    <3>1. n \in Nat /\ \A i \in 1..n : V[i] = W[i]
      BY <1>10, <1>11
    <3> QED BY <3>1, AfterSame
  <2>1. ASSUME NEW on1, NEW off1, NEW d1, on1 \cap off1 = {}, Prefix \notin on1 \cup off1
        PROVE  After(V, Len(V) - 1, on1, off1, d1) <=> After(W, Len(W), on1, off1, d1)
    BY <1>1, <1>3, <2>1, AfterAppended
  <2>2. on \cap off = {} /\ Prefix \notin on \cup off
    BY <1>7
  <2>3. \A n \in 0..Len(W) : After(V, n, on, off, d) <=> After(W, n, on, off, d)
    BY <2>0, <2>2
  <2>4. After(V, Len(V) - 1, on, off, d) <=> After(W, Len(W), on, off, d)
    BY <2>1, <2>2
  <2> QED BY <2>3, <2>4
<1>13. ASSUME NEW i \in 1..Len(W) PROVE i \in T <=> i \in S
  <2>1. i \in 1..Len(V) /\ i - 1 \in 0..Len(W)
    BY <1>10, <1>11
  <2> QED BY <2>1, <1>5, <1>6, <1>12, <1>10
<1>14. Len(V) \in 1..Len(V) /\ Len(V) \notin 1..Len(W) /\ V[Len(V)] = byte
  BY <1>10, <1>11
<1>15. Len(V) \in T <=> byte = Make(s) /\ l \notin held
  BY <1>6, <1>8, <1>12, <1>14
<1>16. ASSUME NEW i \in T PROVE i \in 1..Len(W) \/ i = Len(V)
  <2>1. SUFFICES ASSUME k[2], i = Len(W) + 1 PROVE FALSE
    BY <1>6, <1>10, <1>11
  <2>2. V[i] = Make(s) /\ V[i] = Prefix
    BY <2>1, <1>6, <1>10
  <2> QED BY <2>2, CodesDiffer
<1>17. (byte = Make(k[1]) \/ (byte = Break(k[1]) /\ k \in held))
       /\ presses' = IF k \in Keys \ held THEN [presses EXCEPT ![k] = @ + 1] ELSE presses
  BY DEF Typed
<1>18. CASE l = k /\ k \notin held
  <2>1. byte = Make(s)
    BY <1>17, <1>18
  <2>2. T = S \cup {Len(V)} /\ Len(V) \notin S
    BY <2>1, <1>5, <1>13, <1>14, <1>15, <1>16, <1>18
  <2>3. Cardinality(T) = Cardinality(S) + 1
    BY <2>2, <1>4, FS_AddElement
  <2>4. presses'[l] = presses[l] + 1
    BY <1>4, <1>17, <1>18
  <2> QED BY <2>3, <2>4, <1>2, <1>4 DEF T
<1>19. CASE ~(l = k /\ k \notin held)
  <2>1. Len(V) \notin T
    <3>1. CASE l = k BY <3>1, <1>15, <1>19
    <3>2. CASE l # k
      <4>1. byte # Make(s) BY <3>2, <1>9, <1>17, CodesDiffer
      <4> QED BY <4>1, <1>15
    <3> QED BY <3>1, <3>2
  <2>2. T = S
    BY <2>1, <1>5, <1>13, <1>16
  <2>3. presses'[l] = presses[l]
    BY <1>4, <1>17, <1>19
  <2> QED BY <2>2, <2>3, <1>2, <1>4 DEF T
<1> QED BY <1>18, <1>19

\* The handler makes an event of the make of a key that is up.
LEMMA DrainHears ==
  ASSUME SentInv, DistinctScans, Drain, NEW l \in Keys
  PROVE  heard'[l] = IF out = Make(l[1]) /\ l[1] \notin down THEN heard[l] + 1
                     ELSE heard[l]
<1>1. heard \in [Keys -> Nat]
  BY DEF SentInv, KeyInv, TypeOK
<1>2. CASE HandlePrefix
  BY <1>1, <1>2, CodesDiffer DEF HandlePrefix
<1>3. CASE HandleModifier
  <2>1. l[1] \in Scans BY KeyboardAssumption
  <2> QED BY <2>1, <1>1, <1>3, CodesDiffer, KeyboardAssumption
             DEF HandleModifier
<1>4. CASE \E s \in Scans : HandleBreak(s)
  BY <1>1, <1>4, CodesDiffer DEF HandleBreak
<1>5. CASE \E s \in Scans : HandleMake(s)
  <2>1. PICK s \in Scans : HandleMake(s)
    BY <1>5
  <2>2. CASE s \in down
    BY <2>1, <2>2, <1>1, CodesDiffer DEF HandleMake, Repeats
  <2>3. CASE s \notin down
    <3>1. out = Make(s) /\ Heard(s)
      BY <2>1, <2>3 DEF HandleMake, Repeats
    <3>2. 1 \in 1..Len(Bytes) /\ Bytes[1] = out
      BY DrainPops
    <3>3. PICK k \in Keys \cup Modifiers : k[2] = Prefixed(Bytes, ext, 1) /\ out \in CodesOf(k)
      BY <3>1, <3>2, CodesDiffer DEF SentInv, WellSent
    <3>4. k[1] = s /\ k[2] = ext
      BY <3>1, <3>3, CodesDiffer DEF CodesOf, Prefixed
    <3>5. k \in Keys /\ KeyOf(s) = k
      BY <3>3, <3>4, KeyCodes DEF KeyOf
    <3>6. heard' = [heard EXCEPT ![k] = @ + 1]
      BY <3>1, <3>5 DEF Heard
    <3>7. out = Make(l[1]) <=> l = k
      BY <3>1, <3>4, <3>5, CodesDiffer DEF DistinctScans
    <3> QED BY <3>4, <3>5, <3>6, <3>7, <2>3, <1>1
  <2> QED BY <2>2, <2>3
<1> QED BY <1>2, <1>3, <1>4, <1>5 DEF Drain

\* Such an event is one press less under way.
LEMMA DrainCounted ==
  ASSUME CountInv, DistinctScans, Drain
  PROVE  PressesCounted'
<1> DEFINE W == Bytes
           V == Bytes'
<1>1. W \in Seq(Byte) /\ V \in Seq(Byte) /\ Popped(V, W) /\ W[1] = out /\ Len(W) # 0
  BY DrainPops DEF CountInv
<1> SUFFICES ASSUME NEW l \in Keys
             PROVE  presses'[l] = heard'[l] + Cardinality(Strokes(l)')
  BY DEF PressesCounted
<1> DEFINE s == l[1]
           on == {Make(s)}
           off == {Break(s)}
           d == s \in down
           next == s \in down'
           S == Strokes(l)
           T == Strokes(l)'
<1>2. /\ presses[l] = heard[l] + Cardinality(S) /\ heard[l] \in Nat
      /\ IsFiniteSet(S) /\ Cardinality(S) \in Nat
  BY StrokesFinite DEF CountInv, PressesCounted, SentInv, KeyInv, TypeOK
<1>3. /\ \A i \in 1..Len(W) : i \in S <=> W[i] = Make(s) /\ ~After(W, i - 1, on, off, d)
      /\ S \subseteq 1..Len(W)
  BY DEF Strokes, DownAfter
<1>4. /\ \A i \in 1..Len(V) : i \in T <=> V[i] = Make(s) /\ ~After(V, i - 1, on, off, next)
      /\ T \subseteq 1..Len(V)
  BY DEF Strokes, DownAfter
<1>5. on \cap off = {}
  BY CodesDiffer
<1>6. next <=> (out \in on \/ (out \notin off /\ d))
  <2>1. s \in Scans BY KeyboardAssumption
  <2> QED BY <2>1, DrainLatches DEF CountInv
<1>7. presses' = presses
      /\ heard'[l] = IF out = Make(s) /\ ~d THEN heard[l] + 1 ELSE heard[l]
  BY DrainLatches, DrainHears DEF CountInv
<1>8. 1 \in S <=> out = Make(s) /\ ~d
  <2>1. After(W, 0, on, off, d) <=> d
    <3>1. 1..0 = {} OBVIOUS
    <3> QED BY <3>1 DEF After
  <2>2. 1 \in 1..Len(W) /\ 1 - 1 = 0 BY <1>1
  <2> QED BY <2>1, <2>2, <1>1, <1>3
<1> HIDE DEF V, W, on, off, d, next, S, T
<1>9. Len(V) \in Nat /\ Len(W) = Len(V) + 1 /\ \A i \in 1..Len(V) : V[i] = W[i + 1]
  BY <1>1 DEF Popped
<1>10. ASSUME NEW n \in Nat, n < Len(V)
       PROVE  After(V, n, on, off, next) <=> After(W, n + 1, on, off, d)
  <2>1. \A i \in 1..n : V[i] = W[i + 1]
    BY <1>9, <1>10
  <2> QED BY <2>1, <1>1, <1>5, <1>6, AfterPop
<1>11. ASSUME NEW i \in Nat \ {0} PROVE i \in T <=> i + 1 \in S
  <2>1. CASE i \in 1..Len(V)
    <3>1. i + 1 \in 1..Len(W) /\ (i + 1) - 1 = i /\ i - 1 \in Nat /\ i - 1 < Len(V)
          /\ (i - 1) + 1 = i
      BY <2>1, <1>9
    <3>2. After(V, i - 1, on, off, next) <=> After(W, i, on, off, d)
      BY <3>1, <1>10
    <3> QED BY <2>1, <3>1, <3>2, <1>3, <1>4, <1>9
  <2>2. CASE i \notin 1..Len(V)
    <3>1. i + 1 \notin 1..Len(W) BY <2>2, <1>9
    <3> QED BY <2>2, <3>1, <1>3, <1>4
  <2> QED BY <2>1, <2>2
<1>12. Cardinality(S) = Cardinality(T) + (IF 1 \in S THEN 1 ELSE 0)
  <2>1. S \subseteq Nat \ {0} /\ T \subseteq Nat \ {0}
    BY <1>3, <1>4, <1>9
  <2> QED BY <2>1, <1>2, <1>11, ShiftedCount
<1>13. IsFiniteSet(T) /\ Cardinality(T) \in Nat
  <2>1. T \in SUBSET (1..Len(V)) /\ IsFiniteSet(1..Len(V))
    BY <1>4, <1>9, FS_Interval
  <2> QED BY <2>1, FS_Subset, FS_CardinalityType
<1>14. presses[l] = heard'[l] + Cardinality(T)
  <2>1. CASE 1 \in S
    BY <2>1, <1>2, <1>7, <1>8, <1>12, <1>13
  <2>2. CASE 1 \notin S
    BY <2>2, <1>2, <1>7, <1>8, <1>12, <1>13
  <2> QED BY <2>1, <2>2
<1> QED BY <1>7, <1>14 DEF T

\* Every step keeps the count.
LEMMA CountNext ==
  ASSUME CountInv, DistinctScans, [Next]_vars
  PROVE  CountInv'
<1>1. SentInv'
  BY SentNext DEF CountInv
<1>2. PressesCounted'
  <2>1. CASE Typist
    BY <2>1, TypistSends, SendCounted
  <2>2. CASE Drain
    BY <2>2, DrainCounted
  <2>3. CASE ~Typist /\ ~Drain
    BY <2>3, OtherSteps DEF CountInv, PressesCounted, Strokes, DownAfter,
       decoded
  <2> QED BY <2>1, <2>2, <2>3
<1> QED BY <1>1, <1>2 DEF CountInv

\* It is right at first.
LEMMA CountInit == Init => CountInv
<1> SUFFICES ASSUME Init PROVE PressesCounted
  BY SentInit DEF CountInv
<1>1. Len(Bytes) = 0 /\ 1..0 = {}
  BY DEF Init, Bytes
<1>2. \A k \in Keys : Strokes(k) = {}
  BY <1>1 DEF Strokes
<1>3. \A k \in Keys : Cardinality(Strokes(k)) = 0
  BY <1>2, FS_EmptySet
<1>4. \A k \in Keys : presses[k] = 0 /\ heard[k] = 0
  BY DEF Init
<1> QED BY <1>3, <1>4 DEF PressesCounted

\* On an empty stream every press has been heard.
LEMMA CountImplies == CountInv => OneEventPerPress
<1> SUFFICES ASSUME CountInv PROVE OneEventPerPress
  OBVIOUS
<1>1. heard \in [Keys -> Nat] /\ presses \in [Keys -> Nat]
  BY DEF CountInv, SentInv, KeyInv, TypeOK
<1>2. \A k \in Keys : presses[k] = heard[k] + Cardinality(Strokes(k))
                      /\ Cardinality(Strokes(k)) \in Nat
  BY StrokesFinite DEF CountInv, PressesCounted
<1>3. \A k \in Keys : heard[k] <= presses[k]
  BY <1>1, <1>2
<1>4. Quiet => heard = presses
  <2> SUFFICES ASSUME Quiet PROVE \A k \in Keys : heard[k] = presses[k]
    BY <1>1
  <2>1. Len(Bytes) = 0 /\ 1..0 = {}
    BY QuietBytes
  <2>2. \A k \in Keys : Strokes(k) = {}
    BY <2>1 DEF Strokes
  <2>3. \A k \in Keys : Cardinality(Strokes(k)) = 0
    BY <2>2, FS_EmptySet
  <2> QED BY <1>1, <1>2, <2>3
<1> QED BY <1>3, <1>4 DEF OneEventPerPress

\* Whatever is typed, by however many keys of different scan codes: no event is
\* made without a press, and once everything typed is handled each press has
\* made one, however often the keyboard repeated it.
THEOREM EachPressIsOneEvent ==
  ASSUME DistinctScans
  PROVE  Spec => []OneEventPerPress
<1>1. CountInv /\ [Next]_vars => CountInv'
  BY CountNext
<1> QED
  BY <1>1, CountInit, CountImplies, PTL DEF Spec
=============================================================================
