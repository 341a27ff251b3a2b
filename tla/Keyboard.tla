------------------------------ MODULE Keyboard ------------------------------
(***************************************************************************)
(* The kernel's keyboard (kernel/api.asm): the IRQ1 handler _kbd_isr turns *)
(* scan codes into key events and puts them in the ring _kbd_queue;        *)
(* _read_key, called by the prompt and by programs, takes them out.        *)
(*                                                                         *)
(* There is one processor.  _read_key runs an instruction at a time and    *)
(* the handler may start between two of them when the interrupt flag is    *)
(* set, but not in the shadow of STI: the instruction after STI always     *)
(* runs before an interrupt is taken.  The keyboard and its controller     *)
(* run by themselves, also while the handler does.                         *)
(***************************************************************************)
EXTENDS Naturals, Sequences

CONSTANTS
  Scans,      \* set-1 scan codes of keys that produce events
  Letters,    \* those that CTRL turns into control characters
  Shifts,     \* the codes of the shift keys, 2A and 36
  Ctrl,       \* the code of the CTRL keys, 1D
  Keys,       \* the keys: pairs <<scan code, sent with the prefix E0>>
  Modifiers,  \* the shift and CTRL keys: pairs like Keys
  Size,       \* KBD_QUEUE_SIZE
  MaxCodes    \* bound: presses, repeats and releases in one behaviour

ASSUME KeyboardAssumption ==
  /\ Size \in Nat /\ Size >= 2
  /\ Letters \subseteq Scans
  /\ Scans \cap (Shifts \cup {Ctrl}) = {} /\ Ctrl \notin Shifts
  /\ Keys \subseteq Scans \X BOOLEAN
  /\ Modifiers \subseteq (Shifts \cup {Ctrl}) \X BOOLEAN
  /\ MaxCodes \in Nat

VARIABLES
  held,      \* keyboard: the Keys and Modifiers held down
  presses,   \* keyboard: how often each key was pressed
  codes,     \* keyboard: actions of the typist so far
  pend,      \* keyboard: the bytes not yet sent
  out,       \* controller: the byte in its output register (port 60h)
  irr,       \* interrupt controller: IRQ1 requested
  iflag,     \* processor: the interrupt flag
  shadow,    \* processor: STI was the last instruction
  isr,       \* where _kbd_isr stands, "off" when it does not run
  pc,        \* where _read_key stands, "away" outside it
  ax,        \* the event _read_key has fetched
  got,       \* the event it returned last
  queue, head, tail, lost,   \* _kbd_queue, _kbd_q_head, _tail, _overflow
  shift, ctrl, ext, down,    \* _kbd_shift, _kbd_ctrl, _kbd_ext, _kbd_down
  heard      \* how many events of each key reached .queue_event

typist == <<held, presses, codes>>
wire   == <<pend, out, irr>>
cpu    == <<iflag, shadow, isr>>
reader == <<pc, ax, got>>
ring   == <<queue, head, tail, lost>>
decode == <<shift, ctrl, ext, down>>
vars == <<held, presses, codes, pend, out, irr, iflag, shadow, isr, pc, ax,
          got, queue, head, tail, lost, shift, ctrl, ext, down, heard>>
-----------------------------------------------------------------------------
(* The bytes and the events. *)

Prefix == <<"e0", "e0">>
Make(s) == <<"make", s>>
Break(s) == <<"break", s>>
NoByte == <<"none", "none">>
Codes == Scans \cup Shifts \cup {Ctrl}
Byte == {Prefix} \cup {Make(s) : s \in Codes} \cup {Break(s) : s \in Codes}

\* AH is the scan code; AL what the tables, CTRL and the prefix make of it.
Event == Scans \X {"none", "ctrl", "shift", "plain"}
NoEvent == <<>>
Slots == 0..Size - 1
Succ(i) == IF i = Size - 1 THEN 0 ELSE i + 1
-----------------------------------------------------------------------------
(* The keyboard: every action sends a code, with its prefix. *)

Send(k, byte) ==
  /\ codes < MaxCodes
  /\ codes' = codes + 1
  /\ pend' = pend \o IF k[2] THEN <<Prefix, byte>> ELSE <<byte>>
  /\ UNCHANGED <<out, irr, cpu, reader, ring, decode, heard>>

Press(k) ==
  /\ k \notin held
  /\ held' = held \cup {k}
  /\ presses' = IF k \in Keys THEN [presses EXCEPT ![k] = @ + 1] ELSE presses
  /\ Send(k, Make(k[1]))
\* Typematic repeat.
Repeat(k) ==
  /\ k \in held
  /\ Send(k, Make(k[1]))
  /\ UNCHANGED <<held, presses>>
Release(k) ==
  /\ k \in held
  /\ held' = held \ {k}
  /\ Send(k, Break(k[1]))
  /\ UNCHANGED presses

\* The controller presents the next byte and raises its line: the interrupt
\* controller latches the edge.
Present ==
  /\ out = NoByte /\ pend # <<>>
  /\ out' = Head(pend) /\ pend' = Tail(pend)
  /\ irr' = TRUE
  /\ UNCHANGED <<typist, cpu, reader, ring, decode, heard>>
-----------------------------------------------------------------------------
(* The interrupt handler. *)

Interruptible == iflag /\ ~shadow /\ irr /\ isr = "off"

\* The interrupt gate clears the flag; acknowledging clears the request.
Interrupt ==
  /\ Interruptible
  /\ isr' = "drain" /\ iflag' = FALSE /\ irr' = FALSE
  /\ UNCHANGED <<typist, pend, out, shadow, reader, ring, decode, heard>>

Translate(s) ==
  <<s, IF ext THEN "none"
       ELSE IF ctrl /\ s \in Letters THEN "ctrl"
       ELSE IF shift THEN "shift" ELSE "plain">>

\* .queue_event: one slot stays free, so that a full ring is not an empty one.
Full_NoSlack == FALSE
Full == Succ(head) = tail
Enqueue(e) ==
  IF Full THEN lost' = TRUE /\ UNCHANGED <<queue, head, tail>>
  ELSE /\ queue' = [queue EXCEPT ![head] = e] /\ head' = Succ(head)
       /\ UNCHANGED <<tail, lost>>

KeyOf(s) == <<s, ext>>
Heard(s) ==
  heard' = IF KeyOf(s) \in Keys THEN [heard EXCEPT ![KeyOf(s)] = @ + 1]
           ELSE heard

HandlePrefix ==
  /\ out = Prefix
  /\ ext' = TRUE
  /\ UNCHANGED <<shift, ctrl, down, ring, heard>>
HandleModifier ==
  /\ \/ \E s \in Shifts : \/ out = Make(s) /\ shift' = TRUE
                          \/ out = Break(s) /\ shift' = FALSE
        /\ UNCHANGED ctrl
     \/ /\ \/ out = Make(Ctrl) /\ ctrl' = TRUE
           \/ out = Break(Ctrl) /\ ctrl' = FALSE
        /\ UNCHANGED shift
  /\ ext' = FALSE
  /\ UNCHANGED <<down, ring, heard>>
HandleBreak_Ext(s) ==
  /\ out = Break(s)
  /\ down' = down \ {s}
  /\ UNCHANGED <<shift, ctrl, ext, ring, heard>>
HandleBreak(s) ==
  /\ out = Break(s)
  /\ down' = down \ {s} /\ ext' = FALSE
  /\ UNCHANGED <<shift, ctrl, ring, heard>>

\* A key already down is repeating, and is ignored.
Repeats_Never(s) == FALSE
Repeats(s) == s \in down
HandleMake(s) ==
  /\ out = Make(s)
  /\ ext' = FALSE
  /\ IF Repeats(s)
     THEN UNCHANGED <<down, ring, heard>>
     ELSE down' = down \cup {s} /\ Enqueue(Translate(s)) /\ Heard(s)
  /\ UNCHANGED <<shift, ctrl>>

\* .drain: read and handle bytes until the controller has none.
Drain ==
  /\ isr = "drain" /\ out # NoByte
  /\ out' = NoByte
  /\ \/ HandlePrefix
     \/ HandleModifier
     \/ \E s \in Scans : HandleBreak(s) \/ HandleMake(s)
  /\ UNCHANGED <<typist, pend, irr, cpu, reader>>
Drained ==
  /\ isr = "drain" /\ out = NoByte
  /\ isr' = "eoi"
  /\ UNCHANGED <<typist, wire, iflag, shadow, reader, ring, decode, heard>>

EndInterrupt_Clears ==
  /\ isr = "eoi"
  /\ isr' = "off" /\ iflag' = TRUE /\ irr' = FALSE
  /\ UNCHANGED <<typist, pend, out, shadow, reader, ring, decode, heard>>
\* .eoi and IRET.  A byte that came after .drain looked has its own request.
EndInterrupt ==
  /\ isr = "eoi"
  /\ isr' = "off" /\ iflag' = TRUE
  /\ UNCHANGED <<typist, wire, shadow, reader, ring, decode, heard>>
-----------------------------------------------------------------------------
(* _read_key: a pending interrupt comes before the next instruction. *)

Runs(label) ==
  /\ pc = label /\ isr = "off" /\ ~Interruptible
  /\ UNCHANGED <<typist, wire, isr, decode, heard, queue, head, lost>>

\* The call, to its first STI.
Call ==
  /\ Runs("away")
  /\ pc' = "restart" /\ iflag' = TRUE /\ shadow' = TRUE
  /\ UNCHANGED <<ax, got, tail>>
\* jmp .wait_key.
Restart ==
  /\ Runs("restart")
  /\ pc' = "wait" /\ shadow' = FALSE
  /\ UNCHANGED <<iflag, ax, got, tail>>
\* cli, which ends the shadow of an STI just before it.
Cli ==
  /\ Runs("wait")
  /\ pc' = "check" /\ iflag' = FALSE /\ shadow' = FALSE
  /\ UNCHANGED <<ax, got, tail>>
\* Nothing queued: sti; jmp .restart.
Empty_NoJump ==
  /\ Runs("check") /\ head = tail
  /\ pc' = "wait" /\ iflag' = TRUE /\ shadow' = TRUE
  /\ UNCHANGED <<ax, got, tail>>
Empty ==
  /\ Runs("check") /\ head = tail
  /\ pc' = "loop" /\ iflag' = TRUE /\ shadow' = TRUE
  /\ UNCHANGED <<ax, got, tail>>
Loop ==
  /\ Runs("loop")
  /\ pc' = "restart" /\ shadow' = FALSE
  /\ UNCHANGED <<iflag, ax, got, tail>>
\* .have_key: fetch, step the tail, sti and return.
Fetch ==
  /\ Runs("check") /\ head # tail
  /\ ax' = queue[tail] /\ pc' = "step"
  /\ UNCHANGED <<iflag, shadow, got, tail>>
StepTail ==
  /\ Runs("step")
  /\ tail' = Succ(tail) /\ got' = ax /\ pc' = "leave"
  /\ UNCHANGED <<iflag, shadow, ax>>
Leave ==
  /\ Runs("leave")
  /\ pc' = "away" /\ iflag' = TRUE /\ shadow' = FALSE
  /\ UNCHANGED <<ax, got, tail>>
-----------------------------------------------------------------------------
Init ==
  /\ held = {} /\ presses = [k \in Keys |-> 0] /\ codes = 0
  /\ pend = <<>> /\ out = NoByte /\ irr = FALSE
  /\ iflag = TRUE /\ shadow = FALSE /\ isr = "off"
  /\ pc = "away" /\ ax = NoEvent /\ got = NoEvent
  /\ queue = [i \in Slots |-> NoEvent] /\ head = 0 /\ tail = 0 /\ lost = FALSE
  /\ shift = FALSE /\ ctrl = FALSE /\ ext = FALSE /\ down = {}
  /\ heard = [k \in Keys |-> 0]

Typist == \/ \E k \in Keys \cup Modifiers : Press(k) \/ Release(k)
          \/ \E k \in Keys \cup Modifiers : Repeat(k)
Handler == Interrupt \/ Drain \/ Drained \/ EndInterrupt
Reader == Restart \/ Cli \/ Empty \/ Loop \/ Fetch \/ StepTail \/ Leave

Next == Typist \/ Present \/ Handler \/ Call \/ Reader

\* The controller and the processor never stop; nobody has to type, and no
\* program has to call _read_key.
Spec == Init /\ [][Next]_vars /\ WF_vars(Present) /\ WF_vars(Handler \/ Reader)
-----------------------------------------------------------------------------
(* Properties. *)

\* Type invariant.
TypeOK ==
  /\ held \subseteq Keys \cup Modifiers
  /\ presses \in [Keys -> Nat] /\ heard \in [Keys -> Nat]
  /\ codes \in 0..MaxCodes
  /\ pend \in Seq(Byte) /\ out \in Byte \cup {NoByte}
  /\ {irr, iflag, shadow, lost, shift, ctrl, ext} \subseteq BOOLEAN
  /\ isr \in {"off", "drain", "eoi"}
  /\ pc \in {"away", "restart", "wait", "check", "loop", "step", "leave"}
  /\ {ax, got} \subseteq Event \cup {NoEvent}
  /\ queue \in [Slots -> Event \cup {NoEvent}]
  /\ head \in Slots /\ tail \in Slots
  /\ down \subseteq Scans

\* The events in the ring, oldest first.
Count == IF head >= tail THEN head - tail ELSE head + Size - tail
At(i) == IF tail + i < Size THEN tail + i ELSE tail + i - Size
Contents == [i \in 1..Count |-> queue[At(i - 1)]]

Fifo == INSTANCE KeyFifo WITH fifo <- Contents, Capacity <- Size - 1
\* The ring is a first-in first-out queue: what read_key returns is what the
\* handler queued, once each and in order, and only a full ring loses events.
IsFifo == Fifo!Spec

\* Everything typed has been handled.
Quiet == pend = <<>> /\ out = NoByte /\ isr = "off"

\* A key held down is one event, however often the keyboard repeats it, and
\* each press of a key is an event.
OneEventPerPress ==
  /\ \A k \in Keys : heard[k] <= presses[k]
  /\ Quiet => heard = presses

\* Once everything is handled no modifier or key is stuck: those the handler
\* thinks are down are held, and the prefix is not left over for the next key.
NothingStuck ==
  Quiet => /\ down = {k[1] : k \in held \cap Keys}
           /\ shift => \E k \in held : k[1] \in Shifts
           /\ ctrl => \E k \in held : k[1] = Ctrl
           /\ ~ext

\* No byte stays in the controller: the busy wait of _read_key lets interrupts
\* through, and a byte that comes as the handler ends has its own request.
BytesAreTaken == (out # NoByte) ~> (out = NoByte)

\* A reader returns once a key is queued or pressed: its busy wait lets the
\* handler in, which queues the event.
ReaderGetsKey ==
  (pc # "away" /\ (head # tail \/ heard # presses)) ~> (pc = "away")
=============================================================================
