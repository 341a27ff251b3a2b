------------------------------ MODULE KeyFifo ------------------------------
(***************************************************************************)
(* What the keyboard queue of kernel/api.asm promises: key events come out *)
(* of read_key once each, in the order the interrupt handler put them in.  *)
(* An event that finds the queue full is dropped and the loss is recorded. *)
(***************************************************************************)
EXTENDS Naturals, Sequences

CONSTANTS Event, Capacity

VARIABLES
  fifo,   \* the events waiting
  got,    \* the event read_key returned last, <<>> before the first
  lost    \* TRUE once an event was dropped

Init == fifo = <<>> /\ got = <<>> /\ lost = FALSE

Put(e) ==
  /\ IF Len(fifo) < Capacity
     THEN fifo' = Append(fifo, e) /\ UNCHANGED lost
     ELSE lost' = TRUE /\ UNCHANGED fifo
  /\ UNCHANGED got

Get ==
  /\ fifo # <<>>
  /\ got' = Head(fifo) /\ fifo' = Tail(fifo)
  /\ UNCHANGED lost

Next == Get \/ \E e \in Event : Put(e)

Spec == Init /\ [][Next]_<<fifo, got, lost>>
=============================================================================
