----------------------------- MODULE BoundedFifo -----------------------------
(***************************************************************************)
(* What circular_queue promises a single producer and a single consumer:   *)
(* a FIFO of bounded capacity that delivers every element once, in the     *)
(* order of the pushes, with the value it was pushed with.  The element    *)
(* pushed n-th (counting from 0) is represented by n itself, so that a     *)
(* lost, repeated, reordered or overwritten element is told apart from     *)
(* the right one.                                                          *)
(***************************************************************************)
EXTENDS Integers, Sequences

CONSTANT Capacity

VARIABLES
  queue,   (* the elements pushed and not yet taken, oldest first *)
  put,     (* number of elements pushed so far                    *)
  got      (* the element taken last, -1 before the first         *)

vars == <<queue, put, got>>

Init ==
  /\ queue = <<>>
  /\ put = 0
  /\ got = -1

Put ==
  /\ Len(queue) < Capacity
  /\ queue' = Append(queue, put)
  /\ put' = put + 1
  /\ UNCHANGED got

Get ==
  /\ queue # <<>>
  /\ got' = Head(queue)
  /\ queue' = Tail(queue)
  /\ UNCHANGED put

Next == Put \/ Get

Spec == Init /\ [][Next]_vars

=============================================================================
