--------------------------- MODULE CircularQueue ---------------------------
(***************************************************************************)
(* The members of circular_queue that change, as memory holds them.  The   *)
(* loops of SpscQueue and MpscQueue and the callers of QueueApi share      *)
(* them, and what a slot holds before its first write is theirs to say.    *)
(***************************************************************************)
EXTENDS CircularQueueOps

VARIABLES
  tail,  (* _tail_offset, unreduced *)
  head,  (* _head_offset, unreduced *)
  data   (* _data                   *)

=============================================================================
