-------------------------- MODULE CircularQueueOps --------------------------
(***************************************************************************)
(* The pure part of the template class util_ipc::circular_queue            *)
(* (circular_queue_cpp11/circular_queue.h and its C++98 ancestor): what    *)
(* its accessors compute from the two offsets _tail_offset and             *)
(* _head_offset.                                                           *)
(*                                                                         *)
(* The models keep the two offsets as unreduced counts (how many elements  *)
(* were ever pushed and popped) and every read the code makes goes through *)
(* Word, which reduces a count to what the unsigned member of type Int     *)
(* holds.  The unreduced counts are history, the code never sees them.     *)
(***************************************************************************)
EXTENDS Integers

CONSTANTS
  Size,    (* _size, the number of slots                                *)
  IntMod,  (* 2^w for the w bits of Int; 2^32 for the default uint32_t  *)
  Cpp11    (* TRUE for circular_queue_cpp11, FALSE for circular_queue_cpp98 *)

ASSUME QueueConstants ==
  /\ Size \in Nat \ {0}
  /\ IntMod \in Nat
  /\ Size < IntMod
  /\ Cpp11 \in BOOLEAN

(* What a member of type Int holds of the count n.                         *)
Word(n) == n % IntMod

(* size(): the unsigned difference of the offsets t and h.                 *)
SizeOf(t, h) == (Word(t) - Word(h)) % IntMod

(* end() with > in place of >=: it hands out a slot of a full queue.       *)
EndIsNullTooLate(t, h) == SizeOf(t, h) > Size

(* end() returns a null pointer.                                           *)
EndIsNull(t, h) == SizeOf(t, h) >= Size

(* The index in _data of the element with offset n.                        *)
Slot(n) == Word(n) % Size

(* begin() of a ring that compares the two slots in place of the offsets:  *)
(* a full queue looks empty.                                               *)
BeginIsNullBySlot(t, h) == Slot(t) = Slot(h)

(* begin() with the comparison of the C++11 class, whatever the class.     *)
BeginIsNullByOrder(t, h) == Word(t) <= Word(h)

(* begin() returns a null pointer: the C++11 class compares the offsets    *)
(* with <=, the C++98 class with ==.                                       *)
BeginIsNull(t, h) ==
  IF Cpp11 THEN Word(t) <= Word(h) ELSE Word(t) = Word(h)

=============================================================================
