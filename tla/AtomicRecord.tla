---------------------------- MODULE AtomicRecord ----------------------------
(***************************************************************************)
(* What an IOGuard promises: a record that its single writer replaces as a *)
(* whole and that every reader obtains as a whole, as if both happened at  *)
(* one instant.  A write cut short by the death of the writer never        *)
(* happened.                                                               *)
(***************************************************************************)
CONSTANTS
  Readers,  (* the readers                     *)
  Record,   (* the values of the whole record  *)
  Blank     (* the value it is created with    *)

VARIABLES
  reg,      (* the record                                               *)
  ret       (* what each reader obtained last, Blank before its first   *)

vars == <<reg, ret>>

Init ==
  /\ reg = Blank
  /\ ret = [r \in Readers |-> Blank]

Write(v) ==
  /\ reg' = v
  /\ UNCHANGED ret

Read(r) ==
  /\ ret' = [ret EXCEPT ![r] = reg]
  /\ UNCHANGED reg

Next == (\E v \in Record : Write(v)) \/ (\E r \in Readers : Read(r))

Spec == Init /\ [][Next]_vars

=============================================================================
