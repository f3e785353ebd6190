---------------------------- MODULE MCSharedQueue ----------------------------
(***************************************************************************)
(* SharedQueue as TLC runs it: with programs of N elements, more than the  *)
(* queue holds, as those of test1, test5 and test6, and with programs that *)
(* just fill it and end, as those of test2.                                *)
(*                                                                         *)
(* The properties promise nothing once two writers have overlapped, and    *)
(* nine states in ten are of that kind.  An overlap is therefore explored  *)
(* with fewer programs than MaxRuns: none is started that would be the     *)
(* last one.  A step of a program that runs is never held back, so that    *)
(* fairness keeps its sense.                                               *)
(***************************************************************************)
EXTENDS SharedQueue

VARIABLE fits   (* the elements of a program fit the queue, never changes  *)

Short == INSTANCE SharedQueue WITH N <- Size

MCInit == Init /\ fits \in BOOLEAN

MCNext ==
  /\ \/ ~fits /\ Next
     \/ fits /\ Short!Next
  /\ overlap' => runs' < MaxRuns
  /\ UNCHANGED fits

MCFairness == WF_vars(~fits /\ Program) /\ WF_vars(fits /\ Short!Program)

MCSpec == MCInit /\ [][MCNext]_<<vars, fits>> /\ MCFairness

=============================================================================
