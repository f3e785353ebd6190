-------------------------- MODULE PrevPermutation --------------------------
(***************************************************************************)
(* prev_permutation_one_swap/: the largest permutation of an array below   *)
(* it that one swap reaches, in its old and its present version.  Both     *)
(* find the last descent, A[px] > A[px+1], and swap A[px] with the largest *)
(* smaller element behind it, of which they want the leftmost.  Arrays     *)
(* have at least two elements: the code reads before a shorter one.        *)
(***************************************************************************)
EXTENDS Integers, Sequences, FiniteSetsExt

(* A with the elements at p and q swapped; at the same place, A.           *)
Swapped(A, p, q) == [A EXCEPT ![p] = A[q], ![q] = A[p]]

Descents(A) == {p \in 1 .. Len(A)-1 : A[p] > A[p + 1]}

-----------------------------------------------------------------------------
(* prev_permutation.h and prev_permutation.cpp                             *)

(* bisect_max_crit with its halves one element too narrow.                 *)
BisectMaxCritNarrow(A, crit, begin, back) ==
  LET place[lo \in Nat, hi \in Nat] ==
        LET mid == (hi - lo + 1) \div 2 + lo IN
        IF lo >= hi THEN lo
        ELSE IF A[mid] < crit THEN place[mid, hi - 1] ELSE place[lo, mid - 1]
  IN IF A[back] < crit THEN back ELSE place[begin, back]

(* The last place from begin to back, between which A does not decrease,   *)
(* of an element below crit.                                               *)
BisectMaxCrit(A, crit, begin, back) ==
  LET place[lo \in Nat, hi \in Nat] ==
        LET mid == (hi - lo + 1) \div 2 + lo IN
        IF lo >= hi THEN lo
        ELSE IF A[mid] < crit THEN place[mid, hi] ELSE place[lo, mid - 1]
  IN IF A[back] < crit THEN back ELSE place[begin, back]

(* The two places, beg and pval, that walk_left_find_val_lt leaves: it     *)
(* walks left from pval in steps that double as long as it finds val, with *)
(* probes before the array ending the walk as those before beg do.         *)
WalkLeftFindValLt(A, val, beg, pval) ==
  LET walk[probe \in Int, step \in Nat, p \in Nat] ==
        IF probe <= beg THEN <<beg, p>>
        ELSE IF A[probe] < val THEN <<probe, p>>
        ELSE walk[pval - 2 * step, 2 * step, probe]
  IN IF val = A[beg] THEN <<beg, beg>>
     ELSE IF A[pval - 1] # val THEN <<pval, pval>>
     ELSE walk[pval - 1, 2, pval]

(* The first place from beg to back of an element that is at least val.    *)
BisectLeft(A, val, beg, back) ==
  LET place[lo \in Nat, hi \in Nat] ==
        LET mid == (hi - lo) \div 2 + lo IN
        IF lo >= hi THEN lo
        ELSE IF A[mid] >= val THEN place[lo, mid] ELSE place[mid + 1, hi]
  IN place[beg, back]

(* The interval of the walk, if there is anything left of p_max to search, *)
(* in which the leftmost element like it is.                               *)
Interval(A, px) ==
  LET last == BisectMaxCrit(A, A[px], px + 1, Len(A)) IN
  IF last = px + 1 THEN <<last, last>>
  ELSE WalkLeftFindValLt(A, A[last], px + 1, last)

(* p_max: the result of bisect_left is dropped and the start of the        *)
(* interval taken.                                                         *)
MaxPlace(A, px) ==
  LET w == Interval(A, px) IN IF w[1] < w[2] - 1 THEN w[1] ELSE w[2]

PrevPermOpt1(A) ==
  IF Descents(A) = {} THEN A
  ELSE LET px == Max(Descents(A)) IN Swapped(A, px, MaxPlace(A, px))

-----------------------------------------------------------------------------
(* old_prev_permutation.cpp                                                *)

(* The bisection between px + 1 and the last element, which is not below   *)
(* A[px]; best is the leftmost place it has seen of the largest value.     *)
OldBisection(A, px) ==
  LET search[lhs \in Nat, rhs \in Nat, best \in Nat] ==
        LET probe == (rhs - lhs) \div 2 + lhs IN
        IF probe \in {lhs, rhs} THEN best
        ELSE IF A[probe] >= A[px] THEN search[lhs, probe, best]
        ELSE search[probe, rhs, IF A[probe] > A[best] THEN probe ELSE best]
  IN search[px + 1, Len(A), px + 1]

(* The shift to the left goes on to the first place with another value, or *)
(* to px itself.                                                           *)
OldMaxPlace(A, px) ==
  IF A[Len(A)] < A[px] THEN Len(A)
  ELSE LET best == OldBisection(A, px)
       IN Max({px} \cup {p \in px + 1 .. best : A[p] # A[best]})

OldPrevPermOpt1(A) ==
  IF Descents(A) = {} THEN A
  ELSE LET px == Max(Descents(A)) IN Swapped(A, px, OldMaxPlace(A, px))

-----------------------------------------------------------------------------
(* What is wanted, by definition.                                          *)

Below(A, B) ==
  \E p \in 1 .. Len(A) : A[p] < B[p] /\ \A q \in 1 .. p-1 : A[q] = B[q]

Reachable(A) ==
  {B \in {Swapped(A, p, q) : p, q \in 1 .. Len(A)} : Below(B, A)}

Previous(A) ==
  IF Reachable(A) = {} THEN A
  ELSE CHOOSE B \in Reachable(A) : \A C \in Reachable(A) : C = B \/ Below(C, B)

(* The places behind px of the value that has to go there.                 *)
Candidates(A, px) ==
  LET smaller == {p \in px + 1 .. Len(A) : A[p] < A[px]}
  IN {p \in smaller : A[p] = Max({A[q] : q \in smaller})}

=============================================================================
