----------------------------- MODULE Algorithms -----------------------------
(***************************************************************************)
(* The two algorithms of the repository that have no state, called with    *)
(* every input up to a bound: prevPermOpt1, in both versions, and          *)
(* my_regex_match.                                                         *)
(***************************************************************************)
EXTENDS PrevPermutation, RegexMatch, SequencesExt

CONSTANTS
  MaxLen,   (* bound: elements of an array                                 *)
  MaxElem,  (* bound: the elements are 0 .. MaxElem                        *)
  MaxText,  (* bound: characters of a text                                 *)
  MaxPat,   (* bound: places of a pattern                                  *)
  Letters   (* the characters of texts and patterns                        *)

VARIABLES
  input,   (* an array, or a text and a pattern                            *)
  result   (* of the call, a sequence of at most one value                 *)

vars == <<input, result>>

Arrays   == UNION {[1 .. n -> 0 .. MaxElem] : n \in 2 .. MaxLen}
Texts    == SeqOf(Letters, MaxText)
Patterns == {p \in SeqOf(Letters \cup {".", "*"}, MaxPat) : WellFormed(p)}

ArrayInputs == [array : Arrays]
MatchInputs == [text : Texts, pat : Patterns]

Init ==
  /\ input \in ArrayInputs \cup MatchInputs
  /\ result = <<>>

Permute ==
  /\ result = <<>>
  /\ input \in ArrayInputs
  /\ result' = <<[new |-> PrevPermOpt1(input.array),
                  old |-> OldPrevPermOpt1(input.array)]>>
  /\ UNCHANGED input

Match ==
  /\ result = <<>>
  /\ input \in MatchInputs
  /\ result' = <<Dp(input.text, input.pat)>>
  /\ UNCHANGED input

Next == Permute \/ Match

Spec == Init /\ [][Next]_vars

-----------------------------------------------------------------------------
(* The result of prevPermOpt1 is the array itself, when it is sorted, or   *)
(* one swap below it.  It is the largest such array if the value brought   *)
(* forward occurs once, or in every place from the descent to its last     *)
(* one; when it occurs more often the wrong place may be swapped, and      *)
(* never would be if the result of bisect_left was kept.                   *)
PermuteNew(A, B) ==
  LET px    == Max(Descents(A))
      cands == Candidates(A, px)
      w     == Interval(A, px)
  IN /\ Descents(A) = {} => B = A
     /\ Descents(A) # {} =>
          /\ B \in Reachable(A)
          /\ cands = {Max(cands)} \/ px + 1 \in cands => B = Previous(A)
          /\ Swapped(A, px, BisectLeft(A, A[Max(cands)], w[1], w[2])) = Previous(A)

(* The old version is right if the last element is below the one in the   *)
(* descent and like no other, and returns nothing that one swap does not   *)
(* reach.                                                                  *)
PermuteOld(A, B) ==
  /\ B = A \/ B \in Reachable(A)
  /\ Descents(A) = {} \/ Candidates(A, Max(Descents(A))) = {Len(A)}
       => B = Previous(A)

(* The code has both as what prevPermOpt1 returns.                         *)
SwapsToPrevious ==
  input \in ArrayInputs /\ result # <<>> =>
    /\ PermuteNew(input.array, result[1].new)
    /\ PermuteOld(input.array, result[1].old)

(* The new version swaps with the leftmost of equal elements, as its       *)
(* comment asks for ("need to find left most value of p_max").  The code   *)
(* does not keep this: it drops the place that bisect_left finds.          *)
TakesLeftmost ==
  input \in ArrayInputs /\ result # <<>> /\ Descents(input.array) # {} =>
    LET A  == input.array
        px == Max(Descents(A))
    IN result[1].new = Swapped(A, px, Min(Candidates(A, px)))

(* The assertion at the end of test3 of the old version.  The code does    *)
(* not keep this: the walk to the left of equal elements stops one place   *)
(* too far, here at the descent itself, which is swapped with itself.      *)
OldMeetsTest3 ==
  input \in ArrayInputs /\ result # <<>> /\ input.array = <<3, 1, 1, 3>> =>
    result[1].old = <<1, 3, 1, 3>>

(* dp, with its short cuts behind the last star and the last dot, says of  *)
(* every text and every well-formed pattern whether the one matches the    *)
(* other.                                                                  *)
MatchesLanguage ==
  input \in MatchInputs /\ result # <<>> =>
    (result[1] <=> Accepts(input.text, input.pat))

=============================================================================
