----------------------------- MODULE RegexMatch -----------------------------
(***************************************************************************)
(* my_regex_match of regex/: does a pattern of characters, "." for any     *)
(* character and "*" for any number of the one before match a whole text?  *)
(* The memo of dp only spares calls and is left out.  Places count from 0, *)
(* as in the code.                                                         *)
(***************************************************************************)
EXTENDS Integers, Sequences, FiniteSetsExt

Char(s, i) == s[i + 1]

(* The last place of c in the pattern.  Without one the code has -1 and    *)
(* compares it with unsigned places: no place is after it, just as none is *)
(* after the end.                                                          *)
LastPlace(pat, c) ==
  LET places == {j \in 0 .. Len(pat)-1 : Char(pat, j) = c}
  IN IF places = {} THEN Len(pat) ELSE Max(places)

CharMatches(text, i, c) == c = "." \/ (i < Len(text) /\ Char(text, i) = c)

(* match_dot, of a rest of the text and one of the pattern as long.        *)
MatchDot(text, pat, i, j) ==
  \A n \in 0 .. Len(text)-i-1 : CharMatches(text, i + n, Char(pat, j + n))

(* memcmp of the two rests.                                                *)
SameRest(text, pat, i, j) ==
  SubSeq(text, i + 1, Len(text)) = SubSeq(pat, j + 1, Len(pat))

(* The rests compared without regard to a dot in the first place.          *)
DpNoStarLate(text, pat, i, j) ==
  /\ Len(pat) - j = Len(text) - i
  /\ IF j >= LastPlace(pat, ".") THEN SameRest(text, pat, i, j)
     ELSE MatchDot(text, pat, i, j)

(* The rests when the pattern has no star left, compared at their lengths. *)
DpNoStar(text, pat, i, j) ==
  /\ Len(pat) - j = Len(text) - i
  /\ IF j > LastPlace(pat, ".") THEN SameRest(text, pat, i, j)
     ELSE MatchDot(text, pat, i, j)

(* dp(i, j): the pattern from j on matches the text from i on.             *)
Dp(text, pat) ==
  LET dp[i \in Nat, j \in Nat] ==
        IF i > Len(text) \/ j > Len(pat) THEN FALSE
        ELSE IF j > LastPlace(pat, "*") THEN DpNoStar(text, pat, i, j)
        ELSE IF j = Len(pat) THEN i = Len(text)
        ELSE LET first == CharMatches(text, i, Char(pat, j)) IN
             IF j + 1 < Len(pat) /\ Char(pat, j + 1) = "*"
             THEN (first /\ dp[i + 1, j]) \/ dp[i, j + 2]
             ELSE first /\ dp[i + 1, j + 1]
  IN dp[0, 0]

-----------------------------------------------------------------------------
(* What is wanted, by definition.                                          *)

(* Every star is after a character or a dot.                               *)
WellFormed(pat) ==
  \A j \in 1 .. Len(pat) : pat[j] = "*" => j > 1 /\ pat[j - 1] # "*"

(* The text can be cut into one piece per place of the pattern: the piece  *)
(* of a star and that of the character before it are empty together with   *)
(* the star's; a starred character has any number of its like, any other   *)
(* character one.                                                          *)
Accepts(text, pat) ==
  \E cut \in [0 .. Len(pat) -> 0 .. Len(text)] :
    /\ cut[0] = 0 /\ cut[Len(pat)] = Len(text)
    /\ \A j \in 1 .. Len(pat) :
         LET piece == cut[j-1] + 1 .. cut[j]
             starred == j < Len(pat) /\ pat[j + 1] = "*"
         IN /\ cut[j-1] <= cut[j]
            /\ pat[j] = "*" => piece = {}
            /\ pat[j] # "*" /\ ~starred => cut[j] = cut[j-1] + 1
            /\ pat[j] # "*" => \A i \in piece : pat[j] \in {".", text[i]}

=============================================================================
