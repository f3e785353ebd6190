----------------------------- MODULE CustomRand -----------------------------
(***************************************************************************)
(* The class ax_b_c_random of CustomRand/CustomRand.h, the generator that  *)
(* the programs beside the queue draw their elements from.                 *)
(***************************************************************************)
EXTENDS Integers

CONSTANTS
  DefaultA,  (* default of A, 65257                                        *)
  DefaultB,  (* default of B, 63337                                        *)
  DefaultC,  (* default of C, 65536                                        *)
  RandMod    (* 2^w for the w bits of an int, 2^32                         *)

ASSUME RandConstants ==
  /\ DefaultA \in Nat
  /\ DefaultB \in Nat
  /\ DefaultC \in Nat \ {0}
  /\ RandMod \in Nat \ {0}

(* The attributes of a generator; _x is set to _seed.                      *)
Generator(a, b, c, seed) == [a |-> a, b |-> b, c |-> c, seed |-> seed, x |-> seed]

(* A generator that was declared without arguments.                        *)
DefaultGenerator == Generator(DefaultA, DefaultB, DefaultC, 0)

PutSeed(g, s) == Generator(g.a, g.b, g.c, s)

(* What an int holds of n: the overflow, which the language leaves         *)
(* undefined, wraps in the builds there are.                               *)
IntOf(n) ==
  LET u == n % RandMod IN IF u < RandMod \div 2 THEN u ELSE u - RandMod

(* The operator % of C, which takes the sign of the dividend.              *)
Remainder(n, c) == IF n < 0 THEN -((-n) % c) ELSE n % c

(* iterate() that keeps the sign.                                          *)
IterateSigned(g) == [g EXCEPT !.x = Remainder(IntOf(g.a * g.x + g.b), g.c)]

Iterate(g) ==
  LET x == Remainder(IntOf(g.a * g.x + g.b), g.c)
  IN [g EXCEPT !.x = IF x < 0 THEN -x ELSE x]

(* What rand() returns.                                                    *)
Rand(g) == Iterate(g).x

=============================================================================
