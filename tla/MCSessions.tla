----------------------------- MODULE MCSessions -----------------------------
(* A small instance of Sessions for TLC. *)
EXTENDS Sessions, TLC

CONSTANTS t1, t2, t3, x1, x2, c1, c2

ThreeTokens == {t1, t2, t3}
TwoResets == {x1, x2}
TwoCalls == {c1, c2}
Alike == Permutations(ThreeTokens) \cup Permutations(TwoResets)
             \cup Permutations(TwoCalls)
=============================================================================
