------------------------------ MODULE MCMembers ------------------------------
(* A small instance of Members for TLC. *)
EXTENDS Members, TLC

CONSTANTS u1, u2, r1, r2, r3, c1, c2

OneUser == {u1}
TwoUsers == {u1, u2}
TwoIds == {r1, r2}
ThreeIds == {r1, r2, r3}
TwoCalls == {c1, c2}
Alike == Permutations(TwoUsers) \cup Permutations(ThreeIds)
             \cup Permutations(TwoCalls)
=============================================================================
