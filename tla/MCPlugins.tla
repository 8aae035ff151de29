----------------------------- MODULE MCPlugins -----------------------------
(* A small instance of Plugins for TLC. *)
EXTENDS Plugins, TLC

CONSTANTS p1, p2, x1, r1, r2

TwoPlugins == {p1, p2}
OneExtension == {x1}
TwoRequests == {r1, r2}
Alike == Permutations(TwoPlugins) \cup Permutations(TwoRequests)
=============================================================================
